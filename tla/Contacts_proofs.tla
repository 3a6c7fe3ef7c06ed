--------------------------- MODULE Contacts_proofs ----------------------------
(***************************************************************************)
(* Proofs about the services people are in contact with: their sessions    *)
(* and devices, the portal, the desk, mails and calls, lists, reports and  *)
(* what is read from caches, in the form of Services_proofs.               *)
(***************************************************************************)
EXTENDS Sessions, CustomerReviews, PortalAccess, PushDevices, CallLog, TicketDesk,
        MailDelivery, Checklists, ClientReports, CachedReads, BankFeed, LeaveDays,
        RiskScores, SumTheorems

-----------------------------------------------------------------------------
(****************************************************************************)
(* The sessions of a user.  Until two requests pass the check of one token, *)
(* a login is in one hand: that of its live token, or of the one request    *)
(* that has read it and has still to issue the next (OneHand).              *)
(****************************************************************************)
TokenRows == [state : {"none", "live", "revoked"}, since : Nat, login : Nat]
VisitRows == [at : {"idle", "check", "revoke", "issue", "answer"}, token : 0..MaxTokens,
              since : Nat, login : Nat]

SessionTypes ==
    /\ token \in [Tokens -> TokenRows] /\ visit \in [Pages -> VisitRows]
    /\ cookie \in 0..MaxTokens /\ ends \in Nat
    /\ \A p \in Pages : visit[p].at \in {"check", "revoke", "answer"} => visit[p].token \in Tokens

Holds(p) == visit[p].at \in {"revoke", "issue"}

OneHand ==
    /\ \A t, u \in Tokens : token[t].state = "live" /\ token[u].state = "live"
                            /\ token[t].login = token[u].login => t = u
    /\ \A p, q \in Pages : Holds(p) /\ Holds(q) /\ visit[p].login = visit[q].login => p = q
    /\ \A t \in Tokens, p \in Pages :
         token[t].state = "live" /\ Holds(p) /\ token[t].login = visit[p].login
         => visit[p].at = "revoke" /\ visit[p].token = t

SessionInv == SessionTypes /\ (forked = "no" => OneHand)

LEMMA TokensAre ==
  /\ Tokens \subseteq 0..MaxTokens /\ 0 \in 0..MaxTokens /\ 0 \notin Tokens
  /\ \A t \in 0..MaxTokens : t # 0 => t \in Tokens
  BY SessionsAssumption DEF Tokens

LEMMA NoVisitIs == NoVisit \in VisitRows /\ NoVisit.at = "idle"
  BY TokensAre DEF NoVisit, VisitRows

LEMMA SessionsInitInv == SessionsInit => SessionInv
  <1> SUFFICES ASSUME SessionsInit PROVE SessionInv
    OBVIOUS
  <1>1. NoToken \in TokenRows /\ NoToken.state = "none"
    BY DEF NoToken, TokenRows
  <1>2. /\ \A t \in Tokens : token[t] = NoToken
        /\ \A p \in Pages : visit[p] = NoVisit
    BY DEF SessionsInit
  <1> QED
    BY <1>1, <1>2, NoVisitIs, TokensAre
    DEF SessionsInit, SessionInv, SessionTypes, OneHand, Holds

\* A step of page p that comes into hold of no login, while tokens may end.
LEMMA VisitRestsInv ==
  ASSUME SessionInv, NEW p \in Pages, NEW w \in VisitRows, visit' = [visit EXCEPT ![p] = w],
         w.at \in {"idle", "check", "answer"},
         w.at \in {"check", "answer"} => w.token \in Tokens,
         cookie' \in 0..MaxTokens, UNCHANGED <<token, ends, forked>>
  PROVE  SessionInv'
  <1>1. visit'[p] = w /\ \A q \in Pages \ {p} : visit'[q] = visit[q]
    BY DEF SessionInv, SessionTypes
  <1>2. SessionTypes'
    BY <1>1 DEF SessionInv, SessionTypes
  <1>3. forked = "no" => OneHand'
    BY <1>1 DEF SessionInv, OneHand, Holds
  <1> QED
    BY <1>2, <1>3 DEF SessionInv

LEMMA TokensEndInv ==
  ASSUME SessionInv, NEW ts, token' = Revoked(ts), cookie' \in 0..MaxTokens, ends' \in Nat,
         UNCHANGED <<visit, forked>>
  PROVE  SessionInv'
  <1>1. \A t \in Tokens : token[t] \in TokenRows
    BY DEF SessionInv, SessionTypes
  <1>2. \A t \in Tokens : /\ token'[t] \in TokenRows /\ token'[t].login = token[t].login
                          /\ token'[t].state = "live" => token[t].state = "live"
    BY <1>1 DEF Revoked, TokenRows
  <1>3. SessionTypes'
    BY <1>2 DEF SessionInv, SessionTypes, Revoked
  <1>4. forked = "no" => OneHand'
    BY <1>2 DEF SessionInv, OneHand, Holds
  <1> QED
    BY <1>3, <1>4 DEF SessionInv

LEMMA EndingInv ==
  ASSUME SessionInv,
         EndAll \/ Deactivate \/ LogOut \/ EndOthers \/ \E t \in Tokens : RevokeSession(t)
  PROVE  SessionInv'
  <1>1. /\ cookie' \in {cookie, 0} /\ (ends' = ends \/ ends' = ends + 1)
        /\ UNCHANGED <<visit, forked>>
    BY DEF EndAll, Deactivate, LogOut, EndOthers, RevokeSession
  <1>2. \E ts : token' = Revoked(ts)
    BY DEF EndAll, Deactivate, LogOut, EndOthers, RevokeSession
  <1>3. cookie' \in 0..MaxTokens /\ ends' \in Nat
    BY <1>1, TokensAre DEF SessionInv, SessionTypes
  <1> QED
    BY <1>1, <1>2, <1>3, TokensEndInv

LEMMA LoginInv ==
  ASSUME SessionInv, NEW p \in Pages, Login(p)
  PROVE  SessionInv'
  <1>1. PICK n \in 1..MaxLogins \ Logins :
          visit' = [visit EXCEPT ![p] = [at |-> "issue", token |-> 0, since |-> ends,
                                         login |-> n]]
    BY DEF Login
  <1> DEFINE w == [at |-> "issue", token |-> 0, since |-> ends, login |-> n]
  <1>2. /\ UNCHANGED <<token, cookie, ends, forked>> /\ ends \in Nat
        /\ visit \in [Pages -> VisitRows]
    BY DEF Login, SessionInv, SessionTypes
  <1>3. w \in VisitRows /\ w.at = "issue" /\ w.login = n
    BY <1>2, TokensAre, SessionsAssumption DEF VisitRows
  <1>4. visit' = [visit EXCEPT ![p] = w]
    BY <1>1
  <1> HIDE DEF w
  <1>5. visit'[p] = w /\ \A q \in Pages \ {p} : visit'[q] = visit[q]
    BY <1>2, <1>4
  <1>6. (\A t \in Tokens : token[t].login # n) /\ \A q \in Pages : visit[q].login # n
    BY DEF Logins
  <1>7. SessionTypes'
    BY <1>2, <1>3, <1>4, <1>5 DEF SessionInv, SessionTypes
  <1>8. forked = "no" => OneHand'
    BY <1>2, <1>3, <1>5, <1>6 DEF SessionInv, OneHand, Holds
  <1> QED
    BY <1>2, <1>7, <1>8 DEF SessionInv

LEMMA CheckTokenInv ==
  ASSUME SessionInv, NEW p \in Pages, CheckToken(p)
  PROVE  SessionInv'
  <1> DEFINE t == visit[p].token
             w == [at |-> "revoke", token |-> t, since |-> token[t].since,
                   login |-> token[t].login]
  <1>1. /\ visit \in [Pages -> VisitRows] /\ visit[p].at = "check" /\ t \in Tokens
        /\ token[t] \in TokenRows /\ UNCHANGED <<token, cookie, ends>>
        /\ cookie \in 0..MaxTokens
    BY DEF CheckToken, SessionInv, SessionTypes
  <1>2. CASE ~ Refreshable(t)
    <2>1. visit' = [visit EXCEPT ![p] = NoVisit] /\ UNCHANGED forked
      BY <1>2 DEF CheckToken
    <2> QED
      BY <1>1, <2>1, NoVisitIs, VisitRestsInv
  <1>3. CASE Refreshable(t)
    <2>1. /\ visit' = [visit EXCEPT ![p] = w]
          /\ forked' = IF \E q \in Pages \ {p} : visit[q].at = "revoke" /\ visit[q].token = t
                       THEN "yes" ELSE forked
          /\ token[t].state = "live"
      BY <1>3 DEF CheckToken, Refreshable
    <2>2. w \in VisitRows /\ w.at = "revoke" /\ w.token = t /\ w.login = token[t].login
      BY <1>1, TokensAre DEF VisitRows, TokenRows
    <2> HIDE DEF w
    <2>3. visit'[p] = w /\ \A q \in Pages \ {p} : visit'[q] = visit[q]
      BY <1>1, <2>1
    <2>4. SessionTypes'
      BY <1>1, <2>1, <2>2, <2>3 DEF SessionInv, SessionTypes
    <2>5. ASSUME forked' = "no" PROVE OneHand'
      <3>1. /\ forked = "no" /\ OneHand
            /\ \A q \in Pages \ {p} : ~(visit[q].at = "revoke" /\ visit[q].token = t)
        BY <2>1, <2>5 DEF SessionInv
      <3>2. \A q \in Pages \ {p} : Holds(q) => visit[q].login # token[t].login
        BY <1>1, <2>1, <3>1 DEF OneHand
      <3>3. ASSUME NEW q \in Pages, NEW r \in Pages, Holds(q)', Holds(r)',
                   visit'[q].login = visit'[r].login
            PROVE  q = r
        BY <2>2, <2>3, <3>1, <3>2, <3>3 DEF OneHand, Holds
      <3>4. ASSUME NEW u \in Tokens, NEW q \in Pages, token[u].state = "live", Holds(q)',
                   token[u].login = visit'[q].login
            PROVE  visit'[q].at = "revoke" /\ visit'[q].token = u
        <4>1. CASE q = p
          BY <1>1, <2>1, <2>2, <2>3, <3>1, <3>4, <4>1 DEF OneHand
        <4> QED
          BY <2>3, <3>1, <3>4, <4>1 DEF OneHand, Holds
      <3> QED
        BY <1>1, <3>1, <3>3, <3>4 DEF OneHand
    <2> QED
      BY <2>4, <2>5 DEF SessionInv
  <1> QED
    BY <1>2, <1>3

LEMMA RevokeTokenInv ==
  ASSUME SessionInv, NEW p \in Pages, RevokeToken(p)
  PROVE  SessionInv'
  <1> DEFINE t == visit[p].token
             w == [visit[p] EXCEPT !.at = "issue", !.token = 0]
             v == [token[t] EXCEPT !.state = "revoked"]
  <1>1. /\ visit \in [Pages -> VisitRows] /\ visit[p].at = "revoke" /\ t \in Tokens
        /\ token \in [Tokens -> TokenRows] /\ UNCHANGED <<cookie, ends, forked>>
    BY DEF RevokeToken, SessionInv, SessionTypes
  <1>2. w \in VisitRows /\ w.at = "issue" /\ w.login = visit[p].login
    BY <1>1, TokensAre DEF VisitRows
  <1>3. v \in TokenRows /\ v.state = "revoked" /\ v.login = token[t].login
    BY <1>1 DEF TokenRows
  <1>4. visit' = [visit EXCEPT ![p] = w] /\ token' = [token EXCEPT ![t] = v]
    BY <1>1 DEF RevokeToken, Rotated
  <1> HIDE DEF w, v
  <1>5. /\ visit'[p] = w /\ \A q \in Pages \ {p} : visit'[q] = visit[q]
        /\ token'[t] = v /\ \A u \in Tokens \ {t} : token'[u] = token[u]
    BY <1>1, <1>4
  <1>6. SessionTypes'
    BY <1>1, <1>2, <1>3, <1>4, <1>5 DEF SessionInv, SessionTypes
  <1>7. ASSUME forked = "no" PROVE OneHand'
    <2>1. OneHand
      BY <1>7 DEF SessionInv
    <2>2. \A u \in Tokens : token'[u].state = "live" => u # t /\ token'[u] = token[u]
      BY <1>3, <1>5
    <2>3. \A q \in Pages : /\ Holds(q)' => Holds(q) /\ visit'[q].login = visit[q].login
                           /\ q # p => visit'[q] = visit[q]
      BY <1>1, <1>2, <1>5 DEF Holds
    <2>4. \A u \in Tokens : token'[u].state = "live" => token[u].login # visit[p].login
      BY <1>1, <2>1, <2>2 DEF OneHand, Holds
    <2> QED
      BY <2>1, <2>2, <2>3, <2>4 DEF OneHand
  <1> QED
    BY <1>1, <1>6, <1>7 DEF SessionInv

LEMMA IssueTokenInv ==
  ASSUME SessionInv, NEW p \in Pages, IssueToken(p)
  PROVE  SessionInv'
  <1>1. PICK t \in FreeTokens :
          /\ token' = [token EXCEPT ![t] = [state |-> "live", since |-> visit[p].since,
                                            login |-> visit[p].login]]
          /\ visit' = [visit EXCEPT ![p] = [NoVisit EXCEPT !.at = "answer", !.token = t]]
    BY DEF IssueToken
  <1> DEFINE w == [NoVisit EXCEPT !.at = "answer", !.token = t]
             v == [state |-> "live", since |-> visit[p].since, login |-> visit[p].login]
  <1>2. /\ visit \in [Pages -> VisitRows] /\ visit[p].at = "issue" /\ t \in Tokens
        /\ visit[p] \in VisitRows
        /\ token \in [Tokens -> TokenRows] /\ UNCHANGED <<cookie, ends, forked>>
    BY DEF IssueToken, SessionInv, SessionTypes, FreeTokens
  <1>3. w \in VisitRows /\ w.at = "answer" /\ w.token = t
    BY <1>2, NoVisitIs, TokensAre DEF VisitRows
  <1>4. v \in TokenRows /\ v.state = "live" /\ v.login = visit[p].login
    BY <1>2 DEF TokenRows, VisitRows
  <1>5. visit' = [visit EXCEPT ![p] = w] /\ token' = [token EXCEPT ![t] = v]
    BY <1>1
  <1> HIDE DEF w, v
  <1>6. /\ visit'[p] = w /\ \A q \in Pages \ {p} : visit'[q] = visit[q]
        /\ token'[t] = v /\ \A u \in Tokens \ {t} : token'[u] = token[u]
    BY <1>2, <1>5
  <1>7. SessionTypes'
    BY <1>2, <1>3, <1>4, <1>5, <1>6 DEF SessionInv, SessionTypes
  <1>8. ASSUME forked = "no" PROVE OneHand'
    <2>1. OneHand
      BY <1>8 DEF SessionInv
    <2>2. \A q \in Pages : Holds(q)' => q # p /\ Holds(q) /\ visit'[q] = visit[q]
      BY <1>3, <1>6 DEF Holds
    <2>3. /\ \A u \in Tokens : token[u].state = "live" => token[u].login # visit[p].login
          /\ \A q \in Pages \ {p} : Holds(q) => visit[q].login # visit[p].login
      BY <1>2, <2>1 DEF OneHand, Holds
    <2>4. \A u, x \in Tokens : token'[u].state = "live" /\ token'[x].state = "live"
                               /\ token'[u].login = token'[x].login => u = x
      BY <1>4, <1>6, <2>1, <2>3 DEF OneHand
    <2>5. \A u \in Tokens, q \in Pages :
            token'[u].state = "live" /\ Holds(q)' /\ token'[u].login = visit'[q].login
            => visit'[q].at = "revoke" /\ visit'[q].token = u
      BY <1>4, <1>6, <2>1, <2>2, <2>3 DEF OneHand
    <2> QED
      BY <2>1, <2>2, <2>4, <2>5 DEF OneHand
  <1> QED
    BY <1>2, <1>7, <1>8 DEF SessionInv

LEMMA VisitGoesInv ==
  ASSUME SessionInv, NEW p \in Pages, AskRefresh(p) \/ TakeAnswer(p) \/ VisitDies(p)
  PROVE  SessionInv'
  <1>1. /\ UNCHANGED <<token, ends, forked>> /\ cookie \in 0..MaxTokens
        /\ visit[p] \in VisitRows
    BY DEF AskRefresh, TakeAnswer, VisitDies, SessionInv, SessionTypes
  <1>2. CASE AskRefresh(p)
    <2> DEFINE w == [NoVisit EXCEPT !.at = "check", !.token = cookie]
    <2>1. w \in VisitRows /\ w.at = "check" /\ w.token = cookie /\ cookie \in Tokens
      BY <1>1, <1>2, NoVisitIs, TokensAre DEF VisitRows, AskRefresh
    <2>2. visit' = [visit EXCEPT ![p] = w] /\ UNCHANGED cookie
      BY <1>2 DEF AskRefresh
    <2> HIDE DEF w
    <2> QED
      BY <1>1, <2>1, <2>2, VisitRestsInv
  <1>3. CASE TakeAnswer(p) \/ VisitDies(p)
    <2>1. visit' = [visit EXCEPT ![p] = NoVisit] /\ cookie' \in 0..MaxTokens
      BY <1>1, <1>3 DEF TakeAnswer, VisitDies, VisitRows
    <2> QED
      BY <1>1, <2>1, NoVisitIs, VisitRestsInv
  <1> QED
    BY <1>2, <1>3

LEMMA SessionsStepInv == SessionInv /\ [SessionsNext]_sessionVars => SessionInv'
  <1> SUFFICES ASSUME SessionInv, [SessionsNext]_sessionVars PROVE SessionInv'
    OBVIOUS
  <1>1. CASE UNCHANGED sessionVars \/ SetActive
    <2>1. UNCHANGED <<token, visit, cookie, ends, forked>>
      BY <1>1 DEF sessionVars, SetActive
    <2> QED
      BY <2>1 DEF SessionInv, SessionTypes, OneHand, Holds
  <1> QED
    BY <1>1, EndingInv, LoginInv, CheckTokenInv, RevokeTokenInv, IssueTokenInv, VisitGoesInv
    DEF SessionsNext

LEMMA SessionsHold == SessionInv => OneTokenPerLogin
  BY DEF SessionInv, OneHand, OneTokenPerLogin, LiveTokens

(****************************************************************************)
(* What was ended stays ended.  A login that was ended alone is that of a   *)
(* row that is there (OverUsed), so no new login is; and until a session is *)
(* ended while a request holds it, what lives and what is held is from      *)
(* since the last end of all, and, until one forks, not ended alone         *)
(* (NewestIssue).                                                           *)
(****************************************************************************)
OverUsed == \A n \in over : \E t \in Tokens : token[t].state # "none" /\ token[t].login = n
RecentRow(r) == r.since = ends /\ (forked = "no" => r.login \notin over)
NewestIssue ==
    lateIssue = "no" =>
        /\ \A t \in Tokens : token[t].state = "live" => RecentRow(token[t])
        /\ \A p \in Pages : Holds(p) => RecentRow(visit[p])

EndedInv == SessionInv /\ OverUsed /\ NewestIssue

LEMMA EndedInitInv == SessionsInit => EndedInv
  <1> SUFFICES ASSUME SessionsInit PROVE EndedInv
    OBVIOUS
  <1>1. OverUsed /\ NewestIssue
    BY DEF SessionsInit, OverUsed, NewestIssue, NoToken, NoVisit, Holds
  <1> QED
    BY <1>1, SessionsInitInv DEF EndedInv

\* A step that ends nothing makes live or holds only what was.
LEMMA GoesOnEnded ==
  ASSUME EndedInv, SessionInv', UNCHANGED <<ends, over, lateIssue>>,
         forked' = "no" => forked = "no",
         \A t \in Tokens : /\ token[t].state # "none" => /\ token'[t].state # "none"
                                                        /\ token'[t].login = token[t].login
                           /\ token'[t].state = "live" /\ lateIssue = "no" => RecentRow(token'[t]),
         \A p \in Pages : Holds(p)' /\ lateIssue = "no" => RecentRow(visit'[p])
  PROVE  EndedInv'
  <1>1. OverUsed'
    BY DEF EndedInv, OverUsed
  <1>2. NewestIssue'
    BY DEF NewestIssue, RecentRow
  <1> QED
    BY <1>1, <1>2 DEF EndedInv

LEMMA LoginEnded ==
  ASSUME EndedInv, NEW p \in Pages, Login(p)
  PROVE  EndedInv'
  <1>1. PICK n \in 1..MaxLogins \ Logins :
          visit' = [visit EXCEPT ![p] = [at |-> "issue", token |-> 0, since |-> ends,
                                         login |-> n]]
    BY DEF Login
  <1>2. PICK w : w = [at |-> "issue", token |-> 0, since |-> ends, login |-> n]
    OBVIOUS
  <1>3. /\ UNCHANGED <<token, ends, over, forked, lateIssue>>
        /\ visit \in [Pages -> VisitRows]
    BY DEF Login, EndedInv, SessionInv, SessionTypes
  <1>4. visit'[p] = w /\ \A q \in Pages \ {p} : visit'[q] = visit[q]
    BY <1>1, <1>2, <1>3
  <1>5. n \notin over
    BY DEF EndedInv, OverUsed, Logins
  <1>6. RecentRow(w)
    BY <1>2, <1>5 DEF RecentRow
  <1>7. SessionInv'
    BY LoginInv DEF EndedInv
  <1>8. /\ \A t \in Tokens : /\ token[t].state # "none" => /\ token'[t].state # "none"
                                                           /\ token'[t].login = token[t].login
                             /\ token'[t].state = "live" /\ lateIssue = "no"
                                => RecentRow(token'[t])
        /\ \A q \in Pages : Holds(q)' /\ lateIssue = "no" => RecentRow(visit'[q])
    BY <1>3, <1>4, <1>6 DEF EndedInv, NewestIssue, Holds
  <1> QED
    BY <1>3, <1>7, <1>8, GoesOnEnded

LEMMA CheckTokenEnded ==
  ASSUME EndedInv, NEW p \in Pages, CheckToken(p)
  PROVE  EndedInv'
  <1>1. PICK t : t = visit[p].token
    OBVIOUS
  <1>2. /\ visit \in [Pages -> VisitRows] /\ visit[p].at = "check" /\ t \in Tokens
        /\ UNCHANGED <<token, ends, over, lateIssue>> /\ forked \in {"no", "yes", forked}
        /\ forked' \in {"yes", forked} /\ SessionInv'
    BY <1>1, CheckTokenInv DEF CheckToken, EndedInv, SessionInv, SessionTypes
  <1>3. \A q \in Pages : Holds(q)' /\ lateIssue = "no" => RecentRow(visit'[q])
    <2>1. CASE ~ Refreshable(t)
      <3>1. visit' = [visit EXCEPT ![p] = NoVisit]
        BY <1>1, <2>1 DEF CheckToken
      <3> QED
        BY <1>2, <3>1 DEF EndedInv, NewestIssue, Holds, NoVisit
    <2>2. CASE Refreshable(t)
      <3>1. PICK w : w = [at |-> "revoke", token |-> t, since |-> token[t].since,
                          login |-> token[t].login]
        OBVIOUS
      <3>2. visit' = [visit EXCEPT ![p] = w] /\ token[t].state = "live"
        BY <1>1, <2>2, <3>1 DEF CheckToken, Refreshable
      <3>3. lateIssue = "no" => RecentRow(w)
        BY <1>2, <3>1, <3>2 DEF EndedInv, NewestIssue, RecentRow
      <3>4. visit'[p] = w /\ \A q \in Pages \ {p} : visit'[q] = visit[q]
        BY <1>2, <3>2
      <3> QED
        BY <3>3, <3>4 DEF EndedInv, NewestIssue, Holds
    <2> QED
      BY <2>1, <2>2
  <1>4. \A u \in Tokens : /\ token[u].state # "none" => /\ token'[u].state # "none"
                                                        /\ token'[u].login = token[u].login
                          /\ token'[u].state = "live" /\ lateIssue = "no" => RecentRow(token'[u])
    BY <1>2 DEF EndedInv, NewestIssue
  <1> QED
    BY <1>2, <1>3, <1>4, GoesOnEnded

LEMMA RevokeTokenEnded ==
  ASSUME EndedInv, NEW p \in Pages, RevokeToken(p)
  PROVE  EndedInv'
  <1>1. PICK t : t = visit[p].token
    OBVIOUS
  <1>2. /\ visit \in [Pages -> VisitRows] /\ visit[p].at = "revoke" /\ t \in Tokens
        /\ visit[p] \in VisitRows /\ token \in [Tokens -> TokenRows]
        /\ UNCHANGED <<ends, over, forked, lateIssue>> /\ SessionInv'
    BY <1>1, RevokeTokenInv DEF RevokeToken, EndedInv, SessionInv, SessionTypes
  <1>3. PICK w : w = [visit[p] EXCEPT !.at = "issue", !.token = 0]
    OBVIOUS
  <1>4. PICK v : v = [token[t] EXCEPT !.state = "revoked"]
    OBVIOUS
  <1>5. visit' = [visit EXCEPT ![p] = w] /\ token' = [token EXCEPT ![t] = v]
    BY <1>1, <1>2, <1>3, <1>4 DEF RevokeToken, Rotated
  <1>6. /\ visit'[p] = w /\ \A q \in Pages \ {p} : visit'[q] = visit[q]
        /\ token'[t] = v /\ \A u \in Tokens \ {t} : token'[u] = token[u]
    BY <1>2, <1>5
  <1>7. /\ w.since = visit[p].since /\ w.login = visit[p].login
        /\ v.state = "revoked" /\ v.login = token[t].login
    BY <1>2, <1>3, <1>4 DEF VisitRows, TokenRows
  <1>8. lateIssue = "no" => RecentRow(w)
    BY <1>2, <1>7 DEF EndedInv, NewestIssue, RecentRow, Holds
  <1>9. \A q \in Pages : Holds(q)' /\ lateIssue = "no" => RecentRow(visit'[q])
    BY <1>6, <1>8 DEF EndedInv, NewestIssue, Holds
  <1>10. \A u \in Tokens : /\ token[u].state # "none" => /\ token'[u].state # "none"
                                                         /\ token'[u].login = token[u].login
                           /\ token'[u].state = "live" /\ lateIssue = "no" => RecentRow(token'[u])
    BY <1>6, <1>7 DEF EndedInv, NewestIssue
  <1> QED
    BY <1>2, <1>9, <1>10, GoesOnEnded

LEMMA IssueTokenEnded ==
  ASSUME EndedInv, NEW p \in Pages, IssueToken(p)
  PROVE  EndedInv'
  <1>1. PICK t \in FreeTokens :
          /\ token' = [token EXCEPT ![t] = [state |-> "live", since |-> visit[p].since,
                                            login |-> visit[p].login]]
          /\ visit' = [visit EXCEPT ![p] = [NoVisit EXCEPT !.at = "answer", !.token = t]]
    BY DEF IssueToken
  <1>2. /\ visit \in [Pages -> VisitRows] /\ visit[p].at = "issue" /\ t \in Tokens
        /\ token[t].state = "none" /\ token \in [Tokens -> TokenRows]
        /\ UNCHANGED <<ends, over, forked, lateIssue>> /\ SessionInv'
    BY IssueTokenInv DEF IssueToken, EndedInv, SessionInv, SessionTypes, FreeTokens
  <1>3. PICK v : v = [state |-> "live", since |-> visit[p].since, login |-> visit[p].login]
    OBVIOUS
  <1>4. PICK w : w = [NoVisit EXCEPT !.at = "answer", !.token = t]
    OBVIOUS
  <1>5. /\ visit'[p] = w /\ \A q \in Pages \ {p} : visit'[q] = visit[q]
        /\ token'[t] = v /\ \A u \in Tokens \ {t} : token'[u] = token[u]
    BY <1>1, <1>2, <1>3, <1>4
  <1>6. w.at = "answer"
    BY <1>4 DEF NoVisit
  <1>7. lateIssue = "no" => RecentRow(v)
    BY <1>2, <1>3 DEF EndedInv, NewestIssue, RecentRow, Holds
  <1>8. \A q \in Pages : Holds(q)' /\ lateIssue = "no" => RecentRow(visit'[q])
    BY <1>5, <1>6 DEF EndedInv, NewestIssue, Holds
  <1>9. \A u \in Tokens : /\ token[u].state # "none" => /\ token'[u].state # "none"
                                                        /\ token'[u].login = token[u].login
                          /\ token'[u].state = "live" /\ lateIssue = "no" => RecentRow(token'[u])
    BY <1>2, <1>5, <1>7 DEF EndedInv, NewestIssue
  <1> QED
    BY <1>2, <1>8, <1>9, GoesOnEnded

LEMMA VisitGoesEnded ==
  ASSUME EndedInv, NEW p \in Pages, AskRefresh(p) \/ TakeAnswer(p) \/ VisitDies(p)
  PROVE  EndedInv'
  <1>1. PICK w : visit' = [visit EXCEPT ![p] = w] /\ w.at \in {"check", "idle"}
    <2>1. /\ NoVisit.at = "idle"
          /\ [NoVisit EXCEPT !.at = "check", !.token = cookie].at = "check"
      BY DEF NoVisit
    <2>2. CASE AskRefresh(p)
      BY <2>1, <2>2 DEF AskRefresh
    <2>3. CASE TakeAnswer(p) \/ VisitDies(p)
      BY <2>1, <2>3 DEF TakeAnswer, VisitDies
    <2> QED
      BY <2>2, <2>3
  <1>2. /\ UNCHANGED <<token, ends, over, forked, lateIssue>> /\ visit \in [Pages -> VisitRows]
        /\ SessionInv'
    BY VisitGoesInv DEF AskRefresh, TakeAnswer, VisitDies, EndedInv, SessionInv, SessionTypes
  <1>3. visit'[p] = w /\ \A q \in Pages \ {p} : visit'[q] = visit[q]
    BY <1>1, <1>2
  <1>4. /\ \A q \in Pages : Holds(q)' /\ lateIssue = "no" => RecentRow(visit'[q])
        /\ \A u \in Tokens : /\ token[u].state # "none" => /\ token'[u].state # "none"
                                                           /\ token'[u].login = token[u].login
                             /\ token'[u].state = "live" /\ lateIssue = "no"
                                => RecentRow(token'[u])
    BY <1>1, <1>2, <1>3 DEF EndedInv, NewestIssue, Holds
  <1> QED
    BY <1>2, <1>4, GoesOnEnded

\* All are ended: nothing lives, and what is held is late.
LEMMA EndAllEnded ==
  ASSUME EndedInv, EndAll \/ Deactivate
  PROVE  EndedInv'
  <1>1. /\ token' = Revoked(Tokens) /\ SignsOut(Logins) /\ UNCHANGED <<visit, over>>
        /\ SessionInv'
    BY EndingInv DEF EndAll, Deactivate, EndedInv
  <1>2. \A t \in Tokens : token[t] \in TokenRows
    BY DEF EndedInv, SessionInv, SessionTypes
  <1>3. \A t \in Tokens : /\ token'[t].state # "live" /\ token'[t].login = token[t].login
                          /\ token[t].state # "none" => token'[t].state # "none"
    BY <1>1, <1>2 DEF Revoked, LiveTokens, TokenRows
  <1>4. ASSUME lateIssue' = "no" PROVE \A p \in Pages : ~Holds(p)
    BY <1>1, <1>4 DEF SignsOut, Holds, Logins
  <1>5. NewestIssue'
    BY <1>1, <1>3, <1>4 DEF NewestIssue, Holds
  <1>6. OverUsed'
    BY <1>1, <1>3 DEF EndedInv, OverUsed
  <1> QED
    BY <1>1, <1>5, <1>6 DEF EndedInv

\* Some are ended: of those logins nothing lives on, unless they forked, and nothing is held.
LEMMA SomeEnded ==
  ASSUME EndedInv, SessionInv', NEW ts, NEW logins, token' = Revoked(ts),
         NEW said, SignsOut(said), logins \subseteq said, over' = over \union logins,
         \A n \in logins : \E t \in Tokens : token[t].state = "live" /\ token[t].login = n,
         forked = "no" => \A t \in Tokens :
                            token[t].state = "live" /\ token[t].login \in logins => t \in ts,
         UNCHANGED <<visit, ends, forked>>
  PROVE  EndedInv'
  <1>1. \A t \in Tokens : token[t] \in TokenRows
    BY DEF EndedInv, SessionInv, SessionTypes
  <1>2. \A t \in Tokens : /\ token'[t].login = token[t].login /\ token'[t].since = token[t].since
                          /\ token[t].state # "none" => token'[t].state # "none"
                          /\ token'[t].state = "live" => token[t].state = "live" /\ t \notin ts
    BY <1>1 DEF Revoked, LiveTokens, TokenRows
  <1>3. OverUsed'
    <2>1. \A n \in logins : \E t \in Tokens : token[t].state # "none" /\ token[t].login = n
      OBVIOUS
    <2>2. \A n \in over : \E t \in Tokens : token[t].state # "none" /\ token[t].login = n
      BY DEF EndedInv, OverUsed
    <2> QED
      BY <1>2, <2>1, <2>2 DEF OverUsed
  <1>4. ASSUME lateIssue' = "no" PROVE NewestIssue'
    <2>1. /\ lateIssue = "no" /\ NewestIssue
          /\ \A p \in Pages : Holds(p) => visit[p].login \notin logins
      BY <1>4 DEF SignsOut, Holds, EndedInv
    <2>2. \A t \in Tokens : token'[t].state = "live" => RecentRow(token[t])
      BY <1>2, <2>1 DEF NewestIssue
    <2>3. ASSUME NEW t \in Tokens, token'[t].state = "live" PROVE RecentRow(token[t])'
      BY <1>2, <2>2, <2>3 DEF RecentRow
    <2>4. ASSUME NEW p \in Pages, Holds(p)' PROVE RecentRow(visit[p])'
      BY <2>1, <2>4 DEF NewestIssue, RecentRow, Holds
    <2> QED
      BY <2>3, <2>4 DEF NewestIssue
  <1> QED
    BY <1>3, <1>4 DEF EndedInv, NewestIssue

LEMMA LogOutEnded ==
  ASSUME EndedInv, LogOut
  PROVE  EndedInv'
  <1>1. /\ cookie \in Tokens /\ SessionInv' /\ UNCHANGED <<visit, ends, forked>>
        /\ SignsOut({token[cookie].login}) /\ token' = Revoked({cookie})
    BY EndingInv, TokensAre DEF LogOut, EndedInv, SessionInv, SessionTypes
  <1>2. PICK logins : logins = {token[t].login : t \in {cookie} \cap LiveTokens}
    OBVIOUS
  <1>3. /\ over' = over \union logins /\ logins \subseteq {token[cookie].login}
        /\ \A n \in logins : token[cookie].state = "live" /\ token[cookie].login = n
    BY <1>1, <1>2 DEF LogOut, LiveTokens
  <1>4. forked = "no" => \A t \in Tokens :
                           token[t].state = "live" /\ token[t].login \in logins => t \in {cookie}
    BY <1>1, <1>3 DEF EndedInv, SessionInv, OneHand
  <1>5. \A n \in logins : \E t \in Tokens : token[t].state = "live" /\ token[t].login = n
    BY <1>1, <1>3
  <1> QED
    BY <1>1, <1>3, <1>4, <1>5, SomeEnded

LEMMA RevokeSessionEnded ==
  ASSUME EndedInv, NEW u \in Tokens, RevokeSession(u)
  PROVE  EndedInv'
  <1>1. /\ token[u].state = "live" /\ SessionInv' /\ UNCHANGED <<visit, ends, forked>>
        /\ SignsOut({token[u].login}) /\ token' = Revoked({u})
        /\ over' = over \union {token[u].login}
    BY EndingInv DEF RevokeSession, EndedInv, LiveTokens
  <1>2. forked = "no" => \A t \in Tokens :
                           token[t].state = "live" /\ token[t].login \in {token[u].login}
                             => t \in {u}
    BY <1>1 DEF EndedInv, SessionInv, OneHand
  <1>3. \A n \in {token[u].login} : \E t \in Tokens : token[t].state = "live" /\ token[t].login = n
    BY <1>1
  <1> QED
    BY <1>1, <1>2, <1>3, SomeEnded

LEMMA EndOthersEnded ==
  ASSUME EndedInv, EndOthers
  PROVE  EndedInv'
  <1>1. PICK others :
          others = {token[t].login : t \in LiveTokens \ {cookie}} \ {token[cookie].login}
    OBVIOUS
  <1>2. /\ SessionInv' /\ UNCHANGED <<visit, ends, forked>> /\ SignsOut(others)
        /\ token' = Revoked(Tokens \ {cookie}) /\ over' = over \union others
    BY <1>1, EndingInv DEF EndOthers, EndedInv
  <1>3. \A n \in others : \E t \in Tokens : token[t].state = "live" /\ token[t].login = n
    BY <1>1 DEF LiveTokens
  <1>4. \A t \in Tokens : token[t].state = "live" /\ token[t].login \in others
                          => t \in Tokens \ {cookie}
    BY <1>1
  <1> QED
    BY <1>2, <1>3, <1>4, SomeEnded

LEMMA EndedStepInv == EndedInv /\ [SessionsNext]_sessionVars => EndedInv'
  <1> SUFFICES ASSUME EndedInv, [SessionsNext]_sessionVars PROVE EndedInv'
    OBVIOUS
  <1>1. CASE UNCHANGED sessionVars \/ SetActive
    <2>1. UNCHANGED <<token, visit, cookie, ends, over, forked, lateIssue>>
      BY <1>1 DEF sessionVars, SetActive
    <2>2. SessionInv'
      BY <1>1, SessionsStepInv DEF EndedInv, SessionsNext
    <2> QED
      BY <2>1, <2>2 DEF EndedInv, OverUsed, NewestIssue, RecentRow, Holds
  <1> QED
    BY <1>1, LoginEnded, CheckTokenEnded, RevokeTokenEnded, IssueTokenEnded, VisitGoesEnded,
       EndAllEnded, LogOutEnded, RevokeSessionEnded, EndOthersEnded
    DEF SessionsNext

LEMMA EndedHolds == EndedInv => EndedStaysEnded
  BY DEF EndedInv, NewestIssue, RecentRow, EndedStaysEnded, LiveTokens

-----------------------------------------------------------------------------
(******************************************************************************)
(* The reviews of a customer.  Without the staff a review to come is the last *)
(* by its date, and there is none when the monthly cron finds one due         *)
(* (UpcomingIsLast); if each is held before the next is made, the one that    *)
(* cron reads is the last that was held, too (SeenInTime); and a review is    *)
(* reminded once it is stamped or about to be, and on its day at the latest   *)
(* (Reminded).                                                                *)
(******************************************************************************)
ReviewRows == [status : {"none", "SCHEDULED", "COMPLETED", "CANCELLED", "removed"},
               date : Nat, held : Nat, stamped : {"no", "yes"}]

ReviewTypes ==
    /\ onDay \in Nat \ {0} /\ clock \in {"until8", "from8", "at9", "from9"}
    /\ review \in [Reviews -> ReviewRows] /\ reminders \in [Reviews -> Nat]
    /\ toRemind \subseteq Reviews /\ toStamp \in Reviews \cup {0}
    /\ clock # "from8" => toRemind = {} /\ toStamp = 0
    /\ \A r \in Reviews : /\ review[r].status = "none" => review[r].stamped = "no"
                          /\ review[r].status = "COMPLETED" => review[r].held >= 1

UpcomingIsLast ==
    /\ \A r \in Still : review[r].date <= onDay + AheadDays
    /\ clock # "from9" => \A r \in Still : review[r].date < onDay + AheadDays
    /\ \A r \in Upcoming, q \in Still : r # q => review[q].date < review[r].date
    /\ clock = "at9" /\ ReviewDue(snapshot) => Upcoming = {}

SeenInTime ==
    /\ tooSoon = "no"
    /\ \A r, q \in Still :
         r # q /\ review[r].status = "COMPLETED" /\ review[q].date >= review[r].date
             => review[r].held + FrequencyDays <= onDay
    /\ clock = "at9" /\ ReviewDue(snapshot) => Recent = {}

Reminded ==
    /\ \A r \in Reviews :
         /\ reminders[r] = IF review[r].stamped = "yes" \/ toStamp = r THEN 1 ELSE 0
         /\ review[r].stamped = "yes" => toStamp # r
    /\ \A r \in toRemind : review[r].stamped = "no" /\ toStamp # r
    /\ \A r \in Still \ moved : review[r].status = "SCHEDULED" =>
         /\ review[r].date < onDay => reminders[r] = 1
         /\ review[r].date = onDay /\ clock # "until8" => reminders[r] = 1 \/ r \in toRemind

ReviewInv ==
    /\ ReviewTypes
    /\ byTeam = "no" => UpcomingIsLast
    /\ byTeam = "no" /\ heldLate = "no" => SeenInTime
    /\ unreliable = "no" => Reminded

LEMMA ReviewDays ==
  /\ FrequencyDays \in Nat \ {0} /\ AheadDays \in Nat \ {0} /\ ReminderDays \in Nat \ {0}
  /\ MaxReviews \in Nat /\ 0 \notin Reviews
  BY ReviewsAssumption DEF Reviews

LEMMA NewRows ==
  /\ NoReview \in ReviewRows /\ NoReview.status = "none" /\ NoReview.stamped = "no"
  /\ \A d \in Nat : LET v == ScheduledOn(d)
                    IN  /\ v \in ReviewRows /\ v.status = "SCHEDULED" /\ v.stamped = "no"
                        /\ v.date = d /\ v.held = 0
  BY DEF NoReview, ScheduledOn, ReviewRows

LEMMA ReviewInitInv == ReviewsInit => ReviewInv
  <1> SUFFICES ASSUME ReviewsInit PROVE ReviewInv
    OBVIOUS
  <1>1. Still = {} /\ Upcoming = {} /\ Recent = {}
    BY NewRows DEF ReviewsInit, Still, Upcoming, Recent
  <1>2. ReviewTypes
    BY NewRows DEF ReviewsInit, ReviewTypes
  <1>3. Reminded
    BY <1>1, NewRows, ReviewDays DEF ReviewsInit, Reminded
  <1> QED
    BY <1>1, <1>2, <1>3 DEF ReviewsInit, ReviewInv, UpcomingIsLast, SeenInTime

LEMMA ReviewHolds == ReviewInv => ReviewsAreSpaced
  <1> SUFFICES ASSUME ReviewInv PROVE ReviewsAreSpaced
    OBVIOUS
  <1>1. ASSUME byTeam = "no" PROVE Cardinality(Upcoming) <= 1
    <2>1. \A r, q \in Upcoming : r = q
      <3>1. \A r, q \in Upcoming : r # q => review[q].date < review[r].date
                                            /\ review[q].date \in Nat /\ review[r].date \in Nat
        BY <1>1 DEF ReviewInv, ReviewTypes, ReviewRows, UpcomingIsLast, Upcoming, Still
      <3>2. \A r, q \in Upcoming : r # q => review[r].date < review[q].date
        BY <3>1
      <3> QED
        BY <3>1, <3>2
    <2> QED
      BY <2>1, OneAtMost
  <1>2. ASSUME unreliable = "no", NEW r \in Still
        PROVE  /\ reminders[r] <= 1
               /\ review[r].status = "SCHEDULED" /\ review[r].date < onDay /\ r \notin moved
                      => reminders[r] = 1
    BY <1>2 DEF ReviewInv, Reminded, Still
  <1> QED
    BY <1>1, <1>2 DEF ReviewInv, SeenInTime, ReviewsAreSpaced

\* The row of one review is v.
LEMMA RowIs ==
  ASSUME ReviewTypes, NEW r \in Reviews, NEW v \in ReviewRows, review' = [review EXCEPT ![r] = v]
  PROVE  /\ review'[r] = v /\ \A q \in Reviews \ {r} : review'[q] = review[q]
         /\ review' \in [Reviews -> ReviewRows]
  BY DEF ReviewTypes

LEMMA NextReviewDayInv ==
  ASSUME ReviewInv, NextReviewDay
  PROVE  ReviewInv'
  <1>1. /\ ReviewTypes /\ clock = "from9" /\ clock' = "until8" /\ onDay' = onDay + 1
        /\ onDay \in Nat /\ review \in [Reviews -> ReviewRows] /\ toRemind = {}
        /\ UNCHANGED <<review, snapshot, toRemind, toStamp, reminders, byTeam, heldLate, tooSoon,
                       moved, unreliable>>
    BY DEF NextReviewDay, ReviewInv, ReviewTypes
  <1>2. Still' = Still /\ Upcoming' \subseteq Upcoming
        /\ \A r \in Still : review[r].date \in Nat /\ review[r].held \in Nat
    BY <1>1 DEF Still, Upcoming, ReviewRows
  <1>3. ReviewTypes'
    BY <1>1 DEF ReviewTypes
  <1>4. byTeam = "no" => UpcomingIsLast'
    BY <1>1, <1>2, ReviewDays DEF ReviewInv, UpcomingIsLast
  <1>5. byTeam = "no" /\ heldLate = "no" => SeenInTime'
    BY <1>1, <1>2, ReviewDays DEF ReviewInv, SeenInTime
  <1>6. unreliable = "no" => Reminded'
    BY <1>1, <1>2 DEF ReviewInv, Reminded
  <1> QED
    BY <1>1, <1>3, <1>4, <1>5, <1>6 DEF ReviewInv

LEMMA StartRemindersInv ==
  ASSUME ReviewInv, StartReminders
  PROVE  ReviewInv'
  <1>1. /\ ReviewTypes /\ clock = "until8" /\ clock' = "from8" /\ onDay \in Nat
        /\ review \in [Reviews -> ReviewRows] /\ toRemind = {} /\ toStamp = 0
        /\ toRemind' = {r \in Still : /\ review[r].status = "SCHEDULED" /\ review[r].stamped = "no"
                                      /\ review[r].date \in onDay..(onDay + ReminderDays - 1)}
        /\ UNCHANGED <<onDay, review, snapshot, toStamp, reminders, byTeam, heldLate, tooSoon,
                       moved, unreliable>>
    BY DEF StartReminders, ReviewInv, ReviewTypes
  <1>2. /\ Still' = Still /\ Upcoming' = Upcoming /\ Recent' = Recent
        /\ Still \subseteq Reviews
    BY <1>1 DEF Still, Upcoming, Recent
  <1>3. ReviewTypes'
    BY <1>1, <1>2 DEF ReviewTypes
  <1>4. byTeam = "no" => UpcomingIsLast'
    BY <1>1, <1>2 DEF ReviewInv, UpcomingIsLast, ReviewDue, SeenOn
  <1>5. byTeam = "no" /\ heldLate = "no" => SeenInTime'
    BY <1>1, <1>2 DEF ReviewInv, SeenInTime, ReviewDue, SeenOn
  <1>6. ASSUME unreliable = "no" PROVE Reminded'
    <2>1. Reminded
      BY <1>6 DEF ReviewInv
    <2>2. \A r \in toRemind' : review[r].stamped = "no" /\ toStamp # r
      BY <1>1, <1>2, ReviewDays
    <2>3. ASSUME NEW r \in Still \ moved, review[r].status = "SCHEDULED"
          PROVE  /\ review[r].date < onDay => reminders[r] = 1
                 /\ review[r].date = onDay => reminders[r] = 1 \/ r \in toRemind'
      <3>1. review[r].date = onDay /\ review[r].stamped = "no" => r \in toRemind'
        BY <1>1, <2>3, ReviewDays
      <3>2. review[r].stamped \in {"no", "yes"} /\ r \in Reviews
        BY <1>1, <1>2 DEF ReviewRows
      <3> QED
        BY <1>1, <2>1, <2>3, <3>1, <3>2 DEF Reminded
    <2> QED
      BY <1>1, <1>2, <2>1, <2>2, <2>3 DEF Reminded
  <1> QED
    BY <1>1, <1>3, <1>4, <1>5, <1>6 DEF ReviewInv

LEMMA RemindInv ==
  ASSUME ReviewInv, Remind
  PROVE  ReviewInv'
  <1>1. /\ ReviewTypes /\ clock = "from8" /\ toStamp = 0 /\ reminders \in [Reviews -> Nat]
        /\ toRemind \subseteq Reviews
        /\ UNCHANGED <<onDay, clock, review, snapshot, byTeam, heldLate, tooSoon, moved>>
    BY DEF Remind, ReviewInv, ReviewTypes
  <1>2. /\ Still' = Still /\ Upcoming' = Upcoming /\ Recent' = Recent /\ Still \subseteq Reviews
    BY <1>1 DEF Still, Upcoming, Recent
  <1>3. byTeam = "no" => UpcomingIsLast'
    BY <1>1, <1>2 DEF ReviewInv, UpcomingIsLast, ReviewDue, SeenOn
  <1>4. byTeam = "no" /\ heldLate = "no" => SeenInTime'
    BY <1>1, <1>2 DEF ReviewInv, SeenInTime, ReviewDue, SeenOn
  <1>5. CASE toRemind' = {} /\ unreliable' = "yes" /\ UNCHANGED <<reminders, toStamp>>
    <2>1. ReviewTypes'
      BY <1>1, <1>5 DEF ReviewTypes
    <2> QED
      BY <1>1, <1>3, <1>4, <1>5, <2>1 DEF ReviewInv
  <1>6. CASE /\ \E r \in toRemind : /\ reminders' = [reminders EXCEPT ![r] = @ + 1]
                                    /\ toStamp' = r /\ toRemind' = toRemind \ {r}
             /\ UNCHANGED unreliable
    <2>1. PICK r \in toRemind : /\ reminders' = [reminders EXCEPT ![r] = @ + 1]
                                /\ toStamp' = r /\ toRemind' = toRemind \ {r}
      BY <1>6
    <2>2. /\ r \in Reviews /\ reminders'[r] = reminders[r] + 1 /\ reminders[r] \in Nat
          /\ \A q \in Reviews \ {r} : reminders'[q] = reminders[q]
      BY <1>1, <2>1
    <2>3. ReviewTypes'
      BY <1>1, <2>1, <2>2 DEF ReviewTypes
    <2>4. ASSUME unreliable = "no" PROVE Reminded'
      <3>1. Reminded /\ reminders[r] = 0 /\ review[r].stamped = "no"
        BY <1>1, <2>1, <2>2, <2>4 DEF ReviewInv, Reminded
      <3> QED
        BY <1>1, <1>2, <2>1, <2>2, <3>1, ReviewDays DEF Reminded
    <2> QED
      BY <1>1, <1>3, <1>4, <1>6, <2>3, <2>4 DEF ReviewInv
  <1> QED
    BY <1>5, <1>6 DEF Remind

LEMMA StampReminderInv ==
  ASSUME ReviewInv, StampReminder
  PROVE  ReviewInv'
  <1>1. /\ ReviewTypes /\ clock = "from8" /\ toStamp \in Reviews /\ toStamp' = 0
        /\ toRemind \subseteq Reviews /\ review \in [Reviews -> ReviewRows]
        /\ UNCHANGED <<onDay, clock, snapshot, reminders, byTeam, heldLate, tooSoon, moved>>
    BY DEF StampReminder, ReviewInv, ReviewTypes
  <1>2. CASE toRemind' = {} /\ unreliable' = "yes" /\ UNCHANGED review
    <2>1. Still' = Still /\ Upcoming' = Upcoming /\ Recent' = Recent
      BY <1>1, <1>2 DEF Still, Upcoming, Recent
    <2>2. ReviewTypes'
      BY <1>1, <1>2 DEF ReviewTypes
    <2> QED
      BY <1>1, <1>2, <2>1, <2>2 DEF ReviewInv, UpcomingIsLast, SeenInTime, ReviewDue, SeenOn
  <1>3. CASE /\ toStamp \in Still /\ review' = [review EXCEPT ![toStamp].stamped = "yes"]
             /\ UNCHANGED <<toRemind, unreliable>>
    <2>1. PICK n \in Reviews : n = toStamp
      BY <1>1
    <2> DEFINE v == [review[n] EXCEPT !.stamped = "yes"]
    <2>2. /\ v \in ReviewRows /\ v.stamped = "yes" /\ v.status = review[n].status
          /\ v.date = review[n].date /\ v.held = review[n].held
      BY <1>1 DEF ReviewRows
    <2>3. review' = [review EXCEPT ![n] = v] /\ review[n].status \notin {"none", "removed"}
      BY <1>1, <1>3, <2>1 DEF Still
    <2> HIDE DEF v
    <2>4. /\ review'[n] = v /\ \A q \in Reviews \ {n} : review'[q] = review[q]
          /\ review' \in [Reviews -> ReviewRows]
      BY <1>1, <2>2, <2>3, RowIs
    <2>5. /\ Still' = Still /\ Still \subseteq Reviews
          /\ \A q \in Reviews : /\ review'[q].status = review[q].status
                                /\ review'[q].date = review[q].date
                                /\ review'[q].held = review[q].held
      BY <2>2, <2>4 DEF Still
    <2>6. Upcoming' = Upcoming /\ Recent' = Recent
      BY <1>1, <2>5 DEF Upcoming, Recent
    <2>7. ReviewTypes'
      <3>1. \A q \in Reviews : /\ review'[q].status = "none" => review'[q].stamped = "no"
                               /\ review'[q].status = "COMPLETED" => review'[q].held >= 1
        BY <1>1, <2>3, <2>4, <2>5 DEF ReviewTypes
      <3>2. reminders' \in [Reviews -> Nat] /\ onDay' \in Nat \ {0} /\ toRemind' \subseteq Reviews
        BY <1>1, <1>3 DEF ReviewTypes
      <3>3. clock' = "from8" /\ toStamp' \in Reviews \cup {0}
        BY <1>1
      <3> QED
        BY <2>4, <3>1, <3>2, <3>3 DEF ReviewTypes
    <2>8. byTeam = "no" => UpcomingIsLast'
      BY <1>1, <2>5, <2>6 DEF ReviewInv, UpcomingIsLast, ReviewDue, SeenOn, Upcoming
    <2>9. byTeam = "no" /\ heldLate = "no" => SeenInTime'
      BY <1>1, <2>5, <2>6 DEF ReviewInv, SeenInTime, ReviewDue, SeenOn
    <2>10. ASSUME unreliable = "no" PROVE Reminded'
      <3>1. Reminded
        BY <2>10 DEF ReviewInv
      <3>2. \A q \in Reviews :
              /\ reminders[q] = IF review'[q].stamped = "yes" \/ 0 = q THEN 1 ELSE 0
              /\ 0 # q
        BY <2>1, <2>2, <2>4, <3>1, ReviewDays DEF Reminded
      <3>3. \A q \in toRemind : review'[q].stamped = "no" /\ 0 # q
        BY <1>1, <2>1, <2>4, <3>1, ReviewDays DEF Reminded
      <3> QED
        BY <1>1, <1>3, <2>5, <3>1, <3>2, <3>3 DEF Reminded
    <2> QED
      BY <1>1, <1>3, <2>7, <2>8, <2>9, <2>10 DEF ReviewInv
  <1> QED
    BY <1>2, <1>3 DEF StampReminder

\* The monthly cron has read the last review by its date.
LEMMA StartSchedulingInv ==
  ASSUME ReviewInv, StartScheduling
  PROVE  ReviewInv'
  <1>1. /\ ReviewTypes /\ clock = "from8" /\ clock' \in {"at9", "from9"}
        /\ toRemind = {} /\ toStamp = 0 /\ onDay \in Nat /\ review \in [Reviews -> ReviewRows]
        /\ UNCHANGED <<onDay, review, toRemind, toStamp, reminders, byTeam, heldLate, tooSoon,
                       moved, unreliable>>
    BY DEF StartScheduling, ReviewInv, ReviewTypes
  <1>2. /\ Still' = Still /\ Upcoming' = Upcoming /\ Recent' = Recent /\ Still \subseteq Reviews
        /\ Upcoming \subseteq Still /\ Recent \subseteq Still
    BY <1>1 DEF Still, Upcoming, Recent
  <1>3. \A r \in Still : /\ review[r].date \in Nat /\ review[r].held \in Nat
                         /\ review[r].status # "none"
                         /\ review[r].status = "COMPLETED" => review[r].held >= 1
    BY <1>1, <1>2 DEF ReviewTypes, ReviewRows, Still
  <1>4. clock' = "at9" =>
          \/ Still = {}
          \/ \E r \in Still : /\ \A q \in Still : review[q].date <= review[r].date
                              /\ snapshot' = review[r]
    BY DEF StartScheduling
  <1>5. ReviewTypes'
    BY <1>1 DEF ReviewTypes
  <1>6. ASSUME byTeam = "no" PROVE UpcomingIsLast'
    <2>1. UpcomingIsLast
      BY <1>6 DEF ReviewInv
    <2>2. ASSUME clock' = "at9", ReviewDue(snapshot)', NEW u \in Upcoming PROVE FALSE
      <3>1. PICK r \in Still : /\ \A q \in Still : review[q].date <= review[r].date
                               /\ snapshot' = review[r]
        BY <1>2, <1>4, <2>2
      <3>2. ~ (review[r].status = "SCHEDULED" /\ review[r].date > onDay)
        BY <1>1, <1>3, <2>2, <3>1 DEF ReviewDue
      <3>3. u # r
        BY <3>2 DEF Upcoming
      <3>4. review[r].date < review[u].date /\ review[u].date <= review[r].date
        BY <1>2, <2>1, <3>1, <3>3 DEF UpcomingIsLast
      <3> QED
        BY <1>2, <1>3, <3>4
    <2> QED
      BY <1>1, <1>2, <1>3, <2>1, <2>2 DEF UpcomingIsLast
  <1>7. ASSUME byTeam = "no", heldLate = "no" PROVE SeenInTime'
    <2>1. SeenInTime
      BY <1>7 DEF ReviewInv
    <2>2. ASSUME clock' = "at9", ReviewDue(snapshot)', NEW u \in Recent PROVE FALSE
      <3>1. PICK r \in Still : /\ \A q \in Still : review[q].date <= review[r].date
                               /\ snapshot' = review[r]
        BY <1>2, <1>4, <2>2
      <3>2. SeenOn(review[r]) + FrequencyDays <= onDay
        BY <1>1, <1>3, <2>2, <3>1 DEF ReviewDue, SeenOn
      <3>3. /\ review[u].status = "COMPLETED" /\ review[u].held + FrequencyDays > onDay
            /\ review[u].date <= review[r].date /\ u \in Still
        BY <1>2, <3>1 DEF Recent
      <3>4. CASE u = r
        BY <1>1, <1>3, <3>2, <3>3, <3>4, ReviewDays DEF SeenOn
      <3>5. CASE u # r
        BY <1>1, <1>3, <2>1, <3>1, <3>3, <3>5, ReviewDays DEF SeenInTime
      <3> QED
        BY <3>4, <3>5
    <2> QED
      BY <1>1, <1>2, <2>1, <2>2 DEF SeenInTime
  <1>8. unreliable = "no" => Reminded'
    BY <1>1, <1>2 DEF ReviewInv, Reminded
  <1> QED
    BY <1>1, <1>5, <1>6, <1>7, <1>8 DEF ReviewInv

\* A new row is for a day to come.
LEMMA NewReviewInv ==
  ASSUME ReviewInv, NEW r \in NewReview, NEW d \in Nat, d > onDay,
         review' = [review EXCEPT ![r] = ScheduledOn(d)],
         clock' = clock \/ (clock = "at9" /\ clock' = "from9"),
         UNCHANGED <<onDay, toRemind, toStamp, reminders, moved, unreliable>>
  PROVE  /\ ReviewTypes' /\ (unreliable' = "no" => Reminded')
         /\ r \in Reviews \ Still /\ Still' = Still \cup {r}
         /\ review'[r] = ScheduledOn(d) /\ \A q \in Reviews \ {r} : review'[q] = review[q]
  <1> DEFINE v == ScheduledOn(d)
  <1>1. /\ v \in ReviewRows /\ v.status = "SCHEDULED" /\ v.stamped = "no" /\ v.date = d
        /\ review' = [review EXCEPT ![r] = v]
    BY NewRows
  <1>2. v = ScheduledOn(d)
    OBVIOUS
  <1> HIDE DEF v
  <1>3. /\ ReviewTypes /\ r \in Reviews /\ review[r].status = "none" /\ review[r].stamped = "no"
        /\ onDay \in Nat /\ toRemind \subseteq Reviews
    BY DEF ReviewInv, ReviewTypes, NewReview
  <1>4. /\ review'[r] = v /\ \A q \in Reviews \ {r} : review'[q] = review[q]
        /\ review' \in [Reviews -> ReviewRows]
    BY <1>1, <1>3, RowIs
  <1>5. r \notin Still /\ Still' = Still \cup {r} /\ Still \subseteq Reviews
    BY <1>1, <1>3, <1>4 DEF Still
  <1>6. ReviewTypes'
    BY <1>1, <1>3, <1>4 DEF ReviewTypes
  <1>7. ASSUME unreliable = "no" PROVE Reminded'
    <2>1. Reminded
      BY <1>7 DEF ReviewInv
    <2>2. \A q \in Reviews : review'[q].stamped = review[q].stamped
      BY <1>1, <1>3, <1>4
    <2>3. \A q \in Still' \ moved : review'[q].status = "SCHEDULED" =>
            /\ review'[q].date < onDay => reminders[q] = 1
            /\ review'[q].date = onDay /\ clock' # "until8" => reminders[q] = 1 \/ q \in toRemind
      BY <1>1, <1>3, <1>4, <1>5, <2>1 DEF Reminded
    <2> QED
      BY <1>3, <2>1, <2>2, <2>3 DEF Reminded
  <1> QED
    BY <1>2, <1>3, <1>4, <1>5, <1>6, <1>7

LEMMA ScheduleReviewInv ==
  ASSUME ReviewInv, ScheduleReview
  PROVE  ReviewInv'
  <1>1. /\ ReviewTypes /\ clock = "at9" /\ clock' = "from9" /\ onDay \in Nat
        /\ review \in [Reviews -> ReviewRows]
        /\ UNCHANGED <<onDay, toRemind, toStamp, reminders, byTeam, heldLate, moved, unreliable>>
    BY DEF ScheduleReview, ReviewInv, ReviewTypes
  <1>2. CASE UNCHANGED <<review, tooSoon>>
    <2>1. Still' = Still /\ Upcoming' = Upcoming /\ Recent' = Recent
      BY <1>1, <1>2 DEF Still, Upcoming, Recent
    <2>2. ReviewTypes'
      BY <1>1, <1>2 DEF ReviewTypes
    <2> QED
      BY <1>1, <1>2, <2>1, <2>2 DEF ReviewInv, UpcomingIsLast, SeenInTime, Reminded
  <1>3. CASE /\ ReviewDue(snapshot)
             /\ \E r \in NewReview : review' = [review EXCEPT ![r] = ScheduledOn(onDay + AheadDays)]
             /\ tooSoon' = IF Recent # {} THEN "yes" ELSE tooSoon
    <2>1. PICK r \in NewReview : review' = [review EXCEPT ![r] = ScheduledOn(onDay + AheadDays)]
      BY <1>3
    <2>2. PICK d \in Nat : d = onDay + AheadDays /\ d > onDay
      BY <1>1, ReviewDays
    <2>3. /\ ReviewTypes' /\ (unreliable = "no" => Reminded')
          /\ r \in Reviews \ Still /\ Still' = Still \cup {r}
          /\ review'[r] = ScheduledOn(d) /\ \A q \in Reviews \ {r} : review'[q] = review[q]
      BY <1>1, <2>1, <2>2, NewReviewInv
    <2>4. /\ review'[r].date = d /\ review'[r].status = "SCHEDULED"
          /\ Still \subseteq Reviews /\ \A q \in Still : review'[q] = review[q]
                                                         /\ review[q].date \in Nat
      BY <1>1, <2>3, NewRows DEF Still, ReviewRows
    <2>5. ASSUME byTeam = "no" PROVE UpcomingIsLast'
      <3>1. UpcomingIsLast /\ Upcoming = {}
        BY <1>1, <1>3, <2>5 DEF ReviewInv, UpcomingIsLast
      <3>2. Upcoming' \subseteq {r}
        BY <1>1, <2>3, <2>4, <3>1 DEF Upcoming
      <3>3. \A q \in Still' : q # r => review'[q].date < d
        BY <1>1, <2>2, <2>3, <2>4, <3>1 DEF UpcomingIsLast
      <3> QED
        BY <1>1, <2>2, <2>3, <2>4, <3>2, <3>3 DEF UpcomingIsLast
    <2>6. ASSUME byTeam = "no", heldLate = "no" PROVE SeenInTime'
      <3>1. SeenInTime /\ Recent = {}
        BY <1>1, <1>3, <2>6 DEF ReviewInv, SeenInTime
      <3>2. tooSoon' = "no"
        BY <1>3, <3>1 DEF SeenInTime
      <3>3. \A q \in Still : review[q].held \in Nat
                             /\ (review[q].status = "COMPLETED" =>
                                   review[q].held + FrequencyDays <= onDay)
        BY <1>1, <2>4, <3>1, ReviewDays DEF Recent, ReviewRows
      <3> QED
        BY <1>1, <2>3, <2>4, <3>2, <3>3 DEF SeenInTime
    <2> QED
      BY <1>1, <2>3, <2>5, <2>6 DEF ReviewInv
  <1> QED
    BY <1>2, <1>3 DEF ScheduleReview

LEMMA SchedulingEndsInv ==
  ASSUME ReviewInv, SchedulingEnds
  PROVE  ReviewInv'
  <1>1. /\ ReviewTypes /\ clock = "at9" /\ clock' = "from9"
        /\ UNCHANGED <<onDay, review, toRemind, toStamp, reminders, byTeam, heldLate, tooSoon,
                       moved, unreliable>>
    BY DEF SchedulingEnds, ReviewInv
  <1>2. Still' = Still /\ Upcoming' = Upcoming
    BY <1>1 DEF Still, Upcoming
  <1>3. ReviewTypes'
    BY <1>1 DEF ReviewTypes
  <1> QED
    BY <1>1, <1>2, <1>3 DEF ReviewInv, UpcomingIsLast, SeenInTime, Reminded

LEMMA CreateManualInv ==
  ASSUME ReviewInv, CreateManual
  PROVE  ReviewInv'
  <1>1. PICK r \in NewReview, d \in (onDay + 1)..(onDay + AheadDays + 1) :
          review' = [review EXCEPT ![r] = ScheduledOn(d)]
    BY DEF CreateManual
  <1>2. /\ byTeam' = "yes" /\ onDay \in Nat
        /\ UNCHANGED <<onDay, clock, toRemind, toStamp, reminders, moved, unreliable>>
    BY DEF CreateManual, ReviewInv, ReviewTypes
  <1>3. d \in Nat /\ d > onDay
    BY <1>2
  <1>4. ReviewTypes' /\ (unreliable' = "no" => Reminded')
    BY <1>1, <1>2, <1>3, NewReviewInv
  <1> QED
    BY <1>2, <1>4 DEF ReviewInv

LEMMA MoveInv ==
  ASSUME ReviewInv, NEW r \in Reviews, Move(r)
  PROVE  ReviewInv'
  <1>1. PICK d \in (onDay + 1)..(onDay + AheadDays + 1) : review' = [review EXCEPT ![r].date = d]
    BY DEF Move
  <1> DEFINE v == [review[r] EXCEPT !.date = d]
  <1>2. /\ ReviewTypes /\ byTeam' = "yes" /\ onDay \in Nat /\ moved' = moved \union {r}
        /\ review \in [Reviews -> ReviewRows] /\ toRemind \subseteq Reviews
        /\ UNCHANGED <<onDay, clock, toRemind, toStamp, reminders, unreliable>>
    BY DEF Move, ReviewInv, ReviewTypes
  <1>3. /\ v \in ReviewRows /\ v.status = review[r].status /\ v.stamped = review[r].stamped
        /\ v.held = review[r].held
    BY <1>1, <1>2 DEF ReviewRows
  <1>4. review' = [review EXCEPT ![r] = v]
    BY <1>1, <1>2
  <1> HIDE DEF v
  <1>5. /\ review'[r] = v /\ \A q \in Reviews \ {r} : review'[q] = review[q]
        /\ review' \in [Reviews -> ReviewRows]
    BY <1>2, <1>3, <1>4, RowIs
  <1>6. Still' = Still /\ Still \subseteq Reviews
        /\ \A q \in Reviews : review'[q].stamped = review[q].stamped
    BY <1>3, <1>5 DEF Still
  <1>7. ReviewTypes'
    BY <1>2, <1>3, <1>5 DEF ReviewTypes
  <1>8. ASSUME unreliable = "no" PROVE Reminded'
    <2>1. Reminded
      BY <1>8 DEF ReviewInv
    <2>2. \A q \in Still' \ moved' : q \in Still \ moved /\ review'[q] = review[q]
      BY <1>2, <1>5, <1>6
    <2> QED
      BY <1>2, <1>6, <2>1, <2>2 DEF Reminded
  <1> QED
    BY <1>2, <1>7, <1>8 DEF ReviewInv

\* The staff ends a review, by holding, cancelling or removing it.
LEMMA ReviewEndsInv ==
  ASSUME ReviewInv, NEW r \in Reviews, NEW v \in ReviewRows, review' = [review EXCEPT ![r] = v],
         r \in Still, v.status \in {"COMPLETED", "CANCELLED", "removed"},
         v.date = review[r].date, v.stamped = review[r].stamped,
         v.status = "COMPLETED" => v.held = onDay,
         heldLate' = "no" =>
           /\ heldLate = "no"
           /\ v.status = "COMPLETED" => /\ clock # "at9"
                                        /\ \A q \in Still \ {r} : review[q].date < review[r].date,
         UNCHANGED <<onDay, clock, snapshot, toRemind, toStamp, reminders, byTeam, tooSoon, moved,
                     unreliable>>
  PROVE  ReviewInv'
  <1>1. /\ ReviewTypes /\ onDay \in Nat \ {0} /\ toRemind \subseteq Reviews
        /\ review'[r] = v /\ \A q \in Reviews \ {r} : review'[q] = review[q]
        /\ review' \in [Reviews -> ReviewRows] /\ review \in [Reviews -> ReviewRows]
    BY RowIs DEF ReviewInv, ReviewTypes
  <1>2. ReviewTypes'
    BY <1>1 DEF ReviewTypes
  <1>3. /\ Still' \subseteq Still /\ Still \subseteq Reviews
        /\ \A q \in Reviews : /\ review'[q].date = review[q].date /\ review[q].date \in Nat
                              /\ review'[q].stamped = review[q].stamped
    BY <1>1 DEF Still, ReviewRows
  <1>4. Upcoming' \subseteq Upcoming
    BY <1>1, <1>3 DEF Upcoming
  <1>5. Upcoming' \subseteq Still'
    BY DEF Upcoming
  <1>6. byTeam = "no" => UpcomingIsLast'
    BY <1>1, <1>3, <1>4, <1>5 DEF ReviewInv, UpcomingIsLast, ReviewDue, SeenOn
  <1>7. ASSUME byTeam = "no", heldLate' = "no" PROVE SeenInTime'
    <2>1. SeenInTime
      BY <1>7 DEF ReviewInv
    <2>2. ASSUME clock = "at9" PROVE Recent' \subseteq Recent
      <3>1. v.status # "COMPLETED"
        BY <1>7, <2>2
      <3> QED
        BY <1>1, <1>3, <3>1 DEF Recent
    <2>3. ASSUME NEW p \in Still', NEW q \in Still', p # q,
                 review'[p].status = "COMPLETED", review'[q].date >= review'[p].date
          PROVE  review'[p].held + FrequencyDays <= onDay
      <3>1. CASE p = r
        <4>1. review[q].date < review[r].date
          BY <1>1, <1>3, <1>7, <2>3, <3>1
        <4> QED
          BY <1>3, <2>3, <3>1, <4>1
      <3>2. CASE p # r
        <4>1. review'[p] = review[p]
          BY <1>1, <1>3, <3>2
        <4> QED
          BY <1>3, <2>1, <2>3, <4>1 DEF SeenInTime
      <3> QED
        BY <3>1, <3>2
    <2> QED
      BY <2>1, <2>2, <2>3 DEF SeenInTime, ReviewDue, SeenOn
  <1>8. ASSUME unreliable = "no" PROVE Reminded'
    <2>1. Reminded
      BY <1>8 DEF ReviewInv
    <2>2. \A q \in Still' : review'[q].status = "SCHEDULED" => q # r /\ review'[q] = review[q]
      BY <1>1, <1>3
    <2> QED
      BY <1>1, <1>3, <2>1, <2>2 DEF Reminded
  <1> QED
    BY <1>2, <1>6, <1>7, <1>8 DEF ReviewInv

LEMMA SetReviewStatusInv ==
  ASSUME ReviewInv, NEW r \in Reviews, NEW status \in {"SCHEDULED", "COMPLETED", "CANCELLED"},
         SetReviewStatus(r, status)
  PROVE  ReviewInv'
  <1> DEFINE held == IF status = "COMPLETED" THEN onDay ELSE review[r].held
             v == [review[r] EXCEPT !.status = status, !.held = held]
  <1>1. /\ ReviewTypes /\ onDay \in Nat /\ review \in [Reviews -> ReviewRows]
        /\ r \in Still /\ toRemind \subseteq Reviews
        /\ UNCHANGED <<onDay, clock, snapshot, toRemind, toStamp, reminders, tooSoon, unreliable>>
    BY DEF SetReviewStatus, ReviewInv, ReviewTypes
  <1>2. review' = [review EXCEPT ![r] = v]
    BY <1>1 DEF SetReviewStatus
  <1>3. /\ v \in ReviewRows /\ v.status = status /\ v.stamped = review[r].stamped
        /\ v.date = review[r].date /\ (status = "COMPLETED" => v.held = onDay)
    BY <1>1 DEF ReviewRows
  <1> HIDE DEF v, held
  <1>4. CASE status = "SCHEDULED"
    <2>1. byTeam' = "yes" /\ moved' = moved \union {r}
      BY <1>4 DEF SetReviewStatus
    <2>2. /\ review'[r] = v /\ \A q \in Reviews \ {r} : review'[q] = review[q]
          /\ review' \in [Reviews -> ReviewRows]
      BY <1>1, <1>2, <1>3, RowIs
    <2>3. Still' = Still /\ Still \subseteq Reviews
          /\ \A q \in Reviews : review'[q].stamped = review[q].stamped
      BY <1>1, <1>3, <1>4, <2>2 DEF Still
    <2>4. ReviewTypes'
      BY <1>1, <1>3, <1>4, <2>2 DEF ReviewTypes
    <2>5. ASSUME unreliable = "no" PROVE Reminded'
      <3>1. Reminded
        BY <2>5 DEF ReviewInv
      <3>2. \A q \in Still' \ moved' : q \in Still \ moved /\ review'[q] = review[q]
        BY <2>1, <2>2, <2>3
      <3> QED
        BY <1>1, <2>3, <3>1, <3>2 DEF Reminded
    <2> QED
      BY <1>1, <2>1, <2>4, <2>5 DEF ReviewInv
  <1>5. CASE status # "SCHEDULED"
    <2>1. UNCHANGED <<byTeam, moved>>
      BY <1>5 DEF SetReviewStatus
    <2>2. heldLate' = IF /\ status = "COMPLETED"
                         /\ \/ clock = "at9"
                            \/ \E q \in Still \ {r} : review[q].date >= review[r].date
                      THEN "yes" ELSE heldLate
      BY DEF SetReviewStatus
    <2>3. \A q \in Still : review[q].date \in Nat /\ review[r].date \in Nat
      BY <1>1 DEF Still, ReviewRows
    <2>4. heldLate' = "no" =>
           /\ heldLate = "no"
           /\ v.status = "COMPLETED" => /\ clock # "at9"
                                        /\ \A q \in Still \ {r} : review[q].date < review[r].date
      BY <1>3, <2>2, <2>3
    <2> QED
      BY <1>1, <1>2, <1>3, <1>5, <2>1, <2>4, ReviewEndsInv
  <1> QED
    BY <1>4, <1>5

LEMMA RemoveReviewInv ==
  ASSUME ReviewInv, NEW r \in Reviews, RemoveReview(r)
  PROVE  ReviewInv'
  <1> DEFINE v == [review[r] EXCEPT !.status = "removed"]
  <1>1. /\ review \in [Reviews -> ReviewRows] /\ r \in Still /\ review' = [review EXCEPT ![r] = v]
        /\ UNCHANGED <<onDay, clock, snapshot, toRemind, toStamp, reminders, byTeam, heldLate,
                       tooSoon, moved, unreliable>>
    BY DEF RemoveReview, ReviewInv, ReviewTypes
  <1>2. /\ v \in ReviewRows /\ v.status = "removed" /\ v.stamped = review[r].stamped
        /\ v.date = review[r].date
    BY <1>1 DEF ReviewRows
  <1> HIDE DEF v
  <1> QED
    BY <1>1, <1>2, ReviewEndsInv

LEMMA ReviewStepInv == ReviewInv /\ [ReviewsNext]_reviewVars => ReviewInv'
  <1> SUFFICES ASSUME ReviewInv, [ReviewsNext]_reviewVars PROVE ReviewInv'
    OBVIOUS
  <1>1. CASE UNCHANGED reviewVars
    <2>1. Still' = Still /\ Upcoming' = Upcoming /\ Recent' = Recent
      BY <1>1 DEF reviewVars, Still, Upcoming, Recent
    <2> QED
      BY <1>1, <2>1 DEF reviewVars, ReviewInv, ReviewTypes, UpcomingIsLast, SeenInTime, Reminded,
                        ReviewDue, SeenOn
  <1> QED
    BY <1>1, NextReviewDayInv, StartRemindersInv, RemindInv, StampReminderInv, StartSchedulingInv,
       ScheduleReviewInv, SchedulingEndsInv, CreateManualInv, SetReviewStatusInv, MoveInv,
       RemoveReviewInv
    DEF ReviewsNext

-----------------------------------------------------------------------------
(****************************************************************************)
(* The way into the portal.  Each promise stands until what was read has    *)
(* changed by the time of the write, and holds by what the requests between *)
(* the two know: that there is no account yet (OneAccount), that a link has *)
(* opened nothing (OneOpening), that one more link may be open (FewLinks);  *)
(* and an erasure has read every account that is tied (Untied).             *)
(****************************************************************************)
AccountRows == [state : {"none", "active", "closed"}, tied : {"no", "yes"}]
LinkRows    == [state : {"none", "open", "over"}, account : AccountIds \cup {0}]
PortalRows  == [state : {"none", "live", "revoked"}, link : LinkIds \cup {0}]
AskingRows  == [at : {"idle", "match", "make", "count", "open"}, account : AccountIds \cup {0},
                tied : {"no", "yes"}]

PortalTypes ==
    /\ contact \in {"none", "there", "erased"}
    /\ account \in [AccountIds -> AccountRows] /\ link \in [LinkIds -> LinkRows]
    /\ portal \in [SessionIds -> PortalRows] /\ asking \in [Askers -> AskingRows]
    /\ clicking \in [Clicks -> LinkIds \cup {0}] /\ erasure \subseteq AccountIds \cup {0}
    /\ \A r \in Askers : asking[r].at \in {"count", "open"} => asking[r].account \in AccountIds
    /\ \A l \in LinkIds : link[l].state # "none" => link[l].account \in AccountIds
    /\ \A s \in SessionIds : portal[s].state # "none" => portal[s].link \in LinkIds
    /\ \A s \in SessionIds : portal[s].link # 0 => link[portal[s].link].state = "over"
    /\ \A c \in Clicks : clicking[c] # 0 => link[clicking[c]].state # "none"

Making(r) == asking[r].at \in {"match", "make"}

OneAccount ==
    /\ \A m, n \in Bearing : m = n
    /\ \A q, r \in Askers : Making(q) /\ Making(r) => q = r
    /\ \A r \in Askers : Making(r) => Bearing = {}

OneOpening ==
    /\ \A c, d \in Clicks : clicking[c] = clicking[d] /\ clicking[c] # 0 => c = d
    /\ \A s \in SessionIds, c \in Clicks : clicking[c] # 0 => portal[s].link # clicking[c]
    /\ \A s, t \in SessionIds : portal[s].link = portal[t].link /\ portal[s].link # 0 => s = t

FewLinks ==
    /\ \A n \in AccountIds : Cardinality(OpenLinks(n)) <= OpenLimit
    /\ \A q, r \in Askers : asking[q].at = "open" /\ asking[r].at = "open"
                            /\ asking[q].account = asking[r].account => q = r
    /\ \A r \in Askers : asking[r].at = "open" =>
         Cardinality(OpenLinks(asking[r].account)) < OpenLimit

Untied ==
    /\ erasure # {} => /\ contact = "there"
                       /\ \A n \in AccountIds : account[n].state # "none" /\ account[n].tied = "yes"
                                                => n \in erasure
    /\ contact = "erased" => \A n \in Bearing : account[n].tied = "no"

PortalInv ==
    /\ PortalTypes
    /\ twins = "no" => OneAccount
    /\ reread = "no" => OneOpening
    /\ exceeded = "no" => FewLinks
    /\ overtaken = "no" => Untied

LEMMA PortalIds ==
  /\ OpenLimit \in Nat
  /\ 0 \notin LinkIds /\ 0 \notin AccountIds
  /\ \A n : IsFiniteSet(OpenLinks(n)) /\ Cardinality(OpenLinks(n)) \in Nat
  <1>1. Cardinality(Askers) \in Nat /\ MaxLinks \in Nat /\ OpenLimit \in Nat
    BY PortalAssumption, FS_CardinalityType
  <1>2. 0 \notin LinkIds /\ 0 \notin AccountIds
    BY <1>1 DEF LinkIds, AccountIds
  <1>3. IsFiniteSet(LinkIds)
    BY <1>1, FS_Interval DEF LinkIds
  <1>4. \A n : OpenLinks(n) \subseteq LinkIds
    BY DEF OpenLinks
  <1>5. \A n : IsFiniteSet(OpenLinks(n))
    BY <1>3, <1>4, FS_Subset
  <1> QED
    BY <1>1, <1>2, <1>5, FS_CardinalityType

LEMMA PortalInitInv == PortalInit => PortalInv
  <1> SUFFICES ASSUME PortalInit PROVE PortalInv
    OBVIOUS
  <1>1. PortalTypes
    BY PortalIds DEF PortalInit, PortalTypes, AccountRows, LinkRows, PortalRows, AskingRows,
                     NotAsking
  <1>2. Bearing = {} /\ \A n : OpenLinks(n) = {}
    BY DEF PortalInit, Bearing, OpenLinks
  <1>3. \A n : Cardinality(OpenLinks(n)) = 0
    BY <1>2, FS_EmptySet
  <1> QED
    BY <1>1, <1>2, <1>3, PortalIds
    DEF PortalInit, PortalInv, OneAccount, OneOpening, FewLinks, Untied, Making, NotAsking

\* Links that are open are fewer, or the same.
LEMMA LinksShrink ==
  ASSUME NEW n, OpenLinks(n)' \subseteq OpenLinks(n)
  PROVE  /\ Cardinality(OpenLinks(n)') \in Nat
         /\ Cardinality(OpenLinks(n)') <= Cardinality(OpenLinks(n))
  BY PortalIds, FS_Subset, FS_CardinalityType

LEMMA FewerLinks ==
  ASSUME PortalTypes, FewLinks, UNCHANGED asking, \A n : OpenLinks(n)' \subseteq OpenLinks(n)
  PROVE  FewLinks'
  <1>1. \A n : /\ Cardinality(OpenLinks(n)') \in Nat /\ Cardinality(OpenLinks(n)) \in Nat
               /\ Cardinality(OpenLinks(n)') <= Cardinality(OpenLinks(n))
    BY LinksShrink, PortalIds
  <1>2. \A n \in AccountIds : Cardinality(OpenLinks(n)') <= OpenLimit
    BY <1>1, PortalIds DEF FewLinks
  <1>3. ASSUME NEW r \in Askers, asking'[r].at = "open"
        PROVE  Cardinality(OpenLinks(asking[r].account)') < OpenLimit
    <2>1. PICK n : n = asking[r].account /\ asking' = asking
      OBVIOUS
    <2>2. Cardinality(OpenLinks(n)') < OpenLimit
      BY <1>1, <1>3, <2>1, PortalIds DEF FewLinks
    <2> QED
      BY <2>1, <2>2
  <1> QED
    BY <1>2, <1>3 DEF FewLinks

\* The request of r is at the start, or at the next stage.
LEMMA AsksIs ==
  ASSUME PortalTypes, NEW r \in Askers, NEW w \in AskingRows, asking' = [asking EXCEPT ![r] = w],
         w.at \in {"count", "open"} => w.account \in AccountIds
  PROVE  /\ asking'[r] = w /\ \A q \in Askers \ {r} : asking'[q] = asking[q]
         /\ asking' \in [Askers -> AskingRows]
         /\ \A q \in Askers : asking'[q].at \in {"count", "open"}
                              => asking'[q].account \in AccountIds
  BY DEF PortalTypes

LEMMA AskRows ==
  /\ NotAsking \in AskingRows /\ NotAsking.at = "idle"
  /\ \A at \in {"idle", "match", "make", "count", "open"}, n \in AccountIds \cup {0},
        tied \in {"no", "yes"} :
        LET w == [at |-> at, account |-> n, tied |-> tied]
        IN  w \in AskingRows /\ w.at = at /\ w.account = n /\ w.tied = tied
  BY DEF AskingRows, NotAsking

\* A request for a link that neither makes an account nor a link, nor is about to
\* make a link afterwards.
LEMMA AskingMovesInv ==
  ASSUME PortalInv, NEW r \in Askers, NEW w \in AskingRows, asking' = [asking EXCEPT ![r] = w],
         w.at = "count" => w.account \in AccountIds, w.at # "open",
         w.at \in {"match", "make"} /\ twins' = "no" =>
             Bearing = {} /\ \A q \in Askers \ {r} : ~ Making(q),
         twins' = twins \/ twins' = "yes",
         UNCHANGED <<contact, account, link, portal, clicking, erasure, exceeded, reread,
                     overtaken>>
  PROVE  PortalInv'
  <1>1. /\ asking'[r] = w /\ \A q \in Askers \ {r} : asking'[q] = asking[q]
        /\ asking' \in [Askers -> AskingRows]
        /\ \A q \in Askers : asking'[q].at \in {"count", "open"}
                             => asking'[q].account \in AccountIds
    BY AsksIs DEF PortalInv
  <1>2. PortalTypes'
    BY <1>1 DEF PortalInv, PortalTypes
  <1>3. Bearing' = Bearing /\ \A n : OpenLinks(n)' = OpenLinks(n)
    BY DEF Bearing, OpenLinks
  <1>4. twins' = "no" => OneAccount'
    BY <1>1, <1>3 DEF PortalInv, OneAccount, Making
  <1>5. exceeded' = "no" => FewLinks'
    BY <1>1, <1>3 DEF PortalInv, FewLinks
  <1> QED
    BY <1>2, <1>3, <1>4, <1>5 DEF PortalInv, OneOpening, Untied

LEMMA AskLinkInv ==
  ASSUME PortalInv, NEW r \in Askers, AskLink(r)
  PROVE  PortalInv'
  <1>1. UNCHANGED <<contact, account, link, portal, clicking, erasure, exceeded, reread, overtaken>>
    BY DEF AskLink
  <1>2. CASE Bearing # {}
    <2>1. PICK n \in Bearing : Asks(r, "count", n, "no") /\ UNCHANGED twins
      BY <1>2 DEF AskLink
    <2> DEFINE w == [at |-> "count", account |-> n, tied |-> "no"]
    <2>2. n \in AccountIds /\ asking' = [asking EXCEPT ![r] = w] /\ UNCHANGED twins
      BY <2>1 DEF Bearing, Asks
    <2>3. w \in AskingRows /\ w.at = "count" /\ w.account = n
      BY <2>2, AskRows
    <2> HIDE DEF w
    <2> QED
      BY <1>1, <2>2, <2>3, AskingMovesInv
  <1>3. CASE Bearing = {}
    <2> DEFINE w == [at |-> "match", account |-> 0, tied |-> "no"]
    <2>1. /\ asking' = [asking EXCEPT ![r] = w]
          /\ twins' = IF IsAt({"match", "make"}) THEN "yes" ELSE twins
      BY <1>3 DEF AskLink, Asks
    <2>2. w \in AskingRows /\ w.at = "match"
      BY AskRows
    <2> HIDE DEF w
    <2>3. twins' = "no" => \A q \in Askers : ~ Making(q)
      BY <2>1 DEF IsAt, Making
    <2> QED
      BY <1>1, <1>3, <2>1, <2>2, <2>3, AskingMovesInv
  <1> QED
    BY <1>2, <1>3

LEMMA MatchContactInv ==
  ASSUME PortalInv, NEW r \in Askers, MatchContact(r)
  PROVE  PortalInv'
  <1> DEFINE w == [at |-> "make", account |-> 0, tied |-> IF contact = "there" THEN "yes" ELSE "no"]
  <1>1. /\ asking' = [asking EXCEPT ![r] = w] /\ asking[r].at = "match"
        /\ UNCHANGED <<contact, account, link, portal, clicking, erasure, twins, exceeded, reread,
                       overtaken>>
    BY DEF MatchContact, Asks
  <1>2. w \in AskingRows /\ w.at = "make"
    BY AskRows
  <1> HIDE DEF w
  <1>3. twins = "no" => Bearing = {} /\ \A q \in Askers \ {r} : ~ Making(q)
    BY <1>1 DEF PortalInv, OneAccount, Making
  <1> QED
    BY <1>1, <1>2, <1>3, AskingMovesInv

LEMMA MakeAccountInv ==
  ASSUME PortalInv, NEW r \in Askers, MakeAccount(r)
  PROVE  PortalInv'
  <1>1. PICK n \in {i \in AccountIds : account[i].state = "none"} :
          /\ account' = [account EXCEPT ![n] = [state |-> "active", tied |-> asking[r].tied]]
          /\ Asks(r, "count", n, "no")
    BY DEF MakeAccount, FirstOf
  <1> DEFINE w == [at |-> "count", account |-> n, tied |-> "no"]
             v == [state |-> "active", tied |-> asking[r].tied]
  <1>2. /\ PortalTypes /\ asking[r] \in AskingRows /\ asking[r].at = "make"
        /\ UNCHANGED <<contact, link, portal, clicking, erasure, twins, exceeded, reread>>
        /\ n \in AccountIds /\ account \in [AccountIds -> AccountRows]
    BY DEF MakeAccount, PortalInv, PortalTypes
  <1>3. /\ w \in AskingRows /\ w.at = "count" /\ w.account = n
        /\ v \in AccountRows /\ v.state = "active" /\ v.tied = asking[r].tied
    BY <1>2, AskRows DEF AskingRows, AccountRows
  <1>4. asking' = [asking EXCEPT ![r] = w] /\ account' = [account EXCEPT ![n] = v]
    BY <1>1 DEF Asks
  <1> HIDE DEF w, v
  <1>5. /\ asking'[r] = w /\ \A q \in Askers \ {r} : asking'[q] = asking[q]
        /\ asking' \in [Askers -> AskingRows]
        /\ \A q \in Askers : asking'[q].at \in {"count", "open"}
                             => asking'[q].account \in AccountIds
    BY <1>2, <1>3, <1>4, AsksIs
  <1>6. account'[n] = v /\ \A m \in AccountIds \ {n} : account'[m] = account[m]
    BY <1>2, <1>4
  <1>7. PortalTypes'
    BY <1>2, <1>3, <1>4, <1>5 DEF PortalTypes
  <1>8. Bearing' = Bearing \cup {n} /\ \A m : OpenLinks(m)' = OpenLinks(m)
    BY <1>2, <1>3, <1>6 DEF Bearing, OpenLinks
  <1>9. ASSUME twins = "no" PROVE OneAccount'
    <2>1. Bearing = {} /\ \A q \in Askers \ {r} : ~ Making(q)
      BY <1>2, <1>9 DEF PortalInv, OneAccount, Making
    <2>2. \A q \in Askers : ~ Making(q)'
      BY <1>3, <1>5, <2>1 DEF Making
    <2> QED
      BY <1>8, <2>1, <2>2 DEF OneAccount
  <1>10. exceeded = "no" => FewLinks'
    BY <1>3, <1>5, <1>8 DEF PortalInv, FewLinks
  <1>11. ASSUME overtaken' = "no" PROVE Untied'
    <2>1. /\ overtaken = "no"
          /\ asking[r].tied = "yes" => contact # "erased" /\ erasure = {}
      BY <1>11 DEF MakeAccount
    <2>2. Untied /\ asking[r].tied \in {"no", "yes"}
      BY <1>2, <2>1 DEF PortalInv, AskingRows
    <2>3. /\ contact' = contact /\ erasure' = erasure
          /\ \A m \in AccountIds \ {n} : account'[m] = account[m]
          /\ account'[n].tied = asking[r].tied
      BY <1>2, <1>3, <1>6
    <2>4. ASSUME erasure # {}, NEW m \in AccountIds,
                 account'[m].state # "none", account'[m].tied = "yes"
          PROVE  m \in erasure
      BY <2>1, <2>2, <2>3, <2>4 DEF Untied
    <2>5. ASSUME contact = "erased", NEW m \in Bearing' PROVE account'[m].tied = "no"
      <3>0. Bearing \subseteq AccountIds /\ Bearing' \subseteq Bearing \cup {n}
        BY <1>8 DEF Bearing
      <3>1. m = n \/ (m \in Bearing /\ m \in AccountIds \ {n})
        BY <2>5, <3>0
      <3> QED
        BY <2>1, <2>2, <2>3, <2>5, <3>1 DEF Untied
    <2> QED
      BY <2>2, <2>3, <2>4, <2>5 DEF Untied
  <1> QED
    BY <1>2, <1>7, <1>9, <1>10, <1>11 DEF PortalInv, OneOpening

LEMMA CountLinksInv ==
  ASSUME PortalInv, NEW r \in Askers, CountLinks(r)
  PROVE  PortalInv'
  <1> DEFINE n == asking[r].account
             w == [at |-> "open", account |-> n, tied |-> "no"]
  <1>1. /\ PortalTypes /\ asking[r].at = "count" /\ n \in AccountIds
        /\ UNCHANGED <<contact, account, link, portal, clicking, erasure, twins, reread, overtaken>>
    BY DEF CountLinks, PortalInv, PortalTypes
  <1>2. CASE Full(n)
    <2>1. asking' = [asking EXCEPT ![r] = NotAsking] /\ UNCHANGED exceeded
      BY <1>2 DEF CountLinks
    <2> QED
      BY <1>1, <2>1, AskRows, AskingMovesInv
  <1>3. CASE ~ Full(n)
    <2>1. /\ asking' = [asking EXCEPT ![r] = w]
          /\ exceeded' = IF \E q \in Askers : asking[q].at = "open" /\ asking[q].account = n
                         THEN "yes" ELSE exceeded
      BY <1>3 DEF CountLinks, Asks
    <2>2. w \in AskingRows /\ w.at = "open" /\ w.account = n
      BY <1>1, AskRows
    <2> HIDE DEF w
    <2>3. /\ asking'[r] = w /\ \A q \in Askers \ {r} : asking'[q] = asking[q]
          /\ asking' \in [Askers -> AskingRows]
          /\ \A q \in Askers : asking'[q].at \in {"count", "open"}
                               => asking'[q].account \in AccountIds
      BY <1>1, <2>1, <2>2, AsksIs
    <2>4. PortalTypes'
      BY <1>1, <2>3 DEF PortalTypes
    <2>5. Bearing' = Bearing /\ \A m : OpenLinks(m)' = OpenLinks(m)
      BY <1>1 DEF Bearing, OpenLinks
    <2>6. twins = "no" => OneAccount'
      BY <1>1, <2>2, <2>3, <2>5 DEF PortalInv, OneAccount, Making
    <2>7. ASSUME exceeded' = "no" PROVE FewLinks'
      <3>1. /\ exceeded = "no"
            /\ \A q \in Askers : asking[q].at = "open" => asking[q].account # n
        BY <2>1, <2>7
      <3>2. Cardinality(OpenLinks(n)) < OpenLimit
        BY <1>3, PortalIds DEF Full
      <3> QED
        BY <2>2, <2>3, <2>5, <3>1, <3>2 DEF PortalInv, FewLinks
    <2> QED
      BY <1>1, <2>4, <2>5, <2>6, <2>7 DEF PortalInv, OneOpening, Untied
  <1> QED
    BY <1>2, <1>3

LEMMA MakeLinkInv ==
  ASSUME PortalInv, NEW r \in Askers, MakeLink(r)
  PROVE  PortalInv'
  <1>0. PICK n : n = asking[r].account
    OBVIOUS
  <1> DEFINE v == [state |-> "open", account |-> n]
  <1>1. PICK l \in {i \in LinkIds : link[i].state = "none"} :
          link' = [link EXCEPT ![l] = v]
    BY <1>0 DEF MakeLink, FirstOf
  <1>2. /\ PortalTypes /\ asking[r].at = "open" /\ n \in AccountIds /\ l \in LinkIds
        /\ link \in [LinkIds -> LinkRows] /\ asking' = [asking EXCEPT ![r] = NotAsking]
        /\ UNCHANGED <<contact, account, portal, clicking, erasure, twins, exceeded, reread,
                       overtaken>>
    BY <1>0 DEF MakeLink, PortalInv, PortalTypes
  <1>3. v \in LinkRows /\ v.state = "open" /\ v.account = n
    BY <1>2 DEF LinkRows
  <1> HIDE DEF v
  <1>4. link'[l] = v /\ \A i \in LinkIds \ {l} : link'[i] = link[i]
    BY <1>1, <1>2
  <1>5. /\ asking'[r] = NotAsking /\ \A q \in Askers \ {r} : asking'[q] = asking[q]
        /\ asking' \in [Askers -> AskingRows]
        /\ \A q \in Askers : asking'[q].at \in {"count", "open"}
                             => asking'[q].account \in AccountIds
    BY <1>2, AskRows, AsksIs
  <1>6. PortalTypes'
    <2>1. \A s \in SessionIds : portal[s].link # 0 => portal[s].link # l
      BY <1>1, <1>2 DEF PortalTypes
    <2>2. \A s \in SessionIds : portal[s].link # 0 => link'[portal[s].link].state = "over"
      BY <1>2, <1>4, <2>1 DEF PortalTypes, PortalRows
    <2>3. link' \in [LinkIds -> LinkRows]
      BY <1>1, <1>2, <1>3
    <2>4. \A i \in LinkIds : link'[i].state # "none" => link'[i].account \in AccountIds
      BY <1>2, <1>3, <1>4 DEF PortalTypes
    <2>5. \A c \in Clicks : clicking[c] # 0 => link'[clicking[c]].state # "none"
      BY <1>2, <1>3, <1>4 DEF PortalTypes
    <2> QED
      BY <1>2, <1>5, <2>2, <2>3, <2>4, <2>5 DEF PortalTypes
  <1>7. Bearing' = Bearing
    BY <1>2 DEF Bearing
  <1>8. twins = "no" => OneAccount'
    BY <1>2, <1>5, <1>7, AskRows DEF PortalInv, OneAccount, Making
  <1>9. ASSUME exceeded = "no" PROVE FewLinks'
    <2>1. FewLinks
      BY <1>9 DEF PortalInv
    <2>2. \A m \in AccountIds \ {n} : OpenLinks(m)' \subseteq OpenLinks(m)
      BY <1>3, <1>4 DEF OpenLinks
    <2>3. OpenLinks(n)' \subseteq OpenLinks(n) \cup {l}
      BY <1>3, <1>4 DEF OpenLinks
    <2>4. Cardinality(OpenLinks(n)') <= OpenLimit
      <3>1. l \notin OpenLinks(n) /\ IsFiniteSet(OpenLinks(n)) /\ Cardinality(OpenLinks(n)) \in Nat
        BY <1>1, PortalIds DEF OpenLinks
      <3>2. /\ IsFiniteSet(OpenLinks(n) \cup {l})
            /\ Cardinality(OpenLinks(n) \cup {l}) = Cardinality(OpenLinks(n)) + 1
        BY <3>1, FS_AddElement
      <3>3. /\ IsFiniteSet(OpenLinks(n)')
            /\ Cardinality(OpenLinks(n)') <= Cardinality(OpenLinks(n) \cup {l})
        BY <2>3, <3>2, FS_Subset
      <3>4. Cardinality(OpenLinks(n)') \in Nat
        BY <3>3, FS_CardinalityType
      <3>5. Cardinality(OpenLinks(n)) < OpenLimit
        BY <1>0, <1>2, <2>1 DEF FewLinks
      <3> QED
        BY <3>1, <3>2, <3>3, <3>4, <3>5, PortalIds
    <2>5. \A m \in AccountIds \ {n} : /\ Cardinality(OpenLinks(m)') \in Nat
                                      /\ Cardinality(OpenLinks(m)') <= Cardinality(OpenLinks(m))
      BY <2>2, LinksShrink
    <2>6. \A m \in AccountIds : Cardinality(OpenLinks(m)') <= OpenLimit
      BY <2>1, <2>4, <2>5, PortalIds DEF FewLinks
    <2>7. \A q \in Askers : asking'[q].at = "open" =>
            /\ q # r /\ asking'[q] = asking[q]
            /\ asking[q].account \in AccountIds \ {n}
      BY <1>0, <1>2, <1>5, <2>1, AskRows DEF FewLinks
    <2>8. ASSUME NEW q \in Askers, asking'[q].at = "open"
          PROVE  Cardinality(OpenLinks(asking[q].account)') < OpenLimit
      <3>1. PICK m \in AccountIds \ {n} : m = asking[q].account /\ m = asking'[q].account
        BY <2>7, <2>8
      <3>2. asking[q].at = "open"
        BY <2>7, <2>8
      <3>3. Cardinality(OpenLinks(m)) < OpenLimit
        BY <2>1, <3>1, <3>2 DEF FewLinks
      <3>4. Cardinality(OpenLinks(m)') < OpenLimit
        BY <2>5, <3>3, PortalIds
      <3> QED
        BY <3>1, <3>4
    <2>9. \A p, q \in Askers : asking'[p].at = "open" /\ asking'[q].at = "open"
                               /\ asking'[p].account = asking'[q].account => p = q
      BY <2>1, <2>7 DEF FewLinks
    <2> QED
      BY <2>6, <2>8, <2>9 DEF FewLinks
  <1> QED
    BY <1>2, <1>6, <1>7, <1>8, <1>9 DEF PortalInv, OneOpening, Untied

LEMMA LinkEndsInv ==
  ASSUME PortalInv, NEW l \in LinkIds, LinkEnds(l)
  PROVE  PortalInv'
  <1> DEFINE v == [link[l] EXCEPT !.state = "over"]
  <1>1. /\ PortalTypes /\ link[l].state = "open" /\ link[l] \in LinkRows
        /\ link \in [LinkIds -> LinkRows] /\ link' = [link EXCEPT ![l] = v]
        /\ UNCHANGED <<contact, account, portal, asking, clicking, erasure, twins, exceeded, reread,
                       overtaken>>
    BY DEF LinkEnds, PortalInv, PortalTypes
  <1>2. v \in LinkRows /\ v.state = "over" /\ v.account = link[l].account
    BY <1>1 DEF LinkRows
  <1> HIDE DEF v
  <1>3. link'[l] = v /\ \A i \in LinkIds \ {l} : link'[i] = link[i]
    BY <1>1
  <1>4. PortalTypes'
    <2>1. link' \in [LinkIds -> LinkRows]
      BY <1>1, <1>2
    <2>2. \A i \in LinkIds : link'[i].state # "none" => link'[i].account \in AccountIds
      BY <1>1, <1>2, <1>3 DEF PortalTypes
    <2>3. \A s \in SessionIds : portal[s].link # 0 => link'[portal[s].link].state = "over"
      BY <1>1, <1>2, <1>3 DEF PortalTypes, PortalRows
    <2>4. \A c \in Clicks : clicking[c] # 0 => link'[clicking[c]].state # "none"
      BY <1>1, <1>2, <1>3 DEF PortalTypes
    <2> QED
      BY <1>1, <2>1, <2>2, <2>3, <2>4 DEF PortalTypes
  <1>5. Bearing' = Bearing
    BY <1>1 DEF Bearing
  <1>6. \A n : OpenLinks(n)' \subseteq OpenLinks(n)
    BY <1>2, <1>3 DEF OpenLinks
  <1>7. exceeded = "no" => FewLinks'
    BY <1>1, <1>6, FewerLinks DEF PortalInv
  <1> QED
    BY <1>1, <1>4, <1>5, <1>7 DEF PortalInv, OneAccount, Making, OneOpening, Untied

LEMMA ReadLinkInv ==
  ASSUME PortalInv, NEW c \in Clicks, NEW l \in LinkIds, ReadLink(c, l)
  PROVE  PortalInv'
  <1>1. /\ PortalTypes /\ clicking[c] = 0 /\ link[l].state = "open"
        /\ clicking' = [clicking EXCEPT ![c] = l] /\ clicking \in [Clicks -> LinkIds \cup {0}]
        /\ reread' = IF \E d \in Clicks : clicking[d] = l THEN "yes" ELSE reread
        /\ UNCHANGED <<contact, account, link, portal, asking, erasure, twins, exceeded, overtaken>>
    BY DEF ReadLink, PortalInv, PortalTypes
  <1>2. clicking'[c] = l /\ \A d \in Clicks \ {c} : clicking'[d] = clicking[d]
    BY <1>1
  <1>3. PortalTypes'
    BY <1>1, <1>2 DEF PortalTypes
  <1>4. Bearing' = Bearing /\ \A n : OpenLinks(n)' = OpenLinks(n)
    BY <1>1 DEF Bearing, OpenLinks
  <1>5. ASSUME reread' = "no" PROVE OneOpening'
    <2>1. reread = "no" /\ \A d \in Clicks : clicking[d] # l
      BY <1>1, <1>5
    <2>2. \A s \in SessionIds : portal[s].link # l
      BY <1>1, PortalIds DEF PortalTypes
    <2> QED
      BY <1>1, <1>2, <2>1, <2>2 DEF PortalInv, OneOpening
  <1> QED
    BY <1>1, <1>3, <1>4, <1>5 DEF PortalInv, OneAccount, Making, FewLinks, Untied

LEMMA OpenSessionInv ==
  ASSUME PortalInv, NEW c \in Clicks, OpenSession(c)
  PROVE  PortalInv'
  <1>1. PICK l \in LinkIds : l = clicking[c]
    BY DEF OpenSession, PortalInv, PortalTypes
  <1> DEFINE v == [link[l] EXCEPT !.state = "over"]
             x == [state |-> "live", link |-> l]
  <1>2. PICK s \in SessionIds : portal[s].state = "none" /\ portal' = [portal EXCEPT ![s] = x]
    BY <1>1 DEF OpenSession, FirstOf
  <1>3. /\ PortalTypes /\ l # 0 /\ clicking' = [clicking EXCEPT ![c] = 0]
        /\ clicking \in [Clicks -> LinkIds \cup {0}] /\ link[l] \in LinkRows
        /\ link \in [LinkIds -> LinkRows] /\ link' = [link EXCEPT ![l] = v]
        /\ portal \in [SessionIds -> PortalRows]
        /\ UNCHANGED <<contact, account, asking, erasure, twins, exceeded, reread, overtaken>>
    BY <1>1 DEF OpenSession, PortalInv, PortalTypes
  <1>4. /\ v \in LinkRows /\ v.state = "over" /\ v.account = link[l].account
        /\ x \in PortalRows /\ x.state = "live" /\ x.link = l
    BY <1>3 DEF LinkRows, PortalRows
  <1> HIDE DEF v, x
  <1>5. /\ link'[l] = v /\ \A i \in LinkIds \ {l} : link'[i] = link[i]
        /\ portal'[s] = x /\ \A t \in SessionIds \ {s} : portal'[t] = portal[t]
        /\ clicking'[c] = 0 /\ \A d \in Clicks \ {c} : clicking'[d] = clicking[d]
    BY <1>2, <1>3
  <1>6. PortalTypes'
    <2>1. /\ link' \in [LinkIds -> LinkRows] /\ portal' \in [SessionIds -> PortalRows]
          /\ clicking' \in [Clicks -> LinkIds \cup {0}]
      BY <1>2, <1>3, <1>4
    <2>2. \A t \in SessionIds : portal'[t].link # 0 => link'[portal'[t].link].state = "over"
      BY <1>3, <1>4, <1>5 DEF PortalTypes, PortalRows
    <2>3. \A t \in SessionIds : portal'[t].state # "none" => portal'[t].link \in LinkIds
      BY <1>3, <1>4, <1>5 DEF PortalTypes
    <2>4. link[l].account \in AccountIds
      BY <1>1, <1>3 DEF PortalTypes
    <2>5. \A i \in LinkIds : link'[i].state # "none" => link'[i].account \in AccountIds
      BY <1>3, <1>4, <1>5, <2>4 DEF PortalTypes
    <2>6. \A d \in Clicks : clicking'[d] # 0 => link'[clicking'[d]].state # "none"
      BY <1>3, <1>4, <1>5 DEF PortalTypes
    <2> QED
      BY <1>3, <2>1, <2>2, <2>3, <2>5, <2>6 DEF PortalTypes
  <1>7. Bearing' = Bearing
    BY <1>3 DEF Bearing
  <1>8. \A n : OpenLinks(n)' \subseteq OpenLinks(n)
    BY <1>4, <1>5 DEF OpenLinks
  <1>9. exceeded = "no" => FewLinks'
    BY <1>3, <1>8, FewerLinks DEF PortalInv
  <1>10. ASSUME reread = "no" PROVE OneOpening'
    <2>1. OneOpening
      BY <1>10 DEF PortalInv
    <2>2. \A t \in SessionIds : portal[t].link # l
      BY <1>1, <1>3, <2>1 DEF OneOpening
    <2>3. \A d \in Clicks : clicking'[d] # 0
            => d # c /\ clicking'[d] = clicking[d] /\ clicking[d] # l
      BY <1>1, <1>3, <1>5, <2>1 DEF OneOpening
    <2>4. \A t \in SessionIds : portal'[t].link = l => t = s
      BY <1>5, <2>2
    <2> QED
      BY <1>3, <1>4, <1>5, <2>1, <2>2, <2>3, <2>4 DEF OneOpening
  <1> QED
    BY <1>3, <1>6, <1>7, <1>9, <1>10 DEF PortalInv, OneAccount, Making, Untied

LEMMA RevokeInv ==
  ASSUME PortalInv, NEW s \in SessionIds, Revoke(s)
  PROVE  PortalInv'
  <1> DEFINE x == [portal[s] EXCEPT !.state = "revoked"]
  <1>1. /\ PortalTypes /\ portal[s].state = "live" /\ portal[s] \in PortalRows
        /\ portal \in [SessionIds -> PortalRows] /\ portal' = [portal EXCEPT ![s] = x]
        /\ UNCHANGED <<contact, account, link, asking, clicking, erasure, twins, exceeded, reread,
                       overtaken>>
    BY DEF Revoke, PortalInv, PortalTypes
  <1>2. x \in PortalRows /\ x.link = portal[s].link /\ x.state = "revoked"
    BY <1>1 DEF PortalRows
  <1> HIDE DEF x
  <1>3. portal'[s] = x /\ \A t \in SessionIds \ {s} : portal'[t] = portal[t]
    BY <1>1
  <1>4. \A t \in SessionIds : portal'[t].link = portal[t].link
                              /\ (portal'[t].state = "none" <=> portal[t].state = "none")
    BY <1>1, <1>2, <1>3
  <1>5. PortalTypes'
    BY <1>1, <1>2, <1>4 DEF PortalTypes
  <1>6. Bearing' = Bearing /\ \A n : OpenLinks(n)' = OpenLinks(n)
    BY <1>1 DEF Bearing, OpenLinks
  <1>7. reread = "no" => OneOpening'
    BY <1>1, <1>4 DEF PortalInv, OneOpening
  <1> QED
    BY <1>1, <1>5, <1>6, <1>7 DEF PortalInv, OneAccount, Making, FewLinks, Untied

LEMMA ContactReadInv ==
  ASSUME PortalInv, EnterContact \/ ReadAccounts
  PROVE  PortalInv'
  <1>1. /\ UNCHANGED <<account, link, portal, asking, clicking, twins, exceeded, reread, overtaken>>
        /\ PortalTypes /\ contact' = "there"
    BY DEF EnterContact, ReadAccounts, PortalInv
  <1>2. Bearing' = Bearing /\ \A n : OpenLinks(n)' = OpenLinks(n)
    BY <1>1 DEF Bearing, OpenLinks
  <1>3. PortalTypes'
    BY <1>1 DEF PortalTypes, EnterContact, ReadAccounts
  <1>4. overtaken = "no" => Untied'
    BY <1>1, <1>2 DEF PortalInv, Untied, EnterContact, ReadAccounts
  <1> QED
    BY <1>1, <1>2, <1>3, <1>4 DEF PortalInv, OneAccount, Making, OneOpening, FewLinks

LEMMA EraseContactInv ==
  ASSUME PortalInv, EraseContact
  PROVE  PortalInv'
  <1>1. PICK gone \in SUBSET AccountIds, opens \in [SessionIds -> BOOLEAN] :
          /\ gone = erasure \ {0}
          /\ account' = [n \in AccountIds |-> IF n \in gone THEN Closed(n) ELSE account[n]]
          /\ portal' = [s \in SessionIds |-> IF portal[s].state = "live" /\ opens[s]
                                             THEN [portal[s] EXCEPT !.state = "revoked"]
                                             ELSE portal[s]]
          /\ link' = [l \in LinkIds |-> IF link[l].state = "open" /\ link[l].account \in gone
                                        THEN [link[l] EXCEPT !.state = "over"] ELSE link[l]]
    <2> DEFINE gone == erasure \ {0}
               opens == [s \in SessionIds |-> /\ portal[s].link # 0
                                              /\ link[portal[s].link].account \in gone]
    <2>1. gone \in SUBSET AccountIds /\ opens \in [SessionIds -> BOOLEAN]
      BY DEF PortalInv, PortalTypes
    <2>2. /\ account' = [n \in AccountIds |-> IF n \in gone THEN Closed(n) ELSE account[n]]
          /\ link' = [l \in LinkIds |-> IF link[l].state = "open" /\ link[l].account \in gone
                                        THEN [link[l] EXCEPT !.state = "over"] ELSE link[l]]
      BY DEF EraseContact
    <2>3. portal' = [s \in SessionIds |-> IF portal[s].state = "live" /\ opens[s]
                                          THEN [portal[s] EXCEPT !.state = "revoked"]
                                          ELSE portal[s]]
      BY DEF EraseContact
    <2> QED
      BY <2>1, <2>2, <2>3
  <1>2. /\ PortalTypes /\ erasure' = {} /\ contact' = "erased" /\ erasure # {}
        /\ UNCHANGED <<asking, clicking, twins, exceeded, reread, overtaken>>
    BY DEF EraseContact, PortalInv
  <1>3. \A n \in AccountIds : /\ account'[n] \in AccountRows /\ account'[n].tied = account[n].tied
                              /\ account'[n] = account[n] \/ account'[n].state = "closed"
                              /\ n \in gone => account'[n].state = "closed"
    BY <1>1, <1>2 DEF PortalTypes, AccountRows, Closed
  <1>4. \A s \in SessionIds : /\ portal'[s] \in PortalRows /\ portal'[s].link = portal[s].link
                              /\ portal'[s].state = "none" => portal[s].state = "none"
                              /\ portal[s].state = "none" => portal'[s].state = "none"
    BY <1>1, <1>2 DEF PortalTypes, PortalRows
  <1>5. \A l \in LinkIds : /\ link'[l] \in LinkRows /\ link'[l].account = link[l].account
                           /\ link'[l] = link[l]
                              \/ (link[l].state = "open" /\ link'[l].state = "over")
    BY <1>1, <1>2 DEF PortalTypes, LinkRows
  <1>6. PortalTypes'
    <2>1. /\ account' \in [AccountIds -> AccountRows] /\ portal' \in [SessionIds -> PortalRows]
          /\ link' \in [LinkIds -> LinkRows]
      BY <1>1, <1>3, <1>4, <1>5
    <2>2. \A l \in LinkIds : link'[l].state # "none" => link'[l].account \in AccountIds
      BY <1>2, <1>5 DEF PortalTypes
    <2>3. \A s \in SessionIds : portal'[s].link # 0 => link'[portal'[s].link].state = "over"
      BY <1>2, <1>4, <1>5 DEF PortalTypes, PortalRows
    <2>4. \A c \in Clicks : clicking[c] # 0 => link'[clicking[c]].state # "none"
      BY <1>2, <1>5 DEF PortalTypes
    <2> QED
      BY <1>2, <1>4, <2>1, <2>2, <2>3, <2>4 DEF PortalTypes
  <1>7. Bearing' \subseteq Bearing \ gone
    BY <1>3 DEF Bearing
  <1>8. \A n : OpenLinks(n)' \subseteq OpenLinks(n)
    BY <1>5 DEF OpenLinks
  <1>9. exceeded = "no" => FewLinks'
    BY <1>2, <1>8, FewerLinks DEF PortalInv
  <1>10. twins = "no" => OneAccount'
    BY <1>2, <1>7 DEF PortalInv, OneAccount, Making
  <1>11. reread = "no" => OneOpening'
    BY <1>2, <1>4 DEF PortalInv, OneOpening
  <1>12. ASSUME overtaken = "no" PROVE Untied'
    <2>1. ASSUME NEW n \in Bearing' PROVE account'[n].tied = "no"
      <3>1. n \in AccountIds /\ n \notin gone /\ account[n].state = "active"
        BY <1>7, <2>1 DEF Bearing
      <3>2. n \notin erasure /\ account[n].tied \in {"no", "yes"}
        BY <1>1, <1>2, <3>1, PortalIds DEF PortalTypes, AccountRows
      <3>3. account[n].tied = "no"
        BY <1>2, <1>12, <3>1, <3>2 DEF PortalInv, Untied
      <3> QED
        BY <1>3, <3>1, <3>3
    <2> QED
      BY <1>2, <2>1 DEF Untied
  <1> QED
    BY <1>2, <1>6, <1>9, <1>10, <1>11, <1>12 DEF PortalInv

LEMMA PortalStepInv == PortalInv /\ [PortalNext]_portalVars => PortalInv'
  <1> SUFFICES ASSUME PortalInv, [PortalNext]_portalVars PROVE PortalInv'
    OBVIOUS
  <1>1. CASE UNCHANGED portalVars
    <2>1. Bearing' = Bearing /\ \A n : OpenLinks(n)' = OpenLinks(n)
      BY <1>1 DEF portalVars, Bearing, OpenLinks
    <2> QED
      BY <1>1, <2>1
      DEF portalVars, PortalInv, PortalTypes, OneAccount, Making, OneOpening, FewLinks, Untied
  <1> QED
    BY <1>1, AskLinkInv, MatchContactInv, MakeAccountInv, CountLinksInv, MakeLinkInv, LinkEndsInv,
       ReadLinkInv, OpenSessionInv, RevokeInv, ContactReadInv, EraseContactInv
    DEF PortalNext

LEMMA PortalHolds == PortalInv => AccessIsSound
  <1> SUFFICES ASSUME PortalInv PROVE AccessIsSound
    OBVIOUS
  <1>1. twins = "no" => Cardinality(Bearing) <= 1
    BY OneAtMost DEF PortalInv, OneAccount
  <1>2. ASSUME contact = "erased", overtaken = "no", NEW s \in Usable
        PROVE  account[link[portal[s].link].account].tied = "no"
    <2>1. link[portal[s].link].account \in Bearing
      BY <1>2, PortalIds DEF Usable, Bearing, PortalInv, PortalTypes
    <2> QED
      BY <1>2, <2>1 DEF PortalInv, Untied
  <1> QED
    BY <1>1, <1>2 DEF PortalInv, OneOpening, FewLinks, Untied, AccessIsSound

-----------------------------------------------------------------------------
(*******************************************************************************)
(* The notifications on one device.  Until two generations of keys cross,      *)
(* one at most is under way, and what it has stored is half a pair             *)
(* (OnePair); until a send meets another or a subscription, what the one       *)
(* send has read is the row, and the row counts what was missed (MissesKnown). *)
(*******************************************************************************)
MintRows == [at : {"idle", "public", "private"}, pair : 0..MaxPairs]
DeviceRows == [there : {"no", "yes"}, failures : 0..FailureThreshold]
PushRows == [at : {"idle", "post", "passed", "failed", "gone"}, there : {"no", "yes"},
             failures : 0..FailureThreshold]

OnePair ==
    /\ \A m, k \in KeyMakers : minting[m].at # "idle" /\ minting[k].at # "idle" => m = k
    /\ \A m \in KeyMakers :
          /\ minting[m].at = "public" => vapid["public"] = 0 /\ vapid["private"] = 0
          /\ minting[m].at = "private" => /\ vapid["public"] = minting[m].pair
                                          /\ vapid["private"] = 0
    /\ (\A m \in KeyMakers : minting[m].at = "idle") => vapid["public"] = vapid["private"]

CountedOf(p) ==
    IF push[p].there = "no" THEN device.there = "no"
    ELSE /\ device.there = "yes"
         /\ push[p].at = "post"   => missed = push[p].failures
         /\ push[p].at = "passed" => missed = 0
         /\ push[p].at = "failed" => missed = push[p].failures + 1
         /\ push[p].at = "gone"   => withKey = 0

MissesKnown ==
    /\ unfair = "no"
    /\ \A p, q \in Sendings : push[p].at # "idle" /\ push[q].at # "idle" => p = q
    /\ \A p \in Sendings : push[p].at # "idle" => CountedOf(p)
    /\ AtWork = {} /\ device.there = "yes" => device.failures = missed

\* The row of a device that reached the threshold is not there.
BelowThreshold == /\ device.failures < FailureThreshold
                  /\ \A p \in Sendings : push[p].failures < FailureThreshold

KeptInv == /\ PushTypeOK /\ BelowThreshold
           /\ (paired = "yes" => OnePair) /\ (together = "no" => MissesKnown)

LEMMA PairsAre == MaxPairs \in Nat
  BY PushAssumption, FS_CardinalityType DEF MaxPairs

LEMMA PushInitInv == PushInit => KeptInv
  <1> SUFFICES ASSUME PushInit PROVE KeptInv
    OBVIOUS
  <1>1. FailureThreshold \in Nat /\ FailureThreshold > 0 /\ MaxPairs \in Nat
    BY PushAssumption, PairsAre
  <1>2. PushTypeOK
    BY <1>1 DEF PushInit, PushTypeOK, NoKeys, NoDevice, NoPush
  <1>3. BelowThreshold
    BY <1>1 DEF PushInit, BelowThreshold, NoDevice, NoPush
  <1>4. OnePair /\ MissesKnown
    BY DEF PushInit, OnePair, MissesKnown, NoKeys, NoDevice, NoPush
  <1> QED
    BY <1>2, <1>3, <1>4 DEF KeptInv

\* A generation of keys does not touch the device.
LEMMA KeysInv ==
  ASSUME KeptInv, NEW m \in KeyMakers, NEW w \in MintRows, minting' = [minting EXCEPT ![m] = w],
         vapid' \in [{"public", "private"} -> 0..MaxPairs], pairs' \in 0..MaxPairs,
         paired' \in {"no", "yes"}, paired' = "yes" => OnePair',
         UNCHANGED <<device, withKey, push, missed, together, unfair>>
  PROVE  KeptInv'
  <1>1. PushTypeOK'
    BY DEF KeptInv, PushTypeOK, MintRows
  <1>2. BelowThreshold'
    BY DEF KeptInv, BelowThreshold
  <1>3. together' = "no" => MissesKnown'
    BY DEF KeptInv, MissesKnown, CountedOf, AtWork
  <1> QED
    BY <1>1, <1>2, <1>3 DEF KeptInv

LEMMA StartKeysInv ==
  ASSUME KeptInv, NEW m \in KeyMakers, StartKeys(m)
  PROVE  KeptInv'
  <1> DEFINE w == [at |-> "public", pair |-> pairs']
  <1>1. /\ minting \in [KeyMakers -> MintRows] /\ vapid \in [{"public", "private"} -> 0..MaxPairs]
        /\ paired \in {"no", "yes"} /\ MaxPairs \in Nat
    BY PairsAre DEF KeptInv, PushTypeOK, MintRows
  <1>2. pairs' \in 0..MaxPairs /\ vapid["public"] = 0 /\ UNCHANGED vapid
        /\ UNCHANGED <<device, withKey, push, missed, together, unfair>>
        /\ minting' = [minting EXCEPT ![m] = w]
        /\ paired' = IF \E k \in KeyMakers : minting[k].at # "idle" THEN "no" ELSE paired
    BY <1>1 DEF StartKeys, KeptInv, PushTypeOK
  <1>3. w \in MintRows /\ w.at = "public"
    BY <1>2 DEF MintRows
  <1> HIDE DEF w
  <1>4. minting'[m] = w /\ \A k \in KeyMakers \ {m} : minting'[k] = minting[k]
    BY <1>1, <1>2
  <1>5. ASSUME paired' = "yes" PROVE OnePair'
    <2>1. OnePair /\ \A k \in KeyMakers : minting[k].at = "idle"
      BY <1>2, <1>5 DEF KeptInv
    <2> QED
      BY <1>2, <1>3, <1>4, <2>1 DEF OnePair
  <1>6. paired' \in {"no", "yes"} /\ vapid' \in [{"public", "private"} -> 0..MaxPairs]
    BY <1>1, <1>2
  <1> QED
    BY <1>2, <1>3, <1>5, <1>6, KeysInv

LEMMA StoreKeyInv ==
  ASSUME KeptInv, NEW m \in KeyMakers, StoreKey(m)
  PROVE  KeptInv'
  <1>1. /\ minting \in [KeyMakers -> MintRows] /\ minting[m] \in MintRows
        /\ vapid \in [{"public", "private"} -> 0..MaxPairs]
        /\ paired \in {"no", "yes"} /\ pairs' \in 0..MaxPairs
        /\ minting[m].at \in {"public", "private"} /\ minting[m].pair \in 0..MaxPairs
        /\ UNCHANGED <<device, withKey, push, missed, together, unfair>>
    BY DEF StoreKey, KeptInv, PushTypeOK, MintRows
  <1>2. NoKeys \in MintRows /\ NoKeys.at = "idle"
    BY PairsAre DEF NoKeys, MintRows
  <1>3. CASE minting' = [minting EXCEPT ![m] = NoKeys] /\ paired' = "no" /\ UNCHANGED vapid
    <2>1. vapid' \in [{"public", "private"} -> 0..MaxPairs] /\ paired' \in {"no", "yes"}
          /\ paired' # "yes"
      BY <1>1, <1>3
    <2> QED
      BY <1>1, <1>2, <1>3, <2>1, KeysInv
  <1>4. CASE /\ vapid' = [vapid EXCEPT ![minting[m].at] = minting[m].pair] /\ UNCHANGED paired
             /\ minting[m].at = "public"
             /\ minting' = [minting EXCEPT ![m] = [minting[m] EXCEPT !.at = "private"]]
    <2> DEFINE w == [minting[m] EXCEPT !.at = "private"]
    <2>1. w \in MintRows /\ w.at = "private" /\ w.pair = minting[m].pair
      BY <1>1 DEF MintRows
    <2>2. minting' = [minting EXCEPT ![m] = w]
      BY <1>4
    <2> HIDE DEF w
    <2>3. minting'[m] = w /\ \A k \in KeyMakers \ {m} : minting'[k] = minting[k]
      BY <1>1, <2>2
    <2>4. vapid'["public"] = w.pair /\ vapid'["private"] = vapid["private"]
          /\ vapid' \in [{"public", "private"} -> 0..MaxPairs]
      BY <1>1, <1>4, <2>1
    <2>5. ASSUME paired = "yes" PROVE OnePair'
      <3>1. OnePair
        BY <2>5 DEF KeptInv
      <3>2. vapid["private"] = 0 /\ \A k \in KeyMakers \ {m} : minting[k].at = "idle"
        BY <1>1, <1>4, <3>1 DEF OnePair
      <3> QED
        BY <2>1, <2>3, <2>4, <3>2 DEF OnePair
    <2>6. paired' \in {"no", "yes"} /\ (paired' = "yes" => OnePair')
      BY <1>1, <1>4, <2>5
    <2> QED
      BY <1>1, <2>1, <2>2, <2>4, <2>6, KeysInv
  <1>5. CASE /\ vapid' = [vapid EXCEPT ![minting[m].at] = minting[m].pair] /\ UNCHANGED paired
             /\ minting[m].at = "private"
             /\ minting' = [minting EXCEPT ![m] = NoKeys]
    <2>1. minting'[m] = NoKeys /\ \A k \in KeyMakers \ {m} : minting'[k] = minting[k]
      BY <1>1, <1>5
    <2>2. vapid'["private"] = minting[m].pair /\ vapid'["public"] = vapid["public"]
          /\ vapid' \in [{"public", "private"} -> 0..MaxPairs]
      BY <1>1, <1>5
    <2>3. ASSUME paired = "yes" PROVE OnePair'
      <3>1. OnePair
        BY <2>3 DEF KeptInv
      <3>2. /\ vapid["public"] = minting[m].pair
            /\ \A k \in KeyMakers \ {m} : minting[k].at = "idle"
        BY <1>1, <1>5, <3>1 DEF OnePair
      <3> QED
        BY <1>2, <2>1, <2>2, <3>2 DEF OnePair
    <2>4. paired' \in {"no", "yes"} /\ (paired' = "yes" => OnePair')
      BY <1>1, <1>5, <2>3
    <2> QED
      BY <1>1, <1>2, <1>5, <2>2, <2>4, KeysInv
  <1>6. minting[m].at = "public" \/ minting[m].at = "private"
    BY <1>1
  <1> QED
    BY <1>3, <1>4, <1>5, <1>6 DEF StoreKey

\* What happens to the device does not touch the keys.
LEMMA DeviceInv ==
  ASSUME KeptInv, device' \in DeviceRows, withKey' \in 0..MaxPairs,
         push' \in [Sendings -> PushRows],
         missed' \in 0..FailureThreshold, together' \in {"no", "yes"}, unfair' \in {"no", "yes"},
         BelowThreshold', together' = "no" => MissesKnown',
         UNCHANGED <<vapid, minting, pairs, paired>>
  PROVE  KeptInv'
  <1>1. PushTypeOK'
    BY DEF KeptInv, PushTypeOK, DeviceRows, PushRows
  <1>2. paired' = "yes" => OnePair'
    BY DEF KeptInv, OnePair
  <1> QED
    BY <1>1, <1>2 DEF KeptInv

LEMMA PushTypesAre ==
  ASSUME KeptInv
  PROVE  /\ device \in DeviceRows /\ push \in [Sendings -> PushRows]
         /\ \A p \in Sendings : push[p] \in PushRows /\ push[p].failures \in Nat
                                /\ push[p].failures < FailureThreshold
         /\ device.failures \in Nat /\ device.failures < FailureThreshold
         /\ withKey \in 0..MaxPairs /\ missed \in 0..FailureThreshold
         /\ together \in {"no", "yes"} /\ unfair \in {"no", "yes"}
         /\ FailureThreshold \in Nat \ {0} /\ MaxPairs \in Nat
         /\ NoDevice \in DeviceRows /\ NoDevice.there = "no" /\ NoDevice.failures = 0
         /\ NoPush \in PushRows /\ NoPush.at = "idle" /\ NoPush.failures = 0
         /\ vapid["public"] \in 0..MaxPairs
  <1>1. /\ device \in DeviceRows /\ push \in [Sendings -> PushRows]
        /\ withKey \in 0..MaxPairs /\ missed \in 0..FailureThreshold
        /\ together \in {"no", "yes"} /\ unfair \in {"no", "yes"} /\ vapid["public"] \in 0..MaxPairs
    BY DEF KeptInv, PushTypeOK, DeviceRows, PushRows
  <1>2. /\ FailureThreshold \in Nat \ {0} /\ MaxPairs \in Nat
    BY PushAssumption, PairsAre
  <1>3. \A p \in Sendings : push[p] \in PushRows /\ push[p].failures \in Nat
                            /\ push[p].failures < FailureThreshold
    BY <1>1, <1>2 DEF KeptInv, BelowThreshold, PushRows
  <1>4. device.failures \in Nat /\ device.failures < FailureThreshold
    BY <1>1, <1>2 DEF KeptInv, BelowThreshold, DeviceRows
  <1>5. /\ NoDevice \in DeviceRows /\ NoDevice.there = "no" /\ NoDevice.failures = 0
        /\ NoPush \in PushRows /\ NoPush.at = "idle" /\ NoPush.failures = 0
    BY <1>2 DEF NoDevice, NoPush, DeviceRows, PushRows
  <1> QED
    BY <1>1, <1>2, <1>3, <1>4, <1>5

LEMMA SubscribeInv ==
  ASSUME KeptInv, Subscribe
  PROVE  KeptInv'
  <1>1. /\ withKey' \in 0..MaxPairs /\ missed' = 0
        /\ UNCHANGED <<vapid, minting, pairs, push, paired, unfair>>
        /\ together' = IF AtWork # {} THEN "yes" ELSE together
    BY PushTypesAre DEF Subscribe
  <1>2. device' \in DeviceRows /\ device'.failures = 0 /\ device'.there = "yes"
    BY PushTypesAre DEF Subscribe, Resubscribed, DeviceRows, NoDevice
  <1>3. BelowThreshold'
    BY <1>1, <1>2, PushTypesAre DEF BelowThreshold
  <1>4. ASSUME together' = "no" PROVE MissesKnown'
    <2>1. MissesKnown /\ AtWork = {}
      BY <1>1, <1>4 DEF KeptInv
    <2>2. \A p \in Sendings : push[p].at = "idle"
      BY <2>1 DEF AtWork
    <2> QED
      BY <1>1, <1>2, <2>1, <2>2 DEF MissesKnown
  <1>5. /\ missed' \in 0..FailureThreshold
        /\ together' \in {"no", "yes"} /\ unfair' \in {"no", "yes"}
        /\ push' \in [Sendings -> PushRows]
    BY <1>1, PushTypesAre
  <1> QED
    BY <1>1, <1>2, <1>3, <1>4, <1>5, DeviceInv

LEMMA OrphanedAre ==
  ASSUME NEW ps \in [Sendings -> PushRows]
  PROVE  /\ Orphaned(ps) \in [Sendings -> PushRows]
         /\ \A q \in Sendings : /\ Orphaned(ps)[q].at = ps[q].at
                                /\ Orphaned(ps)[q].failures = ps[q].failures
                                /\ Orphaned(ps)[q].there = "no"
  BY DEF Orphaned, PushRows

LEMMA DeviceLeavesInv ==
  ASSUME KeptInv, Unsubscribe \/ DeviceGoes
  PROVE  KeptInv'
  <1>1. CASE Unsubscribe
    <2>1. /\ push' \in [Sendings -> PushRows] /\ device' = NoDevice
          /\ \A q \in Sendings : /\ push'[q].at = push[q].at /\ push'[q].there = "no"
                                 /\ push'[q].failures = push[q].failures
          /\ UNCHANGED <<vapid, minting, pairs, withKey, missed, paired, together, unfair>>
      BY <1>1, PushTypesAre, OrphanedAre DEF Unsubscribe
    <2>2. BelowThreshold'
      BY <2>1, PushTypesAre DEF BelowThreshold
    <2>3. together = "no" => MissesKnown'
      BY <2>1, PushTypesAre DEF KeptInv, MissesKnown, CountedOf
    <2> QED
      BY <2>1, <2>2, <2>3, PushTypesAre, DeviceInv
  <1>2. CASE DeviceGoes
    <2>1. /\ withKey' = 0 /\ 0 \in 0..MaxPairs
          /\ UNCHANGED <<vapid, minting, pairs, device, push, missed, paired, together, unfair>>
      BY <1>2, PushTypesAre DEF DeviceGoes
    <2>2. BelowThreshold'
      BY <2>1, PushTypesAre DEF BelowThreshold
    <2>3. together = "no" => MissesKnown'
      BY <2>1 DEF KeptInv, MissesKnown, CountedOf, AtWork
    <2> QED
      BY <2>1, <2>2, <2>3, PushTypesAre, DeviceInv
  <1> QED
    BY <1>1, <1>2

LEMMA StartPushInv ==
  ASSUME KeptInv, NEW p \in Sendings, StartPush(p)
  PROVE  KeptInv'
  <1> DEFINE w == [at |-> "post", there |-> "yes", failures |-> device.failures]
  <1>1. /\ push' = [push EXCEPT ![p] = w] /\ device.there = "yes" /\ push[p].at = "idle"
        /\ UNCHANGED <<vapid, minting, pairs, device, withKey, missed, paired, unfair>>
        /\ together' = IF AtWork # {} THEN "yes" ELSE together
    BY DEF StartPush
  <1>2. w \in PushRows /\ w.at = "post" /\ w.there = "yes" /\ w.failures = device.failures
    BY PushTypesAre DEF PushRows
  <1> HIDE DEF w
  <1>3. push'[p] = w /\ \A q \in Sendings \ {p} : push'[q] = push[q]
    BY <1>1, PushTypesAre
  <1>4. BelowThreshold'
    BY <1>1, <1>2, <1>3, PushTypesAre DEF BelowThreshold
  <1>5. ASSUME together' = "no" PROVE MissesKnown'
    <2>1. MissesKnown /\ AtWork = {}
      BY <1>1, <1>5 DEF KeptInv
    <2>2. (\A q \in Sendings : push[q].at = "idle") /\ device.failures = missed
      BY <1>1, <2>1 DEF AtWork, MissesKnown
    <2>3. CountedOf(p)'
      BY <1>1, <1>2, <1>3, <2>2 DEF CountedOf
    <2>4. AtWork' # {} /\ unfair' = "no"
      BY <1>1, <1>2, <1>3, <2>1 DEF AtWork, MissesKnown
    <2> QED
      BY <1>3, <2>2, <2>3, <2>4 DEF MissesKnown
  <1>6. push' \in [Sendings -> PushRows] /\ together' \in {"no", "yes"}
    BY <1>1, <1>2, PushTypesAre
  <1> QED
    BY <1>1, <1>4, <1>5, <1>6, PushTypesAre, DeviceInv

LEMMA PostPushInv ==
  ASSUME KeptInv, NEW p \in Sendings, PostPush(p)
  PROVE  KeptInv'
  <1>1. /\ push[p].at = "post" /\ push[p] \in PushRows
        /\ UNCHANGED <<vapid, minting, pairs, device, withKey, paired, together, unfair>>
    BY PushTypesAre DEF PostPush
  <1>2. PICK w \in PushRows :
          /\ push' = [push EXCEPT ![p] = w] /\ w.there = push[p].there
          /\ \/ w.at = "passed" /\ w.failures = 0 /\ missed' = 0
             \/ w.at = "failed" /\ w.failures = push[p].failures /\ missed' = Least(missed + 1)
             \/ w.at = "gone" /\ w.failures = 0 /\ withKey = 0 /\ UNCHANGED missed
    <2>1. CASE missed' = 0 /\ push' = [push EXCEPT ![p].at = "passed", ![p].failures = 0]
      <3> DEFINE w == [push[p] EXCEPT !.at = "passed", !.failures = 0]
      <3>1. push' = [push EXCEPT ![p] = w] /\ w \in PushRows /\ w.there = push[p].there
            /\ w.at = "passed" /\ w.failures = 0
        BY <1>1, <2>1, PushTypesAre DEF PushRows
      <3> QED
        BY <2>1, <3>1
    <2>2. CASE missed' = Least(missed + 1) /\ push' = [push EXCEPT ![p].at = "failed"]
      <3> DEFINE w == [push[p] EXCEPT !.at = "failed"]
      <3>1. push' = [push EXCEPT ![p] = w] /\ w \in PushRows /\ w.there = push[p].there
            /\ w.at = "failed" /\ w.failures = push[p].failures
        BY <1>1, <2>2, PushTypesAre DEF PushRows
      <3> QED
        BY <2>2, <3>1
    <2>3. CASE /\ withKey = 0 /\ push' = [push EXCEPT ![p].at = "gone", ![p].failures = 0]
               /\ UNCHANGED missed
      <3> DEFINE w == [push[p] EXCEPT !.at = "gone", !.failures = 0]
      <3>1. push' = [push EXCEPT ![p] = w] /\ w \in PushRows /\ w.there = push[p].there
            /\ w.at = "gone" /\ w.failures = 0
        BY <1>1, <2>3, PushTypesAre DEF PushRows
      <3> QED
        BY <2>3, <3>1
    <2> QED
      BY <2>1, <2>2, <2>3 DEF PostPush
  <1>3. push'[p] = w /\ \A q \in Sendings \ {p} : push'[q] = push[q]
    BY <1>2, PushTypesAre
  <1>4. missed' \in 0..FailureThreshold
    BY <1>2, PushTypesAre DEF Least
  <1>5. BelowThreshold'
    BY <1>1, <1>2, <1>3, PushTypesAre DEF BelowThreshold
  <1>6. ASSUME together = "no" PROVE MissesKnown'
    <2>1. MissesKnown /\ CountedOf(p)
      BY <1>1, <1>6 DEF KeptInv, MissesKnown
    <2>2. \A q \in Sendings \ {p} : push[q].at = "idle"
      BY <1>1, <2>1 DEF MissesKnown
    <2>3. CountedOf(p)'
      <3>1. CASE push[p].there = "no"
        BY <1>1, <1>2, <1>3, <2>1, <3>1 DEF CountedOf
      <3>2. CASE push[p].there # "no"
        <4>1. device.there = "yes" /\ missed = push[p].failures
          BY <1>1, <2>1, <3>2 DEF CountedOf
        <4>2. Least(missed + 1) = push[p].failures + 1
          BY <4>1, PushTypesAre DEF Least
        <4> QED
          <5>1. /\ push'[p].there # "no" /\ device'.there = "yes" /\ push'[p].at = w.at
                /\ push'[p].failures = w.failures /\ withKey' = withKey
            BY <1>1, <1>2, <1>3, <3>2, <4>1
          <5>2. \/ w.at = "passed" /\ missed' = 0
                \/ w.at = "failed" /\ missed' = w.failures + 1
                \/ w.at = "gone" /\ withKey = 0
            BY <1>2, <4>2
          <5> QED
            BY <5>1, <5>2 DEF CountedOf
      <3> QED
        BY <3>1, <3>2
    <2>4. p \in AtWork' /\ unfair' = "no"
      BY <1>1, <1>2, <1>3, <2>1 DEF AtWork, MissesKnown
    <2> QED
      BY <1>3, <2>2, <2>3, <2>4 DEF MissesKnown
  <1>7. push' \in [Sendings -> PushRows]
    BY <1>2, PushTypesAre
  <1> QED
    BY <1>1, <1>4, <1>5, <1>6, <1>7, PushTypesAre, DeviceInv

LEMMA SettlePushInv ==
  ASSUME KeptInv, NEW p \in Sendings, SettlePush(p)
  PROVE  KeptInv'
  <1> DEFINE rest == [push EXCEPT ![p] = NoPush]
  <1>1. /\ push[p].at \in {"passed", "failed", "gone"} /\ push[p] \in PushRows
        /\ UNCHANGED <<vapid, minting, pairs, withKey, missed, paired, together>>
    BY PushTypesAre DEF SettlePush
  <1>2. /\ rest \in [Sendings -> PushRows] /\ rest[p] = NoPush
        /\ \A q \in Sendings \ {p} : rest[q] = push[q]
    BY PushTypesAre
  <1>3. /\ push' = IF push[p].there = "yes" /\ DropsRow(p) THEN Orphaned(rest) ELSE rest
        /\ device' = IF push[p].there = "no" THEN device
                     ELSE IF DropsRow(p) THEN NoDevice
                     ELSE IF push[p].at = "passed" THEN AfterPass
                     ELSE [device EXCEPT !.failures = FailuresOf(p)]
        /\ unfair' = IF push[p].there = "yes" /\ DropsRow(p) /\ withKey # 0
                       /\ missed < FailureThreshold THEN "yes" ELSE unfair
    BY DEF SettlePush
  <1> HIDE DEF rest
  <1>4. /\ push' \in [Sendings -> PushRows] /\ push'[p].at = "idle"
        /\ \A q \in Sendings : push'[q].failures \in Nat /\ push'[q].failures < FailureThreshold
        /\ \A q \in Sendings \ {p} : push'[q].at = push[q].at
    BY <1>2, <1>3, OrphanedAre, PushTypesAre
  <1>5. /\ device' \in DeviceRows /\ device'.failures < FailureThreshold
        /\ push[p].there = "yes" =>
             \/ DropsRow(p) /\ device' = NoDevice
             \/ ~DropsRow(p) /\ push[p].at = "passed" /\ device'.failures = 0
             \/ ~DropsRow(p) /\ push[p].at = "failed" /\ device'.failures = push[p].failures + 1
        /\ push[p].there = "no" => device' = device
    <2>1. CASE push[p].there = "no"
      BY <1>3, <2>1, PushTypesAre
    <2>2. CASE push[p].there = "yes" /\ DropsRow(p)
      BY <1>3, <2>2, PushTypesAre
    <2>3. CASE push[p].there = "yes" /\ ~DropsRow(p) /\ push[p].at = "passed"
      <3>1. device' = [device EXCEPT !.failures = 0]
        BY <1>3, <2>3 DEF AfterPass
      <3> QED
        BY <2>3, <3>1, PushTypesAre DEF DeviceRows
    <2>4. CASE push[p].there = "yes" /\ ~DropsRow(p) /\ push[p].at # "passed"
      <3>1. /\ device' = [device EXCEPT !.failures = push[p].failures + 1]
            /\ push[p].at = "failed" /\ ~(push[p].failures + 1 >= FailureThreshold)
        BY <1>1, <1>3, <2>4 DEF FailuresOf, DropsRow
      <3>2. push[p].failures + 1 \in 0..FailureThreshold /\ push[p].failures + 1 < FailureThreshold
        BY <3>1, PushTypesAre
      <3> QED
        BY <2>4, <3>1, <3>2, PushTypesAre DEF DeviceRows
    <2>5. push[p].there = "no" \/ push[p].there = "yes"
      BY <1>1 DEF PushRows
    <2> QED
      BY <2>1, <2>2, <2>3, <2>4, <2>5
  <1>6. BelowThreshold'
    BY <1>4, <1>5 DEF BelowThreshold
  <1>7. ASSUME together = "no" PROVE MissesKnown'
    <2>1. MissesKnown /\ CountedOf(p)
      BY <1>1, <1>7 DEF KeptInv, MissesKnown
    <2>2. (\A q \in Sendings : push'[q].at = "idle")
      BY <1>1, <1>4, <2>1 DEF MissesKnown
    <2>3. unfair' = "no"
      <3>1. CASE push[p].there = "yes" /\ DropsRow(p)
        <4>1. CASE push[p].at = "gone"
          BY <1>3, <2>1, <3>1, <4>1 DEF CountedOf, MissesKnown
        <4>2. CASE push[p].at # "gone"
          <5>1. push[p].at = "failed" /\ push[p].failures + 1 >= FailureThreshold
            BY <3>1, <4>2 DEF DropsRow, FailuresOf
          <5>2. missed = push[p].failures + 1
            BY <2>1, <3>1, <5>1 DEF CountedOf
          <5>3. ~(missed < FailureThreshold)
            BY <5>1, <5>2, PushTypesAre
          <5> QED
            BY <1>3, <2>1, <5>3 DEF MissesKnown
        <4> QED
          BY <4>1, <4>2
      <3>2. CASE ~(push[p].there = "yes" /\ DropsRow(p))
        BY <1>3, <2>1, <3>2 DEF MissesKnown
      <3> QED
        BY <3>1, <3>2
    <2>4. ASSUME device'.there = "yes" PROVE device'.failures = missed
      <3>1. push[p].there = "yes"
        BY <1>1, <1>5, <2>1, <2>4 DEF CountedOf, PushRows
      <3> QED
        BY <1>5, <2>1, <2>4, <3>1, PushTypesAre DEF CountedOf
    <2> QED
      BY <1>1, <2>2, <2>3, <2>4 DEF MissesKnown
  <1>8. unfair' \in {"no", "yes"}
    BY <1>3, PushTypesAre
  <1> QED
    BY <1>1, <1>4, <1>5, <1>6, <1>7, <1>8, PushTypesAre, DeviceInv

LEMMA PushStepInv == KeptInv /\ [PushNext]_pushVars => KeptInv'
  <1> SUFFICES ASSUME KeptInv, [PushNext]_pushVars PROVE KeptInv'
    OBVIOUS
  <1>1. CASE UNCHANGED pushVars
    BY <1>1 DEF pushVars, KeptInv, PushTypeOK, BelowThreshold, OnePair, MissesKnown, CountedOf,
                AtWork
  <1> QED
    BY <1>1, StartKeysInv, StoreKeyInv, SubscribeInv, DeviceLeavesInv, StartPushInv, PostPushInv,
       SettlePushInv
    DEF PushNext

LEMMA PushHolds == KeptInv => DeviceIsKept
  <1> SUFFICES ASSUME KeptInv PROVE DeviceIsKept
    OBVIOUS
  <1>1. ASSUME paired = "yes", vapid["public"] # 0, vapid["private"] # 0
        PROVE  vapid["public"] = vapid["private"]
    <2>1. OnePair /\ \A m \in KeyMakers : minting[m].at \in {"idle", "public", "private"}
      BY <1>1 DEF KeptInv, PushTypeOK
    <2> QED
      BY <1>1, <2>1 DEF OnePair
  <1>2. together = "no" => /\ unfair = "no"
                           /\ AtWork = {} /\ device.there = "yes" => device.failures = missed
    BY DEF KeptInv, MissesKnown
  <1> QED
    BY <1>1, <1>2 DEF DeviceIsKept

-----------------------------------------------------------------------------
(*****************************************************************************)
(* One outgoing call.  The row is made once (a row without a status is no    *)
(* row, and no event has been handled then); until two handlers cross it     *)
(* has what the handled events say, and until two transcriptions meet one at *)
(* most is under way.                                                        *)
(*****************************************************************************)
CallRows == [tenant : {"no", "yes"}, status : {"none", "RINGING", "ANSWERED", "COMPLETED"},
             stamps : SUBSET Events, transcription : {"none", "RUNNING", "DONE", "FAILED"},
             text : {"no", "yes"}]
SeenRows == [made : {"no", "yes"}, tenant : {"no", "yes"}, stamps : SUBSET Events]
HookRows == [at : {"idle", "tenant", "row"}, event : Events, seen : SeenRows]

CallTypes ==
    /\ dial \in {"idle", "asked", "logged", "failed"} /\ reported \subseteq Events
    /\ call \in CallRows /\ hook \in [Hooks -> HookRows] /\ hooks \in 0..MaxHooks
    /\ writing \subseteq {"cron", "user"} /\ handled \subseteq Events
    /\ {blind, backwards, met} \subseteq {"no", "yes"}

NotMadeYet == call.status = "none" => call = NoCall /\ handled = {} /\ writing = {}

OneTranscription ==
    met = "no" => /\ \A p, q \in writing : p = q
                  /\ (call.transcription = "RUNNING") = (writing # {})
                  /\ call.transcription = "DONE" => call.text = "yes"

CallInv == CallTypes /\ NotMadeYet /\ CallTellsItsStory /\ OneTranscription

LEMMA EventsAre ==
  /\ \A e \in Events : /\ Order[e] \in Nat /\ StampsOf(e) \subseteq Events
                       /\ StatusOf[e] \in {"RINGING", "ANSWERED", "COMPLETED"}
  /\ \A e, f \in Events : Order[e] = Order[f] => e = f
  BY DEF Events, Order, StatusOf, StampsOf

LEMMA NoCallIs ==
  /\ NoCall \in CallRows /\ NoCall.status = "none" /\ NoCall.stamps = {}
  /\ NoCall.transcription = "none" /\ NoHook \in HookRows /\ NoHook.at = "idle"
  BY DEF NoCall, CallRows, NoHook, HookRows, SeenRows, Events

LEMMA SeenCallIs == ASSUME CallTypes PROVE SeenCall \in SeenRows
  BY DEF CallTypes, CallRows, SeenCall, SeenRows

LEMMA CallInitInv == CallInit => CallInv
  <1> SUFFICES ASSUME CallInit PROVE CallInv
    OBVIOUS
  <1>1. 0 \in 0..MaxHooks
    BY CallAssumption
  <1>2. CallTypes
    BY <1>1, NoCallIs DEF CallInit, CallTypes
  <1>3. NotMadeYet /\ OneTranscription
    BY NoCallIs DEF CallInit, NotMadeYet, OneTranscription
  <1>4. CallTellsItsStory
    BY NoCallIs DEF CallInit, CallTellsItsStory
  <1> QED
    BY <1>2, <1>3, <1>4 DEF CallInv

\* The call and its hooks go on, and the row stays as it is.
LEMMA RowRestsInv ==
  ASSUME CallInv, dial' \in {"idle", "asked", "logged", "failed"}, reported' \subseteq Events,
         hook' \in [Hooks -> HookRows], hooks' \in 0..MaxHooks,
         UNCHANGED <<call, writing, handled, blind, backwards, met>>
  PROVE  CallInv'
  <1>1. CallTypes'
    BY DEF CallInv, CallTypes
  <1> QED
    BY <1>1 DEF CallInv, NotMadeYet, OneTranscription, CallTellsItsStory

LEMMA CallRestsInv ==
  ASSUME CallInv,
         \/ Dial
         \/ \E e \in Events : Report(e) \/ (\E h \in Hooks : HookArrives(h, e))
         \/ \E h \in Hooks : HookReads(h) \/ HookRefused(h)
  PROVE  CallInv'
  <1>1. /\ dial \in {"idle", "asked", "logged", "failed"} /\ reported \subseteq Events
        /\ hook \in [Hooks -> HookRows] /\ hooks \in 0..MaxHooks /\ SeenCall \in SeenRows
        /\ MaxHooks \in Nat
    BY SeenCallIs, CallAssumption DEF CallInv, CallTypes
  <1>2. /\ dial' \in {"idle", "asked", "logged", "failed"} /\ reported' \subseteq Events
        /\ hook' \in [Hooks -> HookRows] /\ hooks' \in 0..MaxHooks
        /\ UNCHANGED <<call, writing, handled, blind, backwards, met>>
    <2>1. CASE Dial
      BY <1>1, <2>1 DEF Dial, Events
    <2>2. ASSUME NEW e \in Events, Report(e)
          PROVE  /\ reported' \subseteq Events
                 /\ UNCHANGED <<dial, hook, hooks, call, writing, handled, blind, backwards, met>>
      BY <1>1, <2>2 DEF Report
    <2>3. ASSUME NEW e \in Events, NEW h \in Hooks, HookArrives(h, e)
          PROVE  /\ hook' \in [Hooks -> HookRows] /\ hooks' \in 0..MaxHooks
                 /\ UNCHANGED <<dial, reported, call, writing, handled, blind, backwards, met>>
      <3>1. [at |-> "tenant", event |-> e, seen |-> SeenCall] \in HookRows
        BY <1>1 DEF HookRows
      <3> QED
        BY <1>1, <2>3, <3>1 DEF HookArrives
    <2>4. ASSUME NEW h \in Hooks, HookReads(h)
          PROVE  /\ hook' \in [Hooks -> HookRows]
                 /\ UNCHANGED <<dial, reported, hooks, call, writing, handled, blind,
                                 backwards, met>>
      <3>1. [hook[h] EXCEPT !.at = "row", !.seen = SeenCall] \in HookRows
        BY <1>1 DEF HookRows
      <3>2. hook' = [hook EXCEPT ![h] = [hook[h] EXCEPT !.at = "row", !.seen = SeenCall]]
        BY <2>4 DEF HookReads
      <3> QED
        BY <1>1, <2>4, <3>1, <3>2 DEF HookReads
    <2>5. ASSUME NEW h \in Hooks, HookRefused(h)
          PROVE  /\ hook' \in [Hooks -> HookRows]
                 /\ UNCHANGED <<dial, reported, hooks, call, writing, handled, blind,
                                 backwards, met>>
      BY <1>1, <2>5, NoCallIs DEF HookRefused
    <2> QED
      BY <1>1, <2>1, <2>2, <2>3, <2>4, <2>5
  <1> QED
    BY <1>2, RowRestsInv

LEMMA LogCallInv ==
  ASSUME CallInv, LogCall
  PROVE  CallInv'
  <1>1. CallTypes /\ UNCHANGED <<reported, hook, hooks, writing, handled, blind, backwards, met>>
    BY DEF CallInv, LogCall
  <1>2. CASE dial' = "failed" /\ UNCHANGED call
    BY <1>1, <1>2, RowRestsInv DEF CallTypes
  <1>3. CASE /\ call = NoCall /\ dial' = "logged"
             /\ call' = [NoCall EXCEPT !.tenant = "yes", !.status = "RINGING"]
    <2>1. /\ call' \in CallRows /\ call'.status = "RINGING" /\ call'.stamps = call.stamps
          /\ call'.transcription = "none" /\ call.transcription = "none" /\ handled = {}
      BY <1>3, NoCallIs DEF CallRows, CallInv, NotMadeYet
    <2>2. CallTypes'
      BY <1>1, <1>3, <2>1 DEF CallTypes
    <2>3. CallTellsItsStory'
      BY <1>1, <2>1 DEF CallInv, CallTellsItsStory
    <2>4. NotMadeYet' /\ OneTranscription'
      BY <1>1, <2>1 DEF CallInv, NotMadeYet, OneTranscription
    <2> QED
      BY <2>2, <2>3, <2>4 DEF CallInv
  <1> QED
    BY <1>2, <1>3 DEF LogCall

LEMMA StampsOfOneMore ==
  ASSUME NEW H, NEW e
  PROVE  UNION {StampsOf(f) : f \in H \union {e}}
             = (UNION {StampsOf(f) : f \in H}) \union StampsOf(e)
  OBVIOUS

\* An event reaches the row: its stamps are added to those there are.
LEMMA EventReachesInv ==
  ASSUME CallInv, NEW e \in Events, Handled(e), NEW row \in CallRows, call' = row,
         row.status = StatusOf[e],
         blind' = "no" => row.stamps = call.stamps \union StampsOf(e) /\ blind = "no",
         blind' \in {"no", "yes"}, hook' \in [Hooks -> HookRows],
         row.transcription = call.transcription, row.text = call.text,
         UNCHANGED <<dial, reported, hooks, writing, met>>
  PROVE  CallInv'
  <1>1. /\ CallTypes /\ handled' = handled \union {e}
        /\ backwards' = IF \E f \in handled : Order[f] > Order[e] THEN "yes" ELSE backwards
        /\ backwards \in {"no", "yes"} /\ handled \subseteq Events
    BY DEF CallInv, CallTypes, Handled
  <1>2. CallTypes'
    BY <1>1 DEF CallTypes
  <1>3. NotMadeYet'
    BY EventsAre DEF NotMadeYet
  <1>4. OneTranscription'
    BY DEF CallInv, OneTranscription
  <1>5. ASSUME blind' = "no" PROVE call'.stamps = UNION {StampsOf(f) : f \in handled'}
    <2>1. call.stamps = UNION {StampsOf(f) : f \in handled}
      BY <1>5 DEF CallInv, CallTellsItsStory
    <2> QED
      BY <1>1, <1>5, <2>1, StampsOfOneMore
  <1>6. ASSUME backwards' = "no", NEW g \in handled',
               \A f \in handled' : Order[f] <= Order[g]
        PROVE  call'.status = StatusOf[g]
    <2>1. \A f \in handled : ~(Order[f] > Order[e])
      BY <1>1, <1>6
    <2>2. Order[g] = Order[e]
      BY <1>1, <1>6, <2>1, EventsAre
    <2> QED
      BY <1>1, <2>2, EventsAre
  <1>7. CallTellsItsStory'
    BY <1>5, <1>6 DEF CallTellsItsStory
  <1> QED
    BY <1>2, <1>3, <1>4, <1>7 DEF CallInv

LEMMA HookWritesInv ==
  ASSUME CallInv, NEW h \in Hooks, HookWrites(h)
  PROVE  CallInv'
  <1>1. PICK e \in Events, seen \in SeenRows : e = hook[h].event /\ seen = hook[h].seen
    BY DEF CallInv, CallTypes, HookRows
  <1>2. /\ CallTypes /\ hook' = [hook EXCEPT ![h] = NoHook] /\ call \in CallRows
        /\ hook \in [Hooks -> HookRows] /\ blind \in {"no", "yes"}
        /\ UNCHANGED <<dial, reported, hooks, writing, met>>
    BY DEF CallInv, CallTypes, HookWrites
  <1>3. /\ hook' \in [Hooks -> HookRows] /\ StampsOf(e) \subseteq Events
        /\ StatusOf[e] \in {"RINGING", "ANSWERED", "COMPLETED"}
    BY <1>2, NoCallIs, EventsAre
  <1>4. CASE /\ seen.made = "yes" /\ Handled(e)
             /\ call' = [call EXCEPT !.status = StatusOf[e],
                                     !.stamps = seen.stamps \union StampsOf(e)]
             /\ blind' = IF seen.stamps # call.stamps THEN "yes" ELSE blind
    <2> DEFINE row == [call EXCEPT !.status = StatusOf[e],
                                   !.stamps = seen.stamps \union StampsOf(e)]
    <2>1. /\ row \in CallRows /\ row.status = StatusOf[e]
          /\ row.stamps = seen.stamps \union StampsOf(e)
          /\ row.transcription = call.transcription /\ row.text = call.text /\ call' = row
      BY <1>2, <1>3, <1>4 DEF CallRows, SeenRows
    <2> HIDE DEF row
    <2>2. /\ blind' \in {"no", "yes"}
          /\ blind' = "no" => row.stamps = call.stamps \union StampsOf(e) /\ blind = "no"
      BY <1>2, <1>4, <2>1
    <2> QED
      BY <1>2, <1>3, <1>4, <2>1, <2>2, EventReachesInv
  <1>5. CASE /\ seen.made = "no" /\ call = NoCall /\ Handled(e) /\ UNCHANGED blind
             /\ call' = [NoCall EXCEPT !.status = StatusOf[e], !.stamps = StampsOf(e)]
    <2> DEFINE row == [call EXCEPT !.status = StatusOf[e], !.stamps = StampsOf(e)]
    <2>1. /\ row \in CallRows /\ row.status = StatusOf[e]
          /\ row.stamps = StampsOf(e) /\ call.stamps = {}
          /\ row.transcription = call.transcription /\ row.text = call.text /\ call' = row
      BY <1>2, <1>3, <1>5, NoCallIs DEF CallRows
    <2> HIDE DEF row
    <2>2. /\ blind' \in {"no", "yes"}
          /\ blind' = "no" => row.stamps = call.stamps \union StampsOf(e) /\ blind = "no"
      BY <1>2, <1>5, <2>1
    <2> QED
      BY <1>2, <1>3, <1>5, <2>1, <2>2, EventReachesInv
  <1>6. CASE UNCHANGED <<call, handled, blind, backwards>>
    BY <1>2, <1>3, <1>6, RowRestsInv DEF CallTypes
  <1> QED
    BY <1>1, <1>4, <1>5, <1>6 DEF HookWrites, Stamped

\* A transcription begins, ends or is cut off: the rest of the row stays.
LEMMA TranscriptionGoesInv ==
  ASSUME CallInv, NEW row \in CallRows, call' = row,
         row.status = call.status, row.stamps = call.stamps,
         call.status # "none" \/ (row = call /\ writing' = {}),
         writing' \subseteq {"cron", "user"}, met' \in {"no", "yes"}, OneTranscription',
         UNCHANGED <<dial, reported, hook, hooks, handled, blind, backwards>>
  PROVE  CallInv'
  <1>1. CallTypes'
    BY DEF CallInv, CallTypes
  <1>2. NotMadeYet' /\ CallTellsItsStory'
    BY DEF CallInv, NotMadeYet, CallTellsItsStory
  <1> QED
    BY <1>1, <1>2 DEF CallInv

LEMMA TranscriptionInv ==
  ASSUME CallInv, NEW by \in {"cron", "user"}, StartTranscription(by) \/ EndTranscription(by)
  PROVE  CallInv'
  <1>1. /\ call \in CallRows /\ writing \subseteq {"cron", "user"} /\ met \in {"no", "yes"}
        /\ OneTranscription
        /\ UNCHANGED <<dial, reported, hook, hooks, handled, blind, backwards>>
    BY DEF CallInv, CallTypes, StartTranscription, EndTranscription
  <1>2. CASE StartTranscription(by)
    <2> DEFINE row == [call EXCEPT !.transcription = "RUNNING"]
    <2>1. /\ row \in CallRows /\ row.status = call.status /\ row.stamps = call.stamps
          /\ row.transcription = "RUNNING" /\ call' = row /\ "ended" \in call.stamps
          /\ writing' = writing \union {by}
          /\ met' = IF writing # {} THEN "yes" ELSE met
      BY <1>1, <1>2 DEF CallRows, StartTranscription, MayTranscribe
    <2> HIDE DEF row
    <2>2. call.status # "none"
      BY <2>1, NoCallIs DEF CallInv, NotMadeYet
    <2>3. OneTranscription'
      BY <1>1, <2>1 DEF OneTranscription
    <2>4. writing' \subseteq {"cron", "user"} /\ met' \in {"no", "yes"}
      BY <1>1, <2>1
    <2> QED
      BY <1>1, <2>1, <2>2, <2>3, <2>4, TranscriptionGoesInv
  <1>3. CASE EndTranscription(by)
    <2>1. by \in writing /\ writing' = writing \ {by} /\ UNCHANGED met
      BY <1>3 DEF EndTranscription
    <2>2. PICK row \in CallRows : /\ call' = row /\ row.status = call.status
                                  /\ row.stamps = call.stamps
                                  /\ row.transcription \in {"DONE", "FAILED"}
                                  /\ row.transcription = "DONE" => row.text = "yes"
      <3>1. CASE call' = [call EXCEPT !.transcription = "DONE", !.text = "yes"]
        <4> DEFINE row == [call EXCEPT !.transcription = "DONE", !.text = "yes"]
        <4>1. /\ row \in CallRows /\ row.status = call.status /\ row.stamps = call.stamps
              /\ row.transcription = "DONE" /\ row.text = "yes" /\ call' = row
          BY <1>1, <3>1 DEF CallRows
        <4> QED
          BY <4>1
      <3>2. CASE call' = [call EXCEPT !.transcription = "FAILED"]
        BY <1>1, <3>2 DEF CallRows
      <3> QED
        BY <1>3, <3>1, <3>2 DEF EndTranscription
    <2>3. OneTranscription'
      BY <1>1, <2>1, <2>2 DEF OneTranscription
    <2>4. writing' \subseteq {"cron", "user"} /\ met' \in {"no", "yes"}
      BY <1>1, <2>1
    <2>5. call.status # "none"
      BY <2>1 DEF CallInv, NotMadeYet
    <2> QED
      BY <1>1, <2>2, <2>3, <2>4, <2>5, TranscriptionGoesInv
  <1> QED
    BY <1>2, <1>3

LEMMA StopTranscriptionInv ==
  ASSUME CallInv, StopTranscription
  PROVE  CallInv'
  <1>1. /\ call \in CallRows /\ writing' = {} /\ met' = "yes" /\ UNCHANGED call
        /\ UNCHANGED <<dial, reported, hook, hooks, handled, blind, backwards>>
    BY DEF CallInv, CallTypes, StopTranscription
  <1>2. OneTranscription' /\ writing' \subseteq {"cron", "user"} /\ met' \in {"no", "yes"}
    BY <1>1 DEF OneTranscription
  <1> QED
    BY <1>1, <1>2, TranscriptionGoesInv

LEMMA CallStepInv == CallInv /\ [CallNext]_callVars => CallInv'
  <1> SUFFICES ASSUME CallInv, [CallNext]_callVars PROVE CallInv'
    OBVIOUS
  <1>1. CASE UNCHANGED callVars
    BY <1>1 DEF callVars, CallInv, CallTypes, NotMadeYet, OneTranscription, CallTellsItsStory
  <1> QED
    BY <1>1, CallRestsInv, LogCallInv, HookWritesInv, TranscriptionInv, StopTranscriptionInv
    DEF CallNext

LEMMA CallsHold == CallInv => CallTellsItsStory /\ TranscriptionIsTold
  BY DEF CallInv, OneTranscription, TranscriptionIsTold

-----------------------------------------------------------------------------
(***************************************************************************)
(* One ticket and those who work on it.  What a request has read of the    *)
(* dates is still true of the ticket, as none of them is taken back but by *)
(* hand (DatesStay); until two answers overlap, the one that is under way  *)
(* has read the first response there is (FirstIsKept).  Each mail of the   *)
(* survey that is still to go again was asked for (OneSurvey).             *)
(***************************************************************************)
DeskOps    == DeskStatuses \union {"dates"} \union Said
Surveys    == [looking : Nat, making : Nat, remaking : Nat, there : {"no", "yes"},
               submitted : {"no", "yes"}, mails : Nat, again : Nat]
TicketRows == [status : DeskStatuses \union {"IN_PROGRESS"}, resolved : {"no", "yes"},
               closed : {"no", "yes"}, first : Nat]
DeskRows   == [at : {"idle", "write", "add", "stamp", "progress"}, op : DeskOps,
               read : TicketRows, mine : Nat]

DeskTypes ==
    /\ ticket \in TicketRows /\ answers \in Nat /\ desk \in [Desks -> DeskRows]
    /\ survey \in Surveys
    /\ answered \subseteq 1..answers /\ ("first" \notin dated => ticket.first <= answers)
    /\ \A d \in Desks :
          /\ desk[d].at = "write" => desk[d].op \in DeskStatuses \union {"dates"}
          /\ desk[d].at = "add" => desk[d].mine = 0
          /\ desk[d].at = "stamp" => desk[d].op = "answer" /\ desk[d].mine \in 1..answers
          /\ desk[d].at = "progress" /\ desk[d].mine # 0 =>
                desk[d].op = "answer" /\ desk[d].mine \in 1..answers

DatesStay ==
    /\ "closed" \notin dated =>
         \A d \in Desks : desk[d].read.closed = "yes" => ticket.closed = "yes"
    /\ "closed" \notin dated /\ "resolved" \notin dated =>
         /\ ticket.closed = "yes" => ticket.resolved = "yes"
         /\ \A d \in Desks : /\ desk[d].read.closed = "yes" => desk[d].read.resolved = "yes"
                             /\ desk[d].read.resolved = "yes" => ticket.resolved = "yes"

StatusIsDated ==
    bulked = "no" /\ "closed" \notin dated =>
      /\ ticket.status \in {"RESOLVED", "CLOSED"} /\ "resolved" \notin dated =>
            ticket.resolved = "yes"
      /\ ticket.status = "CLOSED" => ticket.closed = "yes"

Answering(d) == desk[d].at \in {"add", "stamp", "progress"} /\ desk[d].op = "answer"

FirstIsKept ==
    mingled = "no" /\ "first" \notin dated =>
       /\ \A d, e \in Desks : Answering(d) /\ Answering(e) => d = e
       /\ \A d \in Desks : Answering(d) =>
             /\ desk[d].at # "progress" => ticket.first = desk[d].read.first
             /\ desk[d].at = "stamp" => desk[d].mine = answers
             /\ desk[d].at = "progress" => ticket.first \in 1..desk[d].mine
       /\ \A n \in answered : ticket.first \in 1..n

OneSurvey == /\ survey.mails + survey.remaking <= 1 + survey.again
             /\ survey.there = "no" => survey.mails = 0 /\ survey.remaking = 0

DeskInv == DeskTypes /\ DatesStay /\ StatusIsDated /\ FirstIsKept /\ OneSurvey

LEMMA NewTicketIs ==
  /\ NewTicket \in TicketRows /\ NewTicket.first = 0 /\ NewTicket.closed = "no"
  /\ NewTicket.resolved = "no" /\ NewTicket.status = "OPEN"
  /\ NoDesk \in DeskRows /\ NoDesk.at = "idle" /\ NoDesk.read = NewTicket
  BY DeskAssumption DEF NewTicket, TicketRows, NoDesk, DeskRows, DeskOps, Said

LEMMA DeskInitInv == DeskInit => DeskInv
  <1> SUFFICES ASSUME DeskInit PROVE DeskInv
    OBVIOUS
  <1>1. /\ ticket \in TicketRows /\ ticket.closed = "no" /\ ticket.first = 0
        /\ bulked = "no" => ticket.status \notin {"RESOLVED", "CLOSED"}
        /\ answers = 0 /\ answered = {} /\ \A d \in Desks : desk[d] = NoDesk
        /\ desk \in [Desks -> DeskRows]
        /\ survey \in Surveys /\ survey.mails = 0 /\ survey.remaking = 0 /\ survey.again = 0
    BY NewTicketIs DEF DeskInit, TicketRows, Surveys, NewTicket
  <1>2. DeskTypes
    BY <1>1, NewTicketIs DEF DeskTypes
  <1>3. DatesStay /\ StatusIsDated /\ OneSurvey
    BY <1>1, NewTicketIs DEF DatesStay, StatusIsDated, OneSurvey
  <1>4. FirstIsKept
    BY <1>1, NewTicketIs DEF FirstIsKept, Answering
  <1> QED
    BY <1>2, <1>3, <1>4 DEF DeskInv

LEMMA ReadTicketInv ==
  ASSUME DeskInv, NEW d \in Desks, NEW op \in DeskOps, ReadTicket(d, op)
  PROVE  DeskInv'
  <1> DEFINE v == [at |-> IF op \in Said THEN "add" ELSE "write", op |-> op,
                   read |-> ticket, mine |-> 0]
  <1>1. /\ desk \in [Desks -> DeskRows] /\ ticket \in TicketRows /\ desk[d].at = "idle"
        /\ desk' = [desk EXCEPT ![d] = v]
        /\ UNCHANGED <<ticket, answers, survey, answered, bulked, dated>>
        /\ mingled' = IF op = "answer"
                           /\ \E e \in Desks : desk[e].at # "idle" /\ desk[e].op = "answer"
                      THEN "yes" ELSE mingled
    BY DEF DeskInv, DeskTypes, ReadTicket
  <1>2. /\ v \in DeskRows /\ v.read = ticket /\ v.mine = 0 /\ v.op = op
        /\ v.at = IF op \in Said THEN "add" ELSE "write"
    BY <1>1 DEF DeskRows
  <1> HIDE DEF v
  <1>3. desk'[d] = v /\ \A e \in Desks \ {d} : desk'[e] = desk[e]
    BY <1>1
  <1>4. DeskTypes'
    <2>1. op \in Said \/ op \in DeskStatuses \union {"dates"}
      BY DEF DeskOps
    <2> QED
      BY <1>1, <1>2, <1>3, <2>1 DEF DeskInv, DeskTypes
  <1>5. DatesStay' /\ StatusIsDated' /\ OneSurvey'
    BY <1>1, <1>2, <1>3 DEF DeskInv, DatesStay, StatusIsDated, OneSurvey
  <1>6. FirstIsKept'
    <2> SUFFICES ASSUME mingled' = "no", "first" \notin dated' PROVE FirstIsKept'
      BY DEF FirstIsKept
    <2>1. mingled = "no" /\ "first" \notin dated /\ FirstIsKept
      BY <1>1 DEF DeskInv
    <2>2. \A e \in Desks \ {d} : Answering(e)' = Answering(e)
      BY <1>3 DEF Answering
    <2>3. Answering(d)' => \A e \in Desks \ {d} : ~Answering(e)
      BY <1>1, <1>2, <1>3 DEF Answering
    <2>4. Answering(d)' => desk'[d].at = "add" /\ ticket'.first = desk'[d].read.first
      BY <1>1, <1>2, <1>3 DEF Answering
    <2>5. \A e \in Desks \ {d} : Answering(e)' =>
             /\ desk'[e].at # "progress" => ticket'.first = desk'[e].read.first
             /\ desk'[e].at = "stamp" => desk'[e].mine = answers'
             /\ desk'[e].at = "progress" => ticket'.first \in 1..desk'[e].mine
      BY <1>1, <1>3, <2>1, <2>2 DEF FirstIsKept
    <2>6. \A e, f \in Desks : Answering(e)' /\ Answering(f)' => e = f
      BY <2>1, <2>2, <2>3 DEF FirstIsKept
    <2>7. \A n \in answered' : ticket'.first \in 1..n
      BY <1>1, <2>1 DEF FirstIsKept
    <2> QED
      BY <2>4, <2>5, <2>6, <2>7 DEF FirstIsKept
  <1> QED
    BY <1>4, <1>5, <1>6 DEF DeskInv

\* A request that leaves, and what its last write did to the ticket.
LEMMA DeskLeavesInv ==
  ASSUME DeskInv, NEW d \in Desks, LeaveDesk(d), NEW t \in TicketRows, ticket' = t,
         dated \subseteq dated', "first" \notin dated' => t.first = ticket.first,
         "closed" \notin dated' => (ticket.closed = "yes" => t.closed = "yes"),
         "closed" \notin dated' /\ "resolved" \notin dated' =>
           /\ ticket.resolved = "yes" => t.resolved = "yes"
           /\ t.closed = "yes" => t.resolved = "yes",
         StatusIsDated',
         answered' = answered \/ (/\ answered' = answered \union ({desk[d].mine} \ {0})
                                  /\ desk[d].at = "progress"),
         survey' \in Surveys, survey'.mails = survey.mails, survey'.there = survey.there,
         survey'.remaking = survey.remaking, survey'.again = survey.again,
         UNCHANGED <<answers, mingled>>
  PROVE  DeskInv'
  <1>1. /\ desk \in [Desks -> DeskRows] /\ desk' = [desk EXCEPT ![d] = NoDesk] /\ DeskTypes
        /\ answers \in Nat
    BY DEF DeskInv, DeskTypes, LeaveDesk
  <1>2. desk'[d] = NoDesk /\ \A e \in Desks \ {d} : desk'[e] = desk[e]
    BY <1>1
  <1>3. answered' \subseteq 1..answers
    BY <1>1 DEF DeskTypes
  <1>4. DeskTypes'
    BY <1>1, <1>2, <1>3, NewTicketIs DEF DeskTypes
  <1>5. DatesStay'
    BY <1>2, NewTicketIs DEF DeskInv, DatesStay
  <1>6. OneSurvey'
    BY DEF DeskInv, OneSurvey
  <1>7. ASSUME mingled = "no", "first" \notin dated' PROVE FirstIsKept'
    <2>1. FirstIsKept
      BY DEF DeskInv
    <2>2. ~Answering(d)' /\ \A e \in Desks \ {d} : Answering(e)' = Answering(e)
      BY <1>2, NewTicketIs DEF Answering
    <2>3. ASSUME NEW n \in answered' PROVE ticket'.first \in 1..n
      <3>1. CASE n \in answered
        BY <1>7, <2>1, <3>1 DEF FirstIsKept
      <3>2. CASE n \notin answered
        <4>1. n = desk[d].mine /\ desk[d].at = "progress" /\ n # 0
          BY <2>3, <3>2
        <4>2. Answering(d)
          BY <1>1, <4>1 DEF DeskTypes, Answering
        <4> QED
          BY <1>7, <2>1, <4>1, <4>2 DEF FirstIsKept
      <3> QED
        BY <3>1, <3>2
    <2>4. \A e \in Desks \ {d} : Answering(e)' =>
             /\ desk'[e].at # "progress" => ticket'.first = desk'[e].read.first
             /\ desk'[e].at = "stamp" => desk'[e].mine = answers'
             /\ desk'[e].at = "progress" => ticket'.first \in 1..desk'[e].mine
      BY <1>2, <1>7, <2>1, <2>2 DEF FirstIsKept
    <2>5. \A e, f \in Desks : Answering(e)' /\ Answering(f)' => e = f
      BY <1>7, <2>1, <2>2 DEF FirstIsKept
    <2> QED
      BY <2>2, <2>3, <2>4, <2>5 DEF FirstIsKept
  <1> QED
    BY <1>4, <1>5, <1>6, <1>7 DEF DeskInv, FirstIsKept

LEMMA DeskTypesAre ==
  ASSUME DeskInv, NEW d \in Desks
  PROVE  /\ ticket \in TicketRows /\ desk[d] \in DeskRows /\ desk[d].read \in TicketRows
         /\ survey \in Surveys /\ desk \in [Desks -> DeskRows]
         /\ desk[d].at = "write" => desk[d].op \in DeskStatuses \union {"dates"}
  <1>1. desk[d] \in DeskRows /\ ticket \in TicketRows
    BY DEF DeskInv, DeskTypes
  <1> QED
    BY <1>1 DEF DeskInv, DeskTypes, DeskRows

\* A date that is written by hand is one column of the ticket.
LEMMA RedatedIs ==
  ASSUME ticket \in TicketRows, NEW given \in Dates \union {"none"}, NEW date \in {"no", "yes"}
  PROVE  /\ Redated(given, date) \in TicketRows
         /\ Redated(given, date).status = ticket.status
         /\ given # "first" => Redated(given, date).first = ticket.first
         /\ given # "resolved" => Redated(given, date).resolved = ticket.resolved
         /\ given # "closed" => Redated(given, date).closed = ticket.closed
  <1>1. ByHand \in Nat
    BY DeskAssumption DEF ByHand
  <1>2. CASE given = "first"
    <2>1. PICK n \in Nat : n = IF date = "yes" THEN ByHand ELSE 0
      BY <1>1
    <2>2. Redated(given, date) = [ticket EXCEPT !.first = n]
      BY <1>2, <2>1 DEF Redated, Dates
    <2> QED
      BY <1>2, <2>2 DEF TicketRows
  <1>3. CASE given = "resolved"
    <2>1. Redated(given, date) = [ticket EXCEPT !.resolved = date]
      BY <1>3 DEF Redated, Dates
    <2> QED
      BY <1>3, <2>1 DEF TicketRows
  <1>4. CASE given = "closed"
    <2>1. Redated(given, date) = [ticket EXCEPT !.closed = date]
      BY <1>4 DEF Redated, Dates
    <2> QED
      BY <1>4, <2>1 DEF TicketRows
  <1>5. CASE given = "none"
    BY <1>5 DEF Redated, Dates
  <1> QED
    BY <1>2, <1>3, <1>4, <1>5 DEF Dates

LEMMA UpdateTicketInv ==
  ASSUME DeskInv, NEW d \in Desks, UpdateTicket(d)
  PROVE  DeskInv'
  <1>1. PICK op \in DeskStatuses \union {"dates"}, read \in TicketRows :
          op = desk[d].op /\ read = desk[d].read
    BY DeskTypesAre DEF UpdateTicket
  <1>2. PICK given \in Dates \union {"none"}, date \in {"no", "yes"} :
          /\ ticket' = [Redated(given, date) EXCEPT
                          !.status = IF op \in DeskStatuses THEN op ELSE @,
                          !.resolved = IF Resolves(op, read) THEN "yes" ELSE @,
                          !.closed = IF Closes(op, read) THEN "yes" ELSE @]
          /\ dated' = dated \union ({given} \intersect Dates)
    BY <1>1 DEF UpdateTicket
  <1>3. /\ LeaveDesk(d) /\ UNCHANGED <<answers, answered, mingled, bulked>>
        /\ survey' = IF Resolves(op, read) /\ read.status # "RESOLVED"
                     THEN [survey EXCEPT !.looking = @ + 1] ELSE survey
    BY <1>1 DEF UpdateTicket
  <1>4. PICK o \in TicketRows :
          /\ o = Redated(given, date) /\ o.status = ticket.status
          /\ given # "first" => o.first = ticket.first
          /\ given # "resolved" => o.resolved = ticket.resolved
          /\ given # "closed" => o.closed = ticket.closed
    BY DeskTypesAre, RedatedIs
  <1>5. PICK t \in TicketRows :
          /\ ticket' = t /\ t.first = o.first
          /\ t.status = (IF op \in DeskStatuses THEN op ELSE ticket.status)
          /\ t.resolved = (IF Resolves(op, read) THEN "yes" ELSE o.resolved)
          /\ t.closed = (IF Closes(op, read) THEN "yes" ELSE o.closed)
    <2> DEFINE t == [o EXCEPT !.status = IF op \in DeskStatuses THEN op ELSE @,
                              !.resolved = IF Resolves(op, read) THEN "yes" ELSE @,
                              !.closed = IF Closes(op, read) THEN "yes" ELSE @]
    <2>1. /\ t \in TicketRows /\ t.first = o.first
          /\ t.status = (IF op \in DeskStatuses THEN op ELSE ticket.status)
          /\ t.resolved = (IF Resolves(op, read) THEN "yes" ELSE o.resolved)
          /\ t.closed = (IF Closes(op, read) THEN "yes" ELSE o.closed)
      BY <1>4 DEF TicketRows
    <2> QED
      BY <1>2, <1>4, <2>1
  <1>6. /\ dated \subseteq dated'
        /\ "first" \notin dated' => given # "first"
        /\ "resolved" \notin dated' => given # "resolved" /\ "resolved" \notin dated
        /\ "closed" \notin dated' => given # "closed" /\ "closed" \notin dated
    BY <1>2 DEF Dates
  <1>7. read.closed \in {"no", "yes"} /\ read.resolved \in {"no", "yes"}
    BY DEF TicketRows
  <1>8. ASSUME "closed" \notin dated'
        PROVE  /\ ticket.closed = "yes" => t.closed = "yes"
               /\ op = "CLOSED" => t.closed = "yes"
    <2>1. read.closed = "yes" => ticket.closed = "yes"
      BY <1>1, <1>6, <1>8 DEF DeskInv, DatesStay
    <2> QED
      BY <1>4, <1>5, <1>6, <1>7, <1>8, <2>1 DEF Closes
  <1>9. ASSUME "closed" \notin dated', "resolved" \notin dated'
        PROVE  /\ ticket.resolved = "yes" => t.resolved = "yes"
               /\ t.closed = "yes" => t.resolved = "yes"
               /\ op \in {"RESOLVED", "CLOSED"} => t.resolved = "yes"
    <2>1. /\ read.closed = "yes" => read.resolved = "yes"
          /\ read.resolved = "yes" => ticket.resolved = "yes"
          /\ ticket.closed = "yes" => ticket.resolved = "yes"
      BY <1>1, <1>6, <1>9 DEF DeskInv, DatesStay
    <2>2. ticket.resolved = "yes" => t.resolved = "yes"
      BY <1>4, <1>5, <1>6, <1>9
    <2>3. op \in {"RESOLVED", "CLOSED"} => t.resolved = "yes"
      BY <1>5, <1>7, <2>1, <2>2 DEF Resolves
    <2>4. t.closed = "yes" => op = "CLOSED" \/ ticket.closed = "yes"
      BY <1>4, <1>5, <1>6, <1>9 DEF Closes
    <2> QED
      BY <2>1, <2>2, <2>3, <2>4
  <1>10. StatusIsDated'
    <2>1. bulked' = bulked /\ ticket' = t
      BY <1>3, <1>5
    <2>2. CASE t.status = op
      BY <1>8, <1>9, <2>1, <2>2 DEF StatusIsDated
    <2>3. CASE t.status = ticket.status
      BY <1>6, <1>8, <1>9, <2>1, <2>3 DEF DeskInv, StatusIsDated
    <2> QED
      BY <1>5, <2>2, <2>3
  <1>11. /\ survey' \in Surveys /\ survey'.mails = survey.mails /\ survey'.there = survey.there
         /\ survey'.remaking = survey.remaking /\ survey'.again = survey.again
    <2>1. survey.looking + 1 \in Nat /\ survey \in Surveys
      BY DeskTypesAre DEF Surveys
    <2> QED
      BY <1>3, <2>1 DEF Surveys
  <1>12. "first" \notin dated' => t.first = ticket.first
    BY <1>4, <1>5, <1>6
  <1> QED
    BY <1>3, <1>5, <1>6, <1>8, <1>9, <1>10, <1>11, <1>12, DeskLeavesInv

LEMMA TakeUpInv ==
  ASSUME DeskInv, NEW d \in Desks, TakeUp(d) \/ DeskDies(d)
  PROVE  DeskInv'
  <1>1. PICK t \in TicketRows :
          /\ ticket' = t /\ t.first = ticket.first /\ t.resolved = ticket.resolved
          /\ t.closed = ticket.closed /\ t.status \in {ticket.status, "IN_PROGRESS"}
    <2>1. CASE DeskDies(d)
      BY <2>1, DeskTypesAre DEF DeskDies
    <2>2. CASE TakeUp(d)
      <3> DEFINE t == [ticket EXCEPT !.status = IF TakesUp(d) THEN "IN_PROGRESS" ELSE ticket.status]
      <3>1. /\ t \in TicketRows /\ ticket' = t /\ t.first = ticket.first
            /\ t.resolved = ticket.resolved /\ t.closed = ticket.closed
            /\ t.status \in {ticket.status, "IN_PROGRESS"}
        BY <2>2, DeskTypesAre DEF TakeUp, TicketRows
      <3> QED
        BY <3>1
    <2> QED
      BY <2>1, <2>2
  <1>2. /\ LeaveDesk(d) /\ UNCHANGED <<answers, mingled, survey, bulked, dated>>
        /\ \/ answered' = answered
           \/ /\ answered' = answered \union ({desk[d].mine} \ {0})
              /\ desk[d].at = "progress"
    BY DEF TakeUp, DeskDies
  <1>3. StatusIsDated'
    BY <1>1, <1>2 DEF DeskInv, StatusIsDated
  <1>4. /\ "closed" \notin dated /\ "resolved" \notin dated =>
             (t.closed = "yes" => t.resolved = "yes")
        /\ survey' \in Surveys
    BY <1>1, <1>2, DeskTypesAre DEF DeskInv, DatesStay
  <1> QED
    BY <1>1, <1>2, <1>3, <1>4, DeskLeavesInv

LEMMA AddMessageInv ==
  ASSUME DeskInv, NEW d \in Desks, AddMessage(d)
  PROVE  DeskInv'
  <1>1. /\ desk \in [Desks -> DeskRows] /\ desk[d] \in DeskRows /\ desk[d].at = "add" /\ DeskTypes
        /\ answers \in Nat /\ desk[d].mine = 0
        /\ UNCHANGED <<ticket, survey, answered, mingled, bulked, dated>>
    BY DEF DeskInv, DeskTypes, AddMessage
  <1>2. PICK v \in DeskRows :
          /\ desk' = [desk EXCEPT ![d] = v] /\ v.read = desk[d].read /\ v.op = desk[d].op
          /\ \/ v.op = "answer" /\ answers' = answers + 1 /\ v.at = "stamp" /\ v.mine = answers'
             \/ v.op # "answer" /\ answers' = answers /\ v.at = "progress" /\ v.mine = 0
    <2>1. CASE desk[d].op = "answer"
      <3>1. PICK n \in Nat : n = answers + 1
        BY <1>1
      <3> DEFINE v == [desk[d] EXCEPT !.at = "stamp", !.mine = n]
      <3>2. answers' = n /\ desk' = [desk EXCEPT ![d] = v]
        BY <2>1, <3>1 DEF AddMessage
      <3>3. v \in DeskRows /\ v.read = desk[d].read /\ v.op = desk[d].op /\ v.at = "stamp"
            /\ v.mine = n
        BY <1>1 DEF DeskRows
      <3> QED
        BY <2>1, <3>1, <3>2, <3>3
    <2>2. CASE desk[d].op # "answer"
      <3> DEFINE v == [desk[d] EXCEPT !.at = "progress"]
      <3>1. answers' = answers /\ desk' = [desk EXCEPT ![d] = v]
        BY <2>2 DEF AddMessage
      <3>2. v \in DeskRows /\ v.read = desk[d].read /\ v.op = desk[d].op /\ v.at = "progress"
            /\ v.mine = 0
        BY <1>1 DEF DeskRows
      <3> QED
        BY <2>2, <3>1, <3>2
    <2> QED
      BY <2>1, <2>2
  <1>3. desk'[d] = v /\ \A e \in Desks \ {d} : desk'[e] = desk[e]
    BY <1>1, <1>2
  <1>4. answers' \in Nat /\ answers <= answers' /\ answers' \in {answers, answers + 1}
    BY <1>1, <1>2
  <1>5. DeskTypes'
    <2>1. /\ answered' \subseteq 1..answers'
          /\ "first" \notin dated' => ticket'.first <= answers'
      BY <1>1, <1>4 DEF DeskTypes, TicketRows
    <2>2. \A e \in Desks \ {d} :
            /\ desk'[e].at = "write" => desk'[e].op \in DeskStatuses \union {"dates"}
            /\ desk'[e].at = "add" => desk'[e].mine = 0
            /\ desk'[e].at = "stamp" => desk'[e].op = "answer" /\ desk'[e].mine \in 1..answers'
            /\ desk'[e].at = "progress" /\ desk'[e].mine # 0 =>
                  desk'[e].op = "answer" /\ desk'[e].mine \in 1..answers'
      <3> SUFFICES ASSUME NEW e \in Desks \ {d}
                   PROVE  /\ desk[e].at = "write" => desk[e].op \in DeskStatuses \union {"dates"}
                          /\ desk[e].at = "add" => desk[e].mine = 0
                          /\ desk[e].at = "stamp" => desk[e].op = "answer"
                                                     /\ desk[e].mine \in 1..answers'
                          /\ desk[e].at = "progress" /\ desk[e].mine # 0 =>
                                desk[e].op = "answer" /\ desk[e].mine \in 1..answers'
        BY <1>3
      <3>1. desk[e].mine \in 1..answers => desk[e].mine \in 1..answers'
        BY <1>1, <1>4
      <3> QED
        BY <1>1, <3>1 DEF DeskTypes
    <2>3. /\ v.at # "write" /\ v.at # "add"
          /\ v.at = "stamp" => v.op = "answer" /\ v.mine \in 1..answers'
          /\ v.at = "progress" => v.mine = 0
      BY <1>1, <1>2
    <2>4. desk' \in [Desks -> DeskRows]
      BY <1>1, <1>2
    <2>5. \A e \in Desks :
            /\ desk'[e].at = "write" => desk'[e].op \in DeskStatuses \union {"dates"}
            /\ desk'[e].at = "add" => desk'[e].mine = 0
            /\ desk'[e].at = "stamp" => desk'[e].op = "answer" /\ desk'[e].mine \in 1..answers'
            /\ desk'[e].at = "progress" /\ desk'[e].mine # 0 =>
                  desk'[e].op = "answer" /\ desk'[e].mine \in 1..answers'
      <3> SUFFICES ASSUME NEW e \in Desks
                   PROVE  /\ desk'[e].at = "write" => desk'[e].op \in DeskStatuses \union {"dates"}
                          /\ desk'[e].at = "add" => desk'[e].mine = 0
                          /\ desk'[e].at = "stamp" => desk'[e].op = "answer"
                                                      /\ desk'[e].mine \in 1..answers'
                          /\ desk'[e].at = "progress" /\ desk'[e].mine # 0 =>
                                desk'[e].op = "answer" /\ desk'[e].mine \in 1..answers'
        OBVIOUS
      <3>1. CASE e = d
        BY <1>3, <2>3, <3>1
      <3>2. CASE e # d
        BY <2>2, <3>2
      <3> QED
        BY <3>1, <3>2
    <2>6. ticket' \in TicketRows /\ UNCHANGED survey
          /\ survey \in Surveys
      BY <1>1 DEF DeskTypes
    <2> QED
      BY <1>4, <2>1, <2>4, <2>5, <2>6 DEF DeskTypes
  <1>6. DatesStay' /\ StatusIsDated' /\ OneSurvey'
    BY <1>1, <1>2, <1>3 DEF DeskInv, DatesStay, StatusIsDated, OneSurvey
  <1>7. ASSUME mingled = "no", "first" \notin dated PROVE FirstIsKept'
    <2>1. FirstIsKept
      BY DEF DeskInv
    <2>2. /\ \A e \in Desks \ {d} : Answering(e)' = Answering(e)
          /\ Answering(d)' => Answering(d)
      BY <1>1, <1>2, <1>3 DEF Answering
    <2>3. \A e, f \in Desks : Answering(e)' /\ Answering(f)' => e = f
      BY <1>7, <2>1, <2>2 DEF FirstIsKept
    <2>4. ASSUME NEW e \in Desks, Answering(e)'
          PROVE  /\ desk'[e].at # "progress" => ticket'.first = desk'[e].read.first
                 /\ desk'[e].at = "stamp" => desk'[e].mine = answers'
                 /\ desk'[e].at = "progress" => ticket'.first \in 1..desk'[e].mine
      <3>1. CASE e = d
        <4>1. Answering(d) /\ v.op = "answer"
          BY <1>2, <1>3, <2>2, <2>4, <3>1 DEF Answering
        <4>2. ticket.first = desk[d].read.first
          BY <1>1, <1>7, <2>1, <4>1 DEF FirstIsKept
        <4> QED
          BY <1>1, <1>2, <1>3, <3>1, <4>1, <4>2
      <3>2. CASE e # d
        <4>1. Answering(e) /\ ~Answering(d)
          BY <1>7, <2>1, <2>2, <2>4, <3>2 DEF FirstIsKept
        <4>2. answers' = answers
          BY <1>1, <1>2, <4>1 DEF Answering
        <4> QED
          BY <1>1, <1>3, <1>7, <2>1, <3>2, <4>1, <4>2 DEF FirstIsKept
      <3> QED
        BY <3>1, <3>2
    <2>5. \A n \in answered' : ticket'.first \in 1..n
      BY <1>1, <1>7, <2>1 DEF FirstIsKept
    <2> QED
      BY <2>3, <2>4, <2>5 DEF FirstIsKept
  <1> QED
    BY <1>1, <1>5, <1>6, <1>7 DEF DeskInv, FirstIsKept

LEMMA StampResponseInv ==
  ASSUME DeskInv, NEW d \in Desks, StampResponse(d)
  PROVE  DeskInv'
  <1> DEFINE v == [desk[d] EXCEPT !.at = "progress"]
             t == [ticket EXCEPT !.first = IF desk[d].read.first = 0 THEN desk[d].mine
                                           ELSE ticket.first]
  <1>1. /\ desk \in [Desks -> DeskRows] /\ desk[d] \in DeskRows /\ desk[d].at = "stamp" /\ DeskTypes
        /\ answers \in Nat /\ desk[d].op = "answer" /\ desk[d].mine \in 1..answers
        /\ ticket \in TicketRows /\ ticket.first \in Nat
        /\ "first" \notin dated => ticket.first <= answers
        /\ answered \subseteq 1..answers
    BY DEF DeskInv, DeskTypes, StampResponse, TicketRows
  <1>2. /\ desk' = [desk EXCEPT ![d] = v] /\ ticket' = t
        /\ UNCHANGED <<answers, survey, answered, mingled, bulked, dated>>
    BY DEF StampResponse, IsFirst
  <1>3. /\ v \in DeskRows /\ v.at = "progress" /\ v.op = "answer" /\ v.mine = desk[d].mine
        /\ v.read = desk[d].read
    BY <1>1 DEF DeskRows
  <1>4. /\ t \in TicketRows /\ t.status = ticket.status /\ t.closed = ticket.closed
        /\ t.resolved = ticket.resolved
        /\ "first" \notin dated => t.first <= answers
        /\ t.first = IF desk[d].read.first = 0 THEN desk[d].mine ELSE ticket.first
    BY <1>1 DEF TicketRows
  <1> HIDE DEF v, t
  <1>5. desk'[d] = v /\ \A e \in Desks \ {d} : desk'[e] = desk[e]
    BY <1>1, <1>2
  <1>6. DeskTypes'
    BY <1>1, <1>2, <1>3, <1>4, <1>5 DEF DeskTypes
  <1>7. DatesStay' /\ StatusIsDated' /\ OneSurvey'
    BY <1>2, <1>3, <1>4, <1>5 DEF DeskInv, DatesStay, StatusIsDated, OneSurvey
  <1>8. ASSUME mingled = "no", "first" \notin dated PROVE FirstIsKept'
    <2>1. FirstIsKept /\ Answering(d)
      BY <1>1 DEF DeskInv, Answering
    <2>2. ticket.first = desk[d].read.first /\ desk[d].mine = answers
      BY <1>1, <1>8, <2>1 DEF FirstIsKept
    <2>3. \A e \in Desks \ {d} : ~Answering(e) /\ ~Answering(e)'
      BY <1>5, <1>8, <2>1 DEF FirstIsKept, Answering
    <2>4. t.first \in 1..desk[d].mine
      BY <1>1, <1>4, <1>8, <2>2
    <2>5. ASSUME NEW n \in answered PROVE t.first \in 1..n
      BY <1>1, <1>4, <1>8, <2>1, <2>2 DEF FirstIsKept
    <2> QED
      BY <1>2, <1>3, <1>5, <2>3, <2>4, <2>5 DEF FirstIsKept
  <1> QED
    BY <1>2, <1>6, <1>7, <1>8 DEF DeskInv, FirstIsKept

LEMMA BulkUpdateInv ==
  ASSUME DeskInv, NEW status \in DeskStatuses, BulkUpdate(status)
  PROVE  DeskInv'
  <1>1. /\ ticket' \in TicketRows /\ ticket'.first = ticket.first /\ bulked' = "yes"
        /\ ticket'.closed = ticket.closed /\ ticket'.resolved = ticket.resolved
        /\ UNCHANGED <<answers, desk, survey, answered, mingled, dated>>
    BY DEF DeskInv, DeskTypes, BulkUpdate, TicketRows
  <1> QED
    BY <1>1 DEF DeskInv, DeskTypes, DatesStay, StatusIsDated, FirstIsKept, Answering, OneSurvey

\* The survey: what is sent, and what is still to go again, was asked for.
LEMMA SurveyInv ==
  ASSUME DeskInv,
         \/ LookForSurvey \/ MakeSurvey \/ RemakeSurvey \/ SubmitSurvey
         \/ \E force \in BOOLEAN : AskForSurvey(force)
  PROVE  DeskInv'
  <1> USE DEF Surveys
  <1>1. survey \in Surveys /\ OneSurvey
    BY DEF DeskInv, DeskTypes
  <1>2. /\ survey.looking + 1 \in Nat /\ survey.making + 1 \in Nat /\ survey.remaking + 1 \in Nat
        /\ survey.mails + 1 \in Nat /\ survey.again + 1 \in Nat
        /\ survey.looking > 0 => survey.looking - 1 \in Nat
        /\ survey.making > 0 => survey.making - 1 \in Nat
        /\ survey.remaking > 0 => survey.remaking - 1 \in Nat
    BY <1>1
  <1>3. survey' \in Surveys /\ OneSurvey'
    <2>1. CASE LookForSurvey
      <3>1. PICK n \in Nat : n = IF survey.there = "no" THEN survey.making + 1 ELSE survey.making
        BY <1>1, <1>2
      <3>2. survey' = [survey EXCEPT !.looking = survey.looking - 1, !.making = n]
        BY <2>1, <3>1 DEF LookForSurvey
      <3> QED
        BY <1>1, <1>2, <2>1, <3>2 DEF LookForSurvey, OneSurvey
    <2>2. CASE MakeSurvey
      <3>1. PICK n \in Nat : n = IF survey.there = "no" THEN survey.mails + 1 ELSE survey.mails
        BY <1>1, <1>2
      <3>2. survey' = [survey EXCEPT !.making = survey.making - 1, !.there = "yes", !.mails = n]
        BY <2>2, <3>1 DEF MakeSurvey, Makes
      <3>3. /\ survey' \in Surveys /\ survey'.mails = n /\ survey'.there = "yes"
            /\ survey'.remaking = survey.remaking /\ survey'.again = survey.again
        BY <1>1, <1>2, <2>2, <3>2 DEF MakeSurvey
      <3>4. n + survey.remaking <= 1 + survey.again
        BY <1>1, <3>1 DEF OneSurvey
      <3> QED
        BY <3>3, <3>4 DEF OneSurvey
    <2>3. CASE RemakeSurvey
      <3>1. survey' = [survey EXCEPT !.remaking = survey.remaking - 1, !.mails = survey.mails + 1]
        BY <2>3 DEF RemakeSurvey
      <3>2. /\ survey' \in Surveys /\ survey'.mails = survey.mails + 1
            /\ survey'.remaking = survey.remaking - 1
            /\ survey'.there = survey.there /\ survey'.again = survey.again
        BY <1>1, <1>2, <2>3, <3>1 DEF RemakeSurvey
      <3>3. survey.there # "no"
        BY <1>1, <2>3 DEF RemakeSurvey, OneSurvey
      <3>4. survey'.mails + survey'.remaking = survey.mails + survey.remaking
        BY <1>1, <3>2
      <3> QED
        BY <1>1, <3>2, <3>3, <3>4 DEF OneSurvey
    <2>4. CASE SubmitSurvey
      BY <1>1, <2>4 DEF SubmitSurvey, OneSurvey
    <2>5. CASE \E force \in BOOLEAN : AskForSurvey(force)
      <3>1. CASE survey' = [survey EXCEPT !.making = survey.making + 1]
        BY <1>1, <1>2, <3>1 DEF OneSurvey
      <3>2. CASE /\ survey.there = "yes"
                 /\ survey' = [survey EXCEPT !.remaking = survey.remaking + 1,
                                             !.again = survey.again + 1]
        <4>1. /\ survey' \in Surveys /\ survey'.mails = survey.mails
              /\ survey'.remaking = survey.remaking + 1
              /\ survey'.there = "yes" /\ survey'.again = survey.again + 1
          BY <1>1, <1>2, <3>2
        <4>2. survey'.mails + survey'.remaking <= 1 + survey'.again
          BY <1>1, <4>1 DEF OneSurvey
        <4> QED
          BY <4>1, <4>2 DEF OneSurvey
      <3> QED
        BY <2>5, <3>1, <3>2 DEF AskForSurvey
    <2> QED
      BY <2>1, <2>2, <2>3, <2>4, <2>5
  <1>4. UNCHANGED <<ticket, answers, desk, answered, mingled, bulked, dated>>
    BY DEF LookForSurvey, MakeSurvey, RemakeSurvey, SubmitSurvey, AskForSurvey
  <1> QED
    BY <1>3, <1>4 DEF DeskInv, DeskTypes, DatesStay, StatusIsDated, FirstIsKept, Answering

LEMMA DeskStepInv == DeskInv /\ [DeskNext]_deskVars => DeskInv'
  <1> SUFFICES ASSUME DeskInv, [DeskNext]_deskVars PROVE DeskInv'
    OBVIOUS
  <1>1. CASE UNCHANGED deskVars
    BY <1>1 DEF deskVars, DeskInv, DeskTypes, DatesStay, StatusIsDated, FirstIsKept, Answering,
                OneSurvey
  <1> QED
    BY <1>1, ReadTicketInv, UpdateTicketInv, TakeUpInv, AddMessageInv, StampResponseInv,
       BulkUpdateInv, SurveyInv
    DEF DeskNext, DeskOps

LEMMA DeskHolds == DeskInv => TicketTellsItsStory
  BY DEF DeskInv, DeskTypes, FirstIsKept, StatusIsDated, OneSurvey, Surveys, TicketTellsItsStory

-----------------------------------------------------------------------------
(***************************************************************************)
(* The way out of a mail.  What its row, the mailboxes and the caller know *)
(* goes with the place where the mail is (Story); until two tokens cross,  *)
(* one at most waits to be kept, and it is the last one (LastIsKept).      *)
(***************************************************************************)
Stages      == {"new", "agent", "renew", "keep", "delegate", "delegated", "firm", "taken",
                "failed", "done"}
SendingRows == [at : Stages, token : Nat]

DeliveryTypes ==
    /\ sending \in [Sends -> SendingRows]
    /\ emailLog \in [Sends -> {"none", "QUEUED", "SENT", "FAILED"}]
    /\ accepted \in [Sends -> Nat]
    /\ reply \in [Sends -> {"nothing", "SENT", "FAILED", "error"}]
    /\ userToken \in Nat /\ lastToken \in Nat /\ signedIn \in Nat
    /\ unheard \subseteq Sends /\ unwritten \subseteq Sends /\ mixed \in {"no", "yes"}

StoryOf(at, log, taken, heard, silent, undone) ==
    /\ at = "new" => log = "none" /\ taken = 0 /\ heard = "nothing"
    /\ at \notin {"new", "done"} => log = "QUEUED" /\ heard = "nothing"
    /\ at \in {"agent", "renew", "keep", "delegate"} => taken = 0
    /\ at = "delegated" => taken = 1
    /\ at = "firm" => taken = 0 \/ (taken = 1 /\ silent)
    /\ at = "taken" => taken = 1 \/ (taken = 2 /\ silent)
    /\ at = "failed" => \/ taken = 0
                        \/ taken = 1 /\ (silent \/ undone)
                        \/ taken = 2 /\ silent
    /\ at = "done" => /\ heard = "SENT" => log = "SENT"
                      /\ log = "SENT" => taken > 0
                      /\ log = "FAILED" /\ taken > 0 => silent \/ undone
                      /\ log = "QUEUED" => undone
                      /\ taken > 1 => silent
Story(s) == StoryOf(sending[s].at, emailLog[s], accepted[s], reply[s],
                    s \in unheard, s \in unwritten)

LastIsKept ==
    mixed = "no" =>
       /\ \A s, q \in Sends : sending[s].at = "keep" /\ sending[q].at = "keep" => s = q
       /\ \A s \in Sends : sending[s].at = "keep" => sending[s].token = lastToken /\ signedIn = 0
       /\ signedIn # 0 => signedIn = lastToken
       /\ ~ToBeKept => userToken = lastToken

DeliveryInv == DeliveryTypes /\ (\A s \in Sends : Story(s)) /\ LastIsKept

LEMMA DeliveryInitInv == DeliveryInit => DeliveryInv
  <1> SUFFICES ASSUME DeliveryInit PROVE DeliveryInv
    OBVIOUS
  <1>1. DeliveryTypes
    BY DEF DeliveryInit, DeliveryTypes, SendingRows, Stages
  <1>2. (\A s \in Sends : Story(s)) /\ LastIsKept
    BY DEF DeliveryInit, Story, StoryOf, LastIsKept, ToBeKept
  <1> QED
    BY <1>1, <1>2 DEF DeliveryInv

\* One mail goes on: its own story is all that changes, and what it does to the tokens.
MailGoes(s, w, log, n, heard) ==
    /\ w \in SendingRows /\ log \in {"none", "QUEUED", "SENT", "FAILED"} /\ n \in Nat
    /\ heard \in {"nothing", "SENT", "FAILED", "error"}
    /\ sending' = [sending EXCEPT ![s] = w] /\ emailLog' = [emailLog EXCEPT ![s] = log]
    /\ accepted' = [accepted EXCEPT ![s] = n] /\ reply' = [reply EXCEPT ![s] = heard]
    /\ unheard' = unheard \/ unheard' = unheard \union {s}
    /\ unwritten' = unwritten \/ unwritten' = unwritten \union {s}
    /\ signedIn' = signedIn

LEMMA MailGoesInv ==
  ASSUME DeliveryInv, NEW s \in Sends, NEW w, NEW log, NEW n, NEW heard,
         MailGoes(s, w, log, n, heard),
         StoryOf(w.at, log, n, heard, s \in unheard', s \in unwritten'),
         userToken' \in Nat, lastToken' \in Nat, mixed' \in {"no", "yes"}, LastIsKept'
  PROVE  DeliveryInv'
  <1>1. DeliveryTypes
    BY DEF DeliveryInv
  <1>2. DeliveryTypes'
    BY <1>1 DEF DeliveryTypes, MailGoes
  <1>3. /\ sending'[s] = w /\ emailLog'[s] = log /\ accepted'[s] = n /\ reply'[s] = heard
        /\ \A q \in Sends \ {s} : /\ sending'[q] = sending[q] /\ emailLog'[q] = emailLog[q]
                                  /\ accepted'[q] = accepted[q] /\ reply'[q] = reply[q]
                                  /\ (q \in unheard') = (q \in unheard)
                                  /\ (q \in unwritten') = (q \in unwritten)
    BY <1>1 DEF DeliveryTypes, MailGoes
  <1>4. ASSUME NEW q \in Sends PROVE Story(q)'
    <2>1. CASE q = s
      BY <1>3, <2>1 DEF Story
    <2>2. CASE q # s
      <3>1. Story(q)
        BY DEF DeliveryInv
      <3> QED
        BY <1>3, <2>2, <3>1 DEF Story
    <2> QED
      BY <2>1, <2>2
  <1> QED
    BY <1>2, <1>4 DEF DeliveryInv

\* Where no mail comes to keep a token or leaves off, the tokens rest.
LEMMA TokensRest ==
  ASSUME DeliveryInv, NEW s \in Sends, NEW w \in SendingRows, sending' = [sending EXCEPT ![s] = w],
         sending[s].at # "keep", w.at # "keep", UNCHANGED <<userToken, lastToken, signedIn, mixed>>
  PROVE  /\ LastIsKept' /\ userToken' \in Nat /\ lastToken' \in Nat /\ mixed' \in {"no", "yes"}
  <1>1. DeliveryTypes /\ LastIsKept
    BY DEF DeliveryInv
  <1>2. sending'[s] = w /\ \A q \in Sends \ {s} : sending'[q] = sending[q]
    BY <1>1 DEF DeliveryTypes
  <1>3. ToBeKept' = ToBeKept
    BY <1>2 DEF ToBeKept
  <1>4. LastIsKept'
    BY <1>1, <1>2, <1>3 DEF LastIsKept
  <1> QED
    BY <1>1, <1>4 DEF DeliveryTypes

LEMMA MailTypesAre ==
  ASSUME DeliveryInv, NEW s \in Sends
  PROVE  /\ sending \in [Sends -> SendingRows] /\ sending[s] \in SendingRows
         /\ emailLog \in [Sends -> {"none", "QUEUED", "SENT", "FAILED"}]
         /\ emailLog[s] \in {"none", "QUEUED", "SENT", "FAILED"}
         /\ accepted \in [Sends -> Nat] /\ accepted[s] \in Nat
         /\ reply \in [Sends -> {"nothing", "SENT", "FAILED", "error"}]
         /\ reply[s] \in {"nothing", "SENT", "FAILED", "error"}
         /\ emailLog = [emailLog EXCEPT ![s] = emailLog[s]]
         /\ accepted = [accepted EXCEPT ![s] = accepted[s]]
         /\ reply = [reply EXCEPT ![s] = reply[s]]
         /\ userToken \in Nat /\ lastToken \in Nat /\ signedIn \in Nat /\ mixed \in {"no", "yes"}
         /\ Story(s)
  BY DEF DeliveryInv, DeliveryTypes

LEMMA ReachesRow ==
  ASSUME DeliveryInv, NEW s \in Sends, NEW at, at \in Stages, Reaches(s, at)
  PROVE  \E w \in SendingRows : w.at = at /\ sending' = [sending EXCEPT ![s] = w]
  <1> DEFINE w == [sending[s] EXCEPT !.at = at]
  <1>1. w \in SendingRows /\ w.at = at /\ sending' = [sending EXCEPT ![s] = w]
    BY MailTypesAre DEF Reaches, SendingRows
  <1> QED
    BY <1>1

\* The steps that change nothing but where the mail is, or also its row.
LEMMA QueueMailInv ==
  ASSUME DeliveryInv, NEW s \in Sends, QueueMail(s)
  PROVE  DeliveryInv'
  <1>1. PICK at \in {"agent", "firm"} : Reaches(s, at)
    BY DEF QueueMail
  <1>2. at \in Stages
    BY DEF Stages
  <1>3. PICK w \in SendingRows : w.at = at /\ sending' = [sending EXCEPT ![s] = w]
    BY <1>1, <1>2, ReachesRow
  <1>4. /\ sending[s].at = "new" /\ emailLog' = [emailLog EXCEPT ![s] = "QUEUED"]
        /\ UNCHANGED <<accepted, reply, userToken, lastToken, signedIn, unheard, unwritten, mixed>>
    BY DEF QueueMail, Logged
  <1>5. /\ LastIsKept' /\ userToken' \in Nat /\ lastToken' \in Nat /\ mixed' \in {"no", "yes"}
    BY <1>3, <1>4, TokensRest
  <1>6. StoryOf(w.at, "QUEUED", accepted[s], reply[s], s \in unheard, s \in unwritten)
    BY <1>3, <1>4, MailTypesAre DEF Story, StoryOf
  <1>7. MailGoes(s, w, "QUEUED", accepted[s], reply[s])
    BY <1>3, <1>4, <1>5, <1>6, MailTypesAre DEF MailGoes
  <1>8. StoryOf(w.at, "QUEUED", accepted[s], reply[s], s \in unheard', s \in unwritten')
    BY <1>3, <1>4, <1>5, <1>6 DEF StoryOf
  <1> QED
    BY <1>3, <1>4, <1>5, <1>6, <1>7, <1>8, MailGoesInv

LEMMA ReadTokenInv ==
  ASSUME DeliveryInv, NEW s \in Sends, ReadToken(s)
  PROVE  DeliveryInv'
  <1>1. PICK w \in SendingRows : w.at \in {"firm", "renew"} /\ sending' = [sending EXCEPT ![s] = w]
    <2>1. CASE userToken = 0
      <3>1. Reaches(s, "firm") /\ "firm" \in Stages
        BY <2>1 DEF ReadToken, Stages
      <3> QED
        BY <3>1, ReachesRow
    <2>2. CASE userToken # 0
      <3>1. [at |-> "renew", token |-> userToken] \in SendingRows
        BY MailTypesAre DEF SendingRows, Stages
      <3> QED
        BY <2>2, <3>1 DEF ReadToken
    <2> QED
      BY <2>1, <2>2
  <1>2. /\ sending[s].at = "agent"
        /\ UNCHANGED <<emailLog, accepted, reply, userToken, lastToken, signedIn, unheard,
                       unwritten, mixed>>
    BY DEF ReadToken
  <1>3. LastIsKept' /\ userToken' \in Nat /\ lastToken' \in Nat /\ mixed' \in {"no", "yes"}
    BY <1>1, <1>2, TokensRest
  <1>4. StoryOf(w.at, emailLog[s], accepted[s], reply[s], s \in unheard, s \in unwritten)
    BY <1>1, <1>2, MailTypesAre DEF Story, StoryOf
  <1>5. MailGoes(s, w, emailLog[s], accepted[s], reply[s])
    BY <1>1, <1>2, <1>3, <1>4, MailTypesAre DEF MailGoes
  <1>6. StoryOf(w.at, emailLog[s], accepted[s], reply[s], s \in unheard', s \in unwritten')
    BY <1>1, <1>2, <1>3, <1>4 DEF StoryOf
  <1> QED
    BY <1>1, <1>2, <1>3, <1>4, <1>5, <1>6, MailGoesInv

LEMMA RenewTokenInv ==
  ASSUME DeliveryInv, NEW s \in Sends, RenewToken(s)
  PROVE  DeliveryInv'
  <1>1. /\ sending[s].at = "renew"
        /\ UNCHANGED <<emailLog, accepted, reply, userToken, signedIn, unheard, unwritten>>
    BY DEF RenewToken
  <1>2. CASE /\ Issue
             /\ sending' = [sending EXCEPT ![s] = [at |-> "keep", token |-> lastToken + 1]]
    <2> DEFINE w == [at |-> "keep", token |-> lastToken + 1]
    <2>1. /\ w \in SendingRows /\ w.at = "keep" /\ w.token = lastToken + 1
          /\ lastToken' = lastToken + 1 /\ mixed' = IF ToBeKept THEN "yes" ELSE mixed
          /\ sending' = [sending EXCEPT ![s] = w]
      BY <1>2, MailTypesAre DEF SendingRows, Stages, Issue
    <2> HIDE DEF w
    <2>2. sending'[s] = w /\ \A q \in Sends \ {s} : sending'[q] = sending[q]
      BY <2>1, MailTypesAre
    <2>3. ASSUME mixed' = "no" PROVE LastIsKept'
      <3>1. ~ToBeKept
        BY <2>1, <2>3
      <3>2. signedIn = 0 /\ \A q \in Sends : sending[q].at # "keep"
        BY <3>1 DEF ToBeKept
      <3>3. ToBeKept'
        BY <2>1, <2>2 DEF ToBeKept
      <3> QED
        BY <1>1, <2>1, <2>2, <3>2, <3>3 DEF LastIsKept
    <2>4. LastIsKept'
      BY <2>3 DEF LastIsKept
    <2>5. /\ userToken' \in Nat /\ lastToken' \in Nat /\ mixed' \in {"no", "yes"}
      BY <1>1, <2>1, MailTypesAre
    <2>6. StoryOf(w.at, emailLog[s], accepted[s], reply[s], s \in unheard, s \in unwritten)
      BY <1>1, <2>1, MailTypesAre DEF Story, StoryOf
    <2>7. MailGoes(s, w, emailLog[s], accepted[s], reply[s])
      BY <1>1, <2>1, <2>4, <2>5, <2>6, MailTypesAre DEF MailGoes
    <2>8. StoryOf(w.at, emailLog[s], accepted[s], reply[s], s \in unheard', s \in unwritten')
      BY <1>1, <2>1, <2>4, <2>5, <2>6 DEF StoryOf
    <2> QED
      BY <2>1, <2>4, <2>5, <2>6, <2>7, <2>8, MailGoesInv
  <1>3. CASE Reaches(s, "firm") /\ UNCHANGED <<lastToken, mixed>>
    <2>1. "firm" \in Stages
      BY DEF Stages
    <2>2. PICK w \in SendingRows : w.at = "firm" /\ sending' = [sending EXCEPT ![s] = w]
      BY <1>3, <2>1, ReachesRow
    <2>3. LastIsKept' /\ userToken' \in Nat /\ lastToken' \in Nat /\ mixed' \in {"no", "yes"}
      BY <1>1, <1>3, <2>2, TokensRest
    <2>4. StoryOf(w.at, emailLog[s], accepted[s], reply[s], s \in unheard, s \in unwritten)
      BY <1>1, <2>2, MailTypesAre DEF Story, StoryOf
    <2>5. MailGoes(s, w, emailLog[s], accepted[s], reply[s])
      BY <1>1, <2>2, <2>3, <2>4, MailTypesAre DEF MailGoes
    <2>6. StoryOf(w.at, emailLog[s], accepted[s], reply[s], s \in unheard', s \in unwritten')
      BY <1>1, <2>2, <2>3, <2>4 DEF StoryOf
    <2> QED
      BY <2>2, <2>3, <2>4, <2>5, <2>6, MailGoesInv
  <1> QED
    BY <1>2, <1>3 DEF RenewToken

LEMMA KeepTokenInv ==
  ASSUME DeliveryInv, NEW s \in Sends, KeepToken(s)
  PROVE  DeliveryInv'
  <1>1. /\ sending[s].at = "keep" /\ Reaches(s, "delegate") /\ "delegate" \in Stages
        /\ UNCHANGED <<emailLog, accepted, reply, lastToken, signedIn, unheard, unwritten>>
        /\ \/ userToken' = sending[s].token /\ UNCHANGED mixed
           \/ mixed' = "yes" /\ UNCHANGED userToken
    BY DEF KeepToken, KeptToken, Stages
  <1>2. PICK w \in SendingRows : w.at = "delegate" /\ sending' = [sending EXCEPT ![s] = w]
    BY <1>1, ReachesRow
  <1>3. sending'[s] = w /\ \A q \in Sends \ {s} : sending'[q] = sending[q]
    BY <1>2, MailTypesAre
  <1>4. sending[s].token \in Nat
    BY MailTypesAre DEF SendingRows
  <1>5. ASSUME mixed' = "no" PROVE LastIsKept'
    <2>1. mixed = "no" /\ userToken' = sending[s].token /\ LastIsKept
      BY <1>1, <1>5 DEF DeliveryInv
    <2>2. /\ sending[s].token = lastToken /\ signedIn = 0
          /\ \A q \in Sends \ {s} : sending[q].at # "keep"
      BY <1>1, <2>1 DEF LastIsKept
    <2> QED
      BY <1>1, <1>2, <1>3, <2>1, <2>2 DEF LastIsKept
  <1>6. LastIsKept'
    BY <1>5 DEF LastIsKept
  <1>7. /\ userToken' \in Nat /\ lastToken' \in Nat /\ mixed' \in {"no", "yes"}
    BY <1>1, <1>4, MailTypesAre
  <1>8. StoryOf(w.at, emailLog[s], accepted[s], reply[s], s \in unheard, s \in unwritten)
    BY <1>1, <1>2, MailTypesAre DEF Story, StoryOf
  <1>9. MailGoes(s, w, emailLog[s], accepted[s], reply[s])
    BY <1>1, <1>2, <1>6, <1>7, <1>8, MailTypesAre DEF MailGoes
  <1>10. StoryOf(w.at, emailLog[s], accepted[s], reply[s], s \in unheard', s \in unwritten')
    BY <1>1, <1>2, <1>6, <1>7, <1>8 DEF StoryOf
  <1> QED
    BY <1>1, <1>2, <1>6, <1>7, <1>8, <1>9, <1>10, MailGoesInv

LEMMA SendsInv ==
  ASSUME DeliveryInv, NEW s \in Sends, SendDelegated(s) \/ SendByFirm(s)
  PROVE  DeliveryInv'
  <1>1. PICK taken \in {"delegated", "taken"}, refused \in {"firm", "failed"} :
          /\ Posts(s, taken, refused)
          /\ \/ sending[s].at = "delegate" /\ taken = "delegated" /\ refused = "firm"
             \/ sending[s].at = "firm" /\ taken = "taken" /\ refused = "failed"
    BY DEF SendDelegated, SendByFirm
  <1>2. UNCHANGED <<emailLog, reply, userToken, lastToken, signedIn, unwritten, mixed>>
    BY DEF SendDelegated, SendByFirm
  <1>3. taken \in Stages /\ refused \in Stages /\ taken # "keep" /\ refused # "keep"
        /\ sending[s].at # "keep"
    BY <1>1 DEF Stages
  <1>4. PICK at \in {taken, refused}, n \in Nat :
          /\ Reaches(s, at) /\ accepted' = [accepted EXCEPT ![s] = n]
          /\ \/ at = taken /\ n = accepted[s] + 1 /\ unheard' = unheard
             \/ at = refused /\ n = accepted[s] + 1 /\ unheard' = unheard \union {s}
             \/ at = refused /\ n = accepted[s] /\ unheard' = unheard
    <2>1. accepted[s] + 1 \in Nat /\ accepted[s] \in Nat
      BY MailTypesAre
    <2>2. CASE /\ accepted' = [accepted EXCEPT ![s] = @ + 1] /\ Reaches(s, taken)
               /\ unheard' = unheard
      BY <2>1, <2>2
    <2>3. CASE /\ accepted' = [accepted EXCEPT ![s] = @ + 1] /\ unheard' = unheard \union {s}
               /\ Reaches(s, refused)
      BY <2>1, <2>3
    <2>4. CASE Reaches(s, refused) /\ UNCHANGED <<accepted, unheard>>
      BY <2>1, <2>4, MailTypesAre
    <2> QED
      BY <1>1, <2>2, <2>3, <2>4 DEF Posts
  <1>5. PICK w \in SendingRows : w.at = at /\ sending' = [sending EXCEPT ![s] = w]
    BY <1>3, <1>4, ReachesRow
  <1>6. LastIsKept' /\ userToken' \in Nat /\ lastToken' \in Nat /\ mixed' \in {"no", "yes"}
    BY <1>2, <1>3, <1>5, TokensRest
  <1>7. StoryOf(w.at, emailLog[s], n, reply[s], s \in unheard', s \in unwritten)
    <2>1. StoryOf(sending[s].at, emailLog[s], accepted[s], reply[s], s \in unheard, s \in unwritten)
          /\ accepted[s] \in Nat
      BY MailTypesAre DEF Story
    <2>2. CASE at = taken /\ n = accepted[s] + 1 /\ unheard' = unheard
      BY <1>1, <1>5, <2>1, <2>2 DEF StoryOf
    <2>3. CASE at = refused /\ n = accepted[s] + 1 /\ unheard' = unheard \union {s}
      BY <1>1, <1>5, <2>1, <2>3 DEF StoryOf
    <2>4. CASE at = refused /\ n = accepted[s] /\ unheard' = unheard
      BY <1>1, <1>5, <2>1, <2>4 DEF StoryOf
    <2> QED
      BY <1>4, <2>2, <2>3, <2>4
  <1>8. MailGoes(s, w, emailLog[s], n, reply[s])
    BY <1>2, <1>4, <1>5, <1>6, <1>7, MailTypesAre DEF MailGoes
  <1>9. StoryOf(w.at, emailLog[s], n, reply[s], s \in unheard', s \in unwritten')
    BY <1>2, <1>4, <1>5, <1>6, <1>7 DEF StoryOf
  <1> QED
    BY <1>2, <1>4, <1>5, <1>6, <1>7, <1>8, <1>9, MailGoesInv

LEMMA LogSentInv ==
  ASSUME DeliveryInv, NEW s \in Sends, LogSent(s)
  PROVE  DeliveryInv'
  <1>1. /\ sending[s].at \in {"delegated", "taken"}
        /\ UNCHANGED <<accepted, userToken, lastToken, signedIn, unheard, mixed>>
    BY DEF LogSent
  <1>2. StoryOf(sending[s].at, emailLog[s], accepted[s], reply[s], s \in unheard, s \in unwritten)
        /\ accepted[s] \in Nat
    BY MailTypesAre DEF Story
  <1>3. CASE Logged(s, "SENT") /\ Told(s, "SENT") /\ unwritten' = unwritten
    <2>1. /\ emailLog' = [emailLog EXCEPT ![s] = "SENT"] /\ reply' = [reply EXCEPT ![s] = "SENT"]
          /\ Reaches(s, "done") /\ "done" \in Stages
      BY <1>3 DEF Logged, Told, Stages
    <2>2. PICK w \in SendingRows : w.at = "done" /\ sending' = [sending EXCEPT ![s] = w]
      BY <2>1, ReachesRow
    <2>3. LastIsKept' /\ userToken' \in Nat /\ lastToken' \in Nat /\ mixed' \in {"no", "yes"}
      BY <1>1, <2>2, TokensRest
    <2>4. StoryOf(w.at, "SENT", accepted[s], "SENT", s \in unheard, s \in unwritten)
      BY <1>1, <1>2, <2>2 DEF StoryOf
    <2>5. MailGoes(s, w, "SENT", accepted[s], "SENT")
      BY <1>1, <1>3, <2>1, <2>2, <2>3, <2>4, MailTypesAre DEF MailGoes
    <2>6. StoryOf(w.at, "SENT", accepted[s], "SENT", s \in unheard', s \in unwritten')
      BY <1>1, <1>3, <2>1, <2>2, <2>3, <2>4 DEF StoryOf
    <2> QED
      BY <2>1, <2>2, <2>3, <2>4, <2>5, <2>6, MailGoesInv
  <1>4. CASE /\ unwritten' = unwritten \union {s} /\ Reaches(s, AfterLost(sending[s].at))
             /\ UNCHANGED emailLog
             /\ reply' = IF sending[s].at = "delegated" THEN [reply EXCEPT ![s] = "error"]
                         ELSE reply
    <2>1. PICK at \in Stages, heard \in {"nothing", "SENT", "FAILED", "error"} :
            /\ Reaches(s, at) /\ reply' = [reply EXCEPT ![s] = heard]
            /\ IF sending[s].at = "delegated" THEN at = "done" /\ heard = "error"
               ELSE at = "failed" /\ heard = reply[s]
      <3>1. "done" \in Stages /\ "failed" \in Stages
        BY DEF Stages
      <3> QED
        BY <1>4, <3>1, MailTypesAre DEF AfterLost
    <2>2. PICK w \in SendingRows : w.at = at /\ sending' = [sending EXCEPT ![s] = w]
      BY <2>1, ReachesRow
    <2>3. LastIsKept' /\ userToken' \in Nat /\ lastToken' \in Nat /\ mixed' \in {"no", "yes"}
      BY <1>1, <2>1, <2>2, TokensRest
    <2>4. StoryOf(w.at, emailLog[s], accepted[s], heard, s \in unheard, s \in unwritten')
      BY <1>1, <1>2, <1>4, <2>1, <2>2 DEF StoryOf
    <2>5. MailGoes(s, w, emailLog[s], accepted[s], heard)
      BY <1>1, <1>4, <2>1, <2>2, <2>3, <2>4, MailTypesAre DEF MailGoes
    <2>6. StoryOf(w.at, emailLog[s], accepted[s], heard, s \in unheard', s \in unwritten')
      BY <1>1, <1>4, <2>1, <2>2, <2>3, <2>4 DEF StoryOf
    <2> QED
      BY <2>1, <2>2, <2>3, <2>4, <2>5, <2>6, MailGoesInv
  <1> QED
    BY <1>3, <1>4 DEF LogSent

LEMMA LogFailedInv ==
  ASSUME DeliveryInv, NEW s \in Sends, LogFailed(s)
  PROVE  DeliveryInv'
  <1>1. /\ sending[s].at = "failed"
        /\ UNCHANGED <<accepted, userToken, lastToken, signedIn, unheard, mixed>>
    BY DEF LogFailed
  <1>2. StoryOf(sending[s].at, emailLog[s], accepted[s], reply[s], s \in unheard, s \in unwritten)
        /\ accepted[s] \in Nat
    BY MailTypesAre DEF Story
  <1>3. PICK log \in {"none", "QUEUED", "SENT", "FAILED"},
             heard \in {"nothing", "SENT", "FAILED", "error"} :
          /\ emailLog' = [emailLog EXCEPT ![s] = log] /\ Told(s, heard)
          /\ \/ log = "FAILED" /\ heard = "FAILED" /\ unwritten' = unwritten
             \/ log = emailLog[s] /\ heard = "error" /\ unwritten' = unwritten \union {s}
    <2>1. CASE Logged(s, "FAILED") /\ Told(s, "FAILED") /\ unwritten' = unwritten
      BY <2>1 DEF Logged
    <2>2. CASE unwritten' = unwritten \union {s} /\ Told(s, "error") /\ UNCHANGED emailLog
      BY <2>2, MailTypesAre
    <2> QED
      BY <2>1, <2>2 DEF LogFailed, FailedAs
  <1>4. Reaches(s, "done") /\ "done" \in Stages /\ reply' = [reply EXCEPT ![s] = heard]
    BY <1>3 DEF Told, Stages
  <1>5. PICK w \in SendingRows : w.at = "done" /\ sending' = [sending EXCEPT ![s] = w]
    BY <1>4, ReachesRow
  <1>6. LastIsKept' /\ userToken' \in Nat /\ lastToken' \in Nat /\ mixed' \in {"no", "yes"}
    BY <1>1, <1>5, TokensRest
  <1>7. StoryOf(w.at, log, accepted[s], heard, s \in unheard, s \in unwritten')
    BY <1>1, <1>2, <1>3, <1>5 DEF StoryOf
  <1>8. MailGoes(s, w, log, accepted[s], heard)
    BY <1>1, <1>3, <1>4, <1>5, <1>6, <1>7, MailTypesAre DEF MailGoes
  <1>9. StoryOf(w.at, log, accepted[s], heard, s \in unheard', s \in unwritten')
    BY <1>1, <1>3, <1>4, <1>5, <1>6, <1>7 DEF StoryOf
  <1> QED
    BY <1>1, <1>3, <1>4, <1>5, <1>6, <1>7, <1>8, <1>9, MailGoesInv

LEMMA SignInInv ==
  ASSUME DeliveryInv, SignIn \/ KeepSignIn
  PROVE  DeliveryInv'
  <1>1. /\ DeliveryTypes /\ LastIsKept
        /\ UNCHANGED <<sending, emailLog, accepted, reply, unheard, unwritten>>
    BY DEF DeliveryInv, SignIn, KeepSignIn
  <1>2. \A s \in Sends : Story(s)'
    BY <1>1 DEF DeliveryInv, Story
  <1>3. CASE SignIn
    <2>1. /\ signedIn = 0 /\ lastToken' = lastToken + 1 /\ signedIn' = lastToken + 1
          /\ mixed' = IF ToBeKept THEN "yes" ELSE mixed
          /\ UNCHANGED userToken /\ signedIn' # 0
      BY <1>1, <1>3 DEF SignIn, Issue, DeliveryTypes
    <2>2. DeliveryTypes'
      BY <1>1, <2>1 DEF DeliveryTypes
    <2>3. ASSUME mixed' = "no" PROVE LastIsKept'
      <3>1. \A s \in Sends : sending[s].at # "keep"
        BY <2>1, <2>3 DEF ToBeKept
      <3> QED
        BY <1>1, <2>1, <3>1 DEF LastIsKept, ToBeKept
    <2> QED
      BY <1>2, <2>2, <2>3 DEF DeliveryInv, LastIsKept
  <1>4. CASE KeepSignIn
    <2>1. /\ signedIn # 0 /\ signedIn' = 0 /\ UNCHANGED lastToken
          /\ \/ userToken' = signedIn /\ UNCHANGED mixed
             \/ mixed' = "yes" /\ UNCHANGED userToken
      BY <1>4 DEF KeepSignIn
    <2>2. DeliveryTypes'
      BY <1>1, <2>1 DEF DeliveryTypes
    <2>3. LastIsKept'
      BY <1>1, <2>1 DEF LastIsKept, ToBeKept
    <2> QED
      BY <1>2, <2>2, <2>3 DEF DeliveryInv
  <1> QED
    BY <1>3, <1>4

LEMMA MailProcessDiesInv ==
  ASSUME DeliveryInv, MailProcessDies
  PROVE  DeliveryInv'
  <1>1. /\ DeliveryTypes /\ LastIsKept /\ UnderWay \subseteq Sends
        /\ unwritten' = unwritten \union UnderWay /\ signedIn' = 0
        /\ mixed' = IF ToBeKept THEN "yes" ELSE mixed
        /\ UNCHANGED <<emailLog, accepted, reply, userToken, lastToken, unheard>>
    BY DEF DeliveryInv, MailProcessDies, UnderWay
  <1>2. \A s \in Sends : /\ sending'[s] \in SendingRows
                         /\ sending'[s].at = IF s \in UnderWay THEN "done" ELSE sending[s].at
    BY <1>1 DEF MailProcessDies, DeliveryTypes, SendingRows, Stages
  <1>3. sending' \in [Sends -> SendingRows]
    BY <1>2 DEF MailProcessDies
  <1>4. DeliveryTypes'
    BY <1>1, <1>3 DEF DeliveryTypes
  <1>5. ASSUME NEW s \in Sends PROVE Story(s)'
    <2>1. Story(s) /\ accepted[s] \in Nat /\ sending[s].at \in Stages
      BY <1>1 DEF DeliveryInv, DeliveryTypes, SendingRows
    <2>2. CASE s \in UnderWay
      <3>1. sending[s].at \notin {"new", "done"} /\ s \in unwritten' /\ sending'[s].at = "done"
        BY <1>1, <1>2, <2>2 DEF UnderWay
      <3>2. emailLog[s] = "QUEUED" /\ reply[s] = "nothing" /\ (accepted[s] > 1 => s \in unheard)
        BY <2>1, <3>1 DEF Story, StoryOf, Stages
      <3> QED
        BY <1>1, <3>1, <3>2 DEF Story, StoryOf
    <2>3. CASE s \notin UnderWay
      <3>1. sending'[s].at = sending[s].at /\ (s \in unwritten') = (s \in unwritten)
        BY <1>1, <1>2, <2>3
      <3> QED
        BY <1>1, <2>1, <3>1 DEF Story
    <2> QED
      BY <2>2, <2>3
  <1>6. LastIsKept'
    <2>1. \A s \in Sends : sending'[s].at # "keep"
      BY <1>2 DEF UnderWay
    <2> QED
      BY <1>1, <2>1 DEF LastIsKept, ToBeKept
  <1> QED
    BY <1>4, <1>5, <1>6 DEF DeliveryInv

LEMMA DeliveryStepInv == DeliveryInv /\ [DeliveryNext]_deliveryVars => DeliveryInv'
  <1> SUFFICES ASSUME DeliveryInv, [DeliveryNext]_deliveryVars PROVE DeliveryInv'
    OBVIOUS
  <1>1. CASE UNCHANGED deliveryVars
    BY <1>1 DEF deliveryVars, DeliveryInv, DeliveryTypes, Story, LastIsKept, ToBeKept
  <1> QED
    BY <1>1, QueueMailInv, ReadTokenInv, RenewTokenInv, KeepTokenInv, SendsInv, LogSentInv,
       LogFailedInv, SignInInv, MailProcessDiesInv
    DEF DeliveryNext

LEMMA DeliveryHolds == DeliveryInv => DeliveryIsTold
  <1> SUFFICES ASSUME DeliveryInv PROVE DeliveryIsTold
    OBVIOUS
  <1>1. ASSUME NEW s \in Sends
        PROVE  /\ reply[s] = "SENT" => emailLog[s] = "SENT"
               /\ emailLog[s] = "SENT" => accepted[s] > 0
               /\ emailLog[s] = "FAILED" /\ accepted[s] > 0 => s \in unheard \union unwritten
               /\ sending[s].at = "done" /\ emailLog[s] = "QUEUED" => s \in unwritten
               /\ accepted[s] > 1 => s \in unheard
    <2>1. Story(s) /\ accepted[s] \in Nat /\ sending[s].at \in Stages
      BY DEF DeliveryInv, DeliveryTypes, SendingRows
    <2> QED
      BY <2>1 DEF Story, StoryOf, Stages
  <1>2. mixed = "no" /\ ~ToBeKept => userToken = lastToken
    BY DEF DeliveryInv, LastIsKept
  <1> QED
    BY <1>1, <1>2 DEF DeliveryIsTold

-----------------------------------------------------------------------------
(****************************************************************************)
(* The progress of a checklist.  The steps of an onboarding or a journey    *)
(* are as they were asked for at every moment; those of a runbook are when  *)
(* no request is under way and none has overlapped another: until then each *)
(* request has read the boxes and the requirements there are, and one that  *)
(* is alone will write the boxes that are wanted (BoxesFit).                *)
(****************************************************************************)
HandRows == [at : {"idle", "status", "count", "countOpen", "write", "merge"},
             steps : [Steps -> StepStates], now : [Steps -> StepStates], status : ListStatuses]
ProgressRow == /\ progress = [status |-> progress.status, done |-> progress.done]
               /\ progress.status \in ListStatuses

ListTypes ==
    /\ list \in Lists /\ ProgressRow /\ fresh \in {"no", "yes"}
    /\ needed \subseteq Steps /\ counted \in {"no", "yes"}
    /\ steps \in [Steps -> StepStates] /\ wanted \in [Steps -> StepStates]
    /\ hand \in [Hands -> HandRows]
    /\ \A h \in Hands : /\ hand[h].at = "status" => list = "staff"
                        /\ hand[h].at \in {"count", "countOpen", "write"} => list # "runbook"
                        /\ hand[h].at = "merge" => list = "runbook" /\ Steps # {}

Alone(h) == \A g \in Hands \ {h} : hand[g].at = "idle"
Boxes == [Steps -> {"open", "done"}]

BoxesFit ==
    /\ steps \in Boxes
    /\ \A h \in Hands : hand[h].at = "merge" =>
          /\ hand[h].now \in Boxes
          /\ fresh = "yes" => hand[h].steps = steps /\ hand[h].status = RunStatus(hand[h].now)
          /\ fresh = "yes" /\ Alone(h) => hand[h].now = wanted

ListInv ==
    /\ ListTypes /\ ProgressFitsSteps
    /\ list # "runbook" => steps = wanted
    /\ list = "runbook" => BoxesFit

LEMMA ListInitInv == ChecklistInit => ListInv
  <1> SUFFICES ASSUME ChecklistInit PROVE ListInv
    OBVIOUS
  <1>1. ListTypes
    BY DEF ChecklistInit, ListTypes, ProgressRow, HandRows, NoHand, Unticked, StepStates,
           ListStatuses, Lists
  <1>2. BoxesFit
    BY DEF ChecklistInit, BoxesFit, Boxes, NoHand, Unticked
  <1>3. ~ListDone /\ StepsIn(steps, "done") = {} /\ steps = wanted
    BY DEF ChecklistInit, ListDone, There, StepsIn, Unticked
  <1>4. ProgressFitsSteps
    BY <1>3, FS_EmptySet DEF ChecklistInit, ProgressFitsSteps
  <1> QED
    BY <1>1, <1>2, <1>3, <1>4 DEF ListInv

\* What an action says of the rows of the requests.
LEMMA HandsAre ==
  ASSUME ListTypes, NEW h \in Hands, NEW w \in HandRows, hand' = [hand EXCEPT ![h] = w]
  PROVE  /\ hand' \in [Hands -> HandRows] /\ hand'[h] = w
         /\ \A g \in Hands \ {h} : hand'[g] = hand[g]
  BY DEF ListTypes

LEMMA NoHandIsARow == NoHand \in HandRows /\ NoHand.at = "idle"
  BY DEF NoHand, HandRows, Unticked, StepStates, ListStatuses

\* A request about one step of an onboarding or a journey.
LEMMA SetStepInv ==
  ASSUME ListInv, NEW h \in Hands, NEW s \in Steps, NEW to \in StepStates, SetStep(h, s, to)
  PROVE  ListInv'
  <1>1. ListTypes /\ list # "runbook" /\ steps = wanted
    BY DEF ListInv, SetStep
  <1>2. /\ steps' = [steps EXCEPT ![s] = to] /\ wanted' = [wanted EXCEPT ![s] = to]
        /\ UNCHANGED <<list, needed, progress, fresh, counted>>
    BY DEF SetStep, Ask
  <1>3. PICK w \in HandRows : /\ w.at = IF list = "staff" THEN "status" ELSE "count"
                              /\ hand' = [hand EXCEPT ![h] = w]
    BY <1>1 DEF SetStep, ListTypes, HandRows
  <1>4. /\ hand' \in [Hands -> HandRows] /\ hand'[h] = w
        /\ \A g \in Hands \ {h} : hand'[g] = hand[g]
    BY <1>1, <1>3, HandsAre
  <1>5. ListTypes'
    BY <1>1, <1>2, <1>3, <1>4 DEF ListTypes, ProgressRow, Lists
  <1>6. ProgressFitsSteps'
    BY <1>3, <1>4 DEF ProgressFitsSteps
  <1> QED
    BY <1>1, <1>2, <1>5, <1>6 DEF ListInv

\* A journey reads its status and counts: nothing but its row changes.
LEMMA CountsInv ==
  ASSUME ListInv, NEW h \in Hands, NEW w \in HandRows,
         hand[h].at \in {"status", "count", "countOpen"},
         hand' = [hand EXCEPT ![h] = w], w.at \in {"count", "countOpen", "write"},
         UNCHANGED <<list, steps, needed, progress, wanted, fresh, counted>>
  PROVE  ListInv'
  <1>1. ListTypes /\ list # "runbook" /\ steps = wanted
    BY DEF ListInv, ListTypes
  <1>2. /\ hand' \in [Hands -> HandRows] /\ hand'[h] = w
        /\ \A g \in Hands \ {h} : hand'[g] = hand[g]
    BY <1>1, HandsAre
  <1>3. ListTypes'
    BY <1>1, <1>2 DEF ListTypes, ProgressRow
  <1>4. ProgressFitsSteps'
    BY <1>2 DEF ProgressFitsSteps
  <1> QED
    BY <1>1, <1>3, <1>4 DEF ListInv

LEMMA ReadsInv ==
  ASSUME ListInv, NEW h \in Hands,
         \/ ReadStatus(h) /\ progress.status # "CANCELLED"
         \/ CountSteps(h) \/ CountOpen(h)
  PROVE  ListInv'
  <1>1. ListTypes /\ hand[h] \in HandRows /\ steps \in [Steps -> StepStates]
        /\ progress.status \in ListStatuses
    BY DEF ListInv, ListTypes, ProgressRow
  <1>2. /\ hand[h].at \in {"status", "count", "countOpen"}
        /\ UNCHANGED <<list, steps, needed, progress, wanted, fresh, counted>>
    BY DEF ReadStatus, CountSteps, CountOpen
  <1>3. \E w \in HandRows : /\ w.at \in {"count", "countOpen", "write"}
                            /\ hand' = [hand EXCEPT ![h] = w]
    <2>1. CASE ReadStatus(h) /\ progress.status # "CANCELLED"
      <3> DEFINE w == [hand[h] EXCEPT !.at = "count", !.status = progress.status]
      <3>1. w \in HandRows /\ w.at = "count"
        BY <1>1 DEF HandRows
      <3>2. hand' = [hand EXCEPT ![h].at = "count", ![h].status = progress.status]
        BY <2>1 DEF ReadStatus
      <3>3. hand' = [hand EXCEPT ![h] = w]
        BY <1>1, <3>2 DEF ListTypes, HandRows
      <3> QED
        BY <3>1, <3>3
    <2>2. CASE CountSteps(h)
      <3>1. PICK at \in {"countOpen", "write"} :
              hand' = [hand EXCEPT ![h].at = at, ![h].steps = steps, ![h].now = steps]
        BY <2>2 DEF CountSteps
      <3> DEFINE w == [hand[h] EXCEPT !.at = at, !.steps = steps, !.now = steps]
      <3>2. w \in HandRows /\ w.at = at
        BY <1>1 DEF HandRows
      <3>3. hand' = [hand EXCEPT ![h] = w]
        BY <1>1, <3>1 DEF ListTypes, HandRows
      <3> QED
        BY <3>2, <3>3
    <2>3. CASE CountOpen(h)
      <3> DEFINE w == [hand[h] EXCEPT !.at = "write", !.now = steps]
      <3>1. w \in HandRows /\ w.at = "write"
        BY <1>1 DEF HandRows
      <3>2. hand' = [hand EXCEPT ![h].at = "write", ![h].now = steps]
        BY <2>3 DEF CountOpen
      <3>3. hand' = [hand EXCEPT ![h] = w]
        BY <1>1, <3>2 DEF ListTypes, HandRows
      <3> QED
        BY <3>1, <3>3
    <2> QED
      BY <2>1, <2>2, <2>3
  <1> QED
    BY <1>2, <1>3, CountsInv

\* A request ends: what is left to show is that the progress fits.
LEMMA HandEnds ==
  ASSUME ListInv, NEW h \in Hands, hand[h].at # "idle", hand' = [hand EXCEPT ![h] = NoHand],
         fresh' \in {"no", "yes"}, ProgressRow', list' = list, wanted' = wanted,
         steps' = steps, needed' = needed, counted' = counted, fresh' = "yes" => list # "runbook",
         fresh' = "yes" => ProgressFitsSteps'
  PROVE  ListInv'
  <1>1. ListTypes /\ NoHand \in HandRows /\ NoHand.at = "idle"
    BY NoHandIsARow DEF ListInv
  <1>2. /\ hand' \in [Hands -> HandRows] /\ hand'[h] = NoHand
        /\ \A g \in Hands \ {h} : hand'[g] = hand[g]
    BY <1>1, HandsAre
  <1>3. ListTypes'
    BY <1>1, <1>2 DEF ListTypes
  <1>4. ProgressFitsSteps'
    BY DEF ProgressFitsSteps
  <1>5. ASSUME list = "runbook" PROVE BoxesFit'
    <2>1. BoxesFit /\ fresh' = "no"
      BY <1>5 DEF ListInv
    <2> QED
      BY <1>1, <1>2, <2>1 DEF BoxesFit
  <1> QED
    BY <1>3, <1>4, <1>5 DEF ListInv

LEMMA ReadCancelledInv ==
  ASSUME ListInv, NEW h \in Hands, ReadStatus(h), progress.status = "CANCELLED"
  PROVE  ListInv'
  <1>1. /\ hand[h].at = "status" /\ list = "staff" /\ ProgressRow /\ steps = wanted
    BY DEF ListInv, ListTypes, ReadStatus
  <1>2. /\ hand' = [hand EXCEPT ![h] = NoHand] /\ fresh' = "yes"
        /\ UNCHANGED <<list, steps, needed, progress, wanted, counted>>
    BY DEF ReadStatus, EndTick
  <1>3. ProgressFitsSteps'
    BY <1>1, <1>2 DEF ProgressFitsSteps
  <1>4. ProgressRow'
    BY <1>1, <1>2 DEF ProgressRow
  <1> QED
    BY <1>1, <1>2, <1>3, <1>4, HandEnds

LEMMA WriteProgressInv ==
  ASSUME ListInv, NEW h \in Hands, WriteProgress(h)
  PROVE  ListInv'
  <1>1. /\ ListTypes /\ hand[h].at = "write" /\ list \in {"client", "staff"} /\ steps = wanted
        /\ ProgressRow
    BY DEF ListInv, ListTypes, WriteProgress, Lists
  <1>2. /\ progress' = NextProgress(h) /\ hand' = [hand EXCEPT ![h] = NoHand]
        /\ UNCHANGED <<list, steps, needed, wanted, counted>> /\ fresh' \in {"no", "yes"}
        /\ fresh' = "yes" => /\ hand[h].steps = steps /\ hand[h].now = steps
                             /\ list = "staff" => hand[h].status = progress.status
    BY DEF WriteProgress, EndTick
  <1>3. ProgressRow'
    BY <1>1, <1>2 DEF ProgressRow, NextProgress, ListStatuses
  <1>4. ASSUME fresh' = "yes" PROVE ProgressFitsSteps'
    <2>1. /\ Over(h) <=> ListDone
          /\ StepsIn(hand[h].now, "done") = StepsIn(steps, "done")
      BY <1>2, <1>4 DEF Over, ListDone
    <2>2. ListDone' = ListDone /\ StepsIn(steps, "done")' = StepsIn(steps, "done")
      BY <1>2 DEF ListDone, There, StepsIn
    <2>3. CASE list = "client"
      <3>1. /\ progress'.status = IF ListDone THEN "COMPLETED" ELSE progress.status
            /\ progress'.done = Cardinality(StepsIn(steps, "done"))
        BY <1>2, <2>1, <2>3 DEF NextProgress
      <3> QED
        BY <1>1, <1>2, <2>2, <2>3, <3>1 DEF ProgressFitsSteps
    <2>4. CASE list = "staff"
      <3>1. hand[h].status = progress.status
        BY <1>2, <1>4, <2>4
      <3>2. progress'.status = IF ListDone THEN "COMPLETED" ELSE "IN_PROGRESS"
        BY <1>1, <1>2, <2>1, <2>4, <3>1 DEF NextProgress, ProgressRow
      <3> QED
        BY <1>1, <1>2, <2>2, <2>4, <3>2 DEF ProgressFitsSteps
    <2> QED
      BY <1>1, <2>3, <2>4
  <1> QED
    BY <1>1, <1>2, <1>3, <1>4, HandEnds

LEMMA HandDiesInv ==
  ASSUME ListInv, NEW h \in Hands, HandDies(h)
  PROVE  ListInv'
  <1>1. /\ hand[h].at # "idle" /\ hand' = [hand EXCEPT ![h] = NoHand] /\ fresh' = "no"
        /\ UNCHANGED <<list, steps, needed, progress, wanted, counted>>
    BY DEF HandDies, EndTick
  <1>2. ProgressRow'
    BY <1>1 DEF ListInv, ListTypes, ProgressRow
  <1> QED
    BY <1>1, <1>2, HandEnds

\* A request about a box of a runbook reads them all.
LEMMA ReadBoxesInv ==
  ASSUME ListInv, NEW h \in Hands, NEW s \in Steps, NEW to \in StepStates, ReadBoxes(h, s, to)
  PROVE  ListInv'
  <1>1. /\ ListTypes /\ BoxesFit /\ list = "runbook" /\ hand[h].at = "idle"
        /\ to \in {"open", "done"} /\ ProgressFitsSteps
    BY DEF ListInv, ReadBoxes, Tick, Settable
  <1>2. PICK then : then = [steps EXCEPT ![s] = to]
    OBVIOUS
  <1>3. PICK w : w = [at |-> "merge", steps |-> steps, now |-> then, status |-> RunStatus(then)]
    OBVIOUS
  <1>4. /\ hand' = [hand EXCEPT ![h] = w] /\ wanted' = [wanted EXCEPT ![s] = to]
        /\ UNCHANGED <<list, steps, needed, progress, fresh, counted>>
    BY <1>2, <1>3 DEF ReadBoxes, Ask
  <1>5. /\ then \in Boxes /\ then \in [Steps -> StepStates] /\ wanted' \in [Steps -> StepStates]
        /\ steps \in Boxes
    BY <1>1, <1>2, <1>4 DEF BoxesFit, Boxes, ListTypes, StepStates
  <1>6. /\ w \in HandRows /\ w.at = "merge" /\ w.steps = steps /\ w.now = then
        /\ w.status = RunStatus(then) /\ RunStatus(then)' = RunStatus(then)
    BY <1>1, <1>3, <1>4, <1>5 DEF HandRows, ListTypes, ListStatuses, RunStatus, StepsIn
  <1>7. /\ hand' \in [Hands -> HandRows] /\ hand'[h] = w
        /\ \A g \in Hands \ {h} : hand'[g] = hand[g]
    BY <1>1, <1>4, <1>6, HandsAre
  <1>8. ListTypes'
    BY <1>1, <1>4, <1>5, <1>6, <1>7 DEF ListTypes, ProgressRow
  <1>9. ProgressFitsSteps'
    BY <1>6, <1>7 DEF ProgressFitsSteps
  <1>10. ASSUME NEW g \in Hands, hand'[g].at = "merge"
         PROVE  /\ hand'[g].now \in Boxes
                /\ fresh' = "yes" => /\ hand'[g].steps = steps'
                                     /\ hand'[g].status = RunStatus(hand[g].now)'
                /\ fresh' = "yes" /\ Alone(g)' => hand'[g].now = wanted'
    <2>1. CASE g # h
      <3>1. hand'[g] = hand[g] /\ ~Alone(g)' /\ RunStatus(hand[g].now)' = RunStatus(hand[g].now)
        BY <1>4, <1>6, <1>7, <2>1 DEF Alone, RunStatus, StepsIn
      <3> QED
        BY <1>1, <1>4, <1>10, <3>1 DEF BoxesFit
    <2>2. CASE g = h
      <3>1. ASSUME fresh = "yes", Alone(h)' PROVE then = wanted'
        <4>1. \A q \in Hands : hand[q].at = "idle"
          BY <1>1, <1>7, <3>1 DEF Alone
        <4>2. steps = wanted
          BY <1>1, <3>1, <4>1 DEF ProgressFitsSteps
        <4> QED
          BY <1>2, <1>4, <4>2
      <3>2. hand'[g].status = RunStatus(hand[g].now)'
        BY <1>4, <1>6, <1>7, <2>2 DEF RunStatus, StepsIn
      <3> QED
        BY <1>4, <1>5, <1>6, <1>7, <2>2, <3>1, <3>2
    <2> QED
      BY <2>1, <2>2
  <1>11. BoxesFit'
    BY <1>4, <1>5, <1>10 DEF BoxesFit
  <1> QED
    BY <1>1, <1>4, <1>8, <1>9, <1>11 DEF ListInv

\* and writes them all.
LEMMA WriteBoxesInv ==
  ASSUME ListInv, NEW h \in Hands, WriteBoxes(h)
  PROVE  ListInv'
  <1>1. /\ ListTypes /\ hand[h].at = "merge" /\ list = "runbook" /\ Steps # {} /\ BoxesFit
        /\ ProgressRow /\ hand[h] \in HandRows
    BY DEF ListInv, ListTypes, WriteBoxes
  <1>2. /\ steps' = hand[h].now /\ hand' = [hand EXCEPT ![h] = NoHand]
        /\ UNCHANGED <<list, needed, wanted>> /\ fresh' \in {"no", "yes"} /\ counted' = "yes"
        /\ fresh' = "yes" => fresh = "yes" /\ Alone(h)
        /\ progress' = [progress EXCEPT !.status = hand[h].status]
    BY DEF WriteBoxes, EndTick, Alone
  <1>3. /\ steps' \in Boxes /\ steps' \in [Steps -> StepStates]
        /\ fresh' = "yes" => steps' = wanted
    BY <1>1, <1>2 DEF BoxesFit, HandRows
  <1>4. NoHand \in HandRows /\ NoHand.at = "idle"
    BY NoHandIsARow
  <1>5. /\ hand' \in [Hands -> HandRows] /\ hand'[h] = NoHand
        /\ \A g \in Hands \ {h} : hand'[g] = hand[g]
    BY <1>1, <1>2, <1>4, HandsAre
  <1>6. /\ ProgressRow'
        /\ progress'.status = hand[h].status
    BY <1>1, <1>2 DEF ProgressRow, HandRows
  <1>7. ListTypes'
    BY <1>1, <1>2, <1>3, <1>4, <1>5, <1>6 DEF ListTypes
  <1>8. fresh' = "yes" => progress'.status = RunStatus(steps)'
    BY <1>1, <1>2, <1>6 DEF BoxesFit, RunStatus, StepsIn
  <1>9. ProgressFitsSteps'
    BY <1>1, <1>2, <1>3, <1>6, <1>8 DEF ProgressFitsSteps
  <1>10. ASSUME NEW g \in Hands, hand'[g].at = "merge"
         PROVE  hand'[g].now \in Boxes /\ fresh' = "no"
    <2>1. g # h /\ hand'[g] = hand[g]
      BY <1>4, <1>5, <1>10
    <2>2. ~Alone(h)
      BY <1>10, <2>1 DEF Alone
    <2> QED
      BY <1>1, <1>2, <1>10, <2>1, <2>2 DEF BoxesFit
  <1>11. BoxesFit'
    BY <1>3, <1>10 DEF BoxesFit
  <1> QED
    BY <1>1, <1>2, <1>7, <1>9, <1>11 DEF ListInv

LEMMA CancelListInv ==
  ASSUME ListInv, CancelList
  PROVE  ListInv'
  <1>1. /\ ListTypes /\ ProgressFitsSteps /\ list # "runbook" /\ steps = wanted
        /\ progress' = [progress EXCEPT !.status = "CANCELLED"]
        /\ UNCHANGED <<list, steps, needed, hand, wanted, fresh, counted>>
    BY DEF ListInv, CancelList
  <1>2. ProgressRow' /\ progress'.status = "CANCELLED" /\ progress'.done = progress.done
    BY <1>1 DEF ListTypes, ProgressRow, ListStatuses
  <1>3. ListTypes'
    BY <1>1, <1>2 DEF ListTypes
  <1>4. ListDone' = ListDone /\ StepsIn(steps, "done")' = StepsIn(steps, "done")
    BY <1>1 DEF ListDone, There, StepsIn
  <1>5. ProgressFitsSteps'
    BY <1>1, <1>2, <1>4 DEF ProgressFitsSteps
  <1> QED
    BY <1>1, <1>3, <1>5 DEF ListInv

\* An edit of the runbook takes the boxes of all.
LEMMA ReplaceStepsInv ==
  ASSUME ListInv, RecreateSteps
  PROVE  ListInv'
  <1>1. /\ ListTypes /\ BoxesFit /\ list = "runbook" /\ Unticked \in Boxes
        /\ Unticked \in [Steps -> StepStates]
    BY DEF ListInv, RecreateSteps, Unticked, Boxes, StepStates
  <1>2. /\ steps' = Unticked /\ wanted' = Unticked /\ needed' \subseteq Steps
        /\ counted' = "no" /\ UNCHANGED <<list, progress>>
        /\ hand' = [h \in Hands |-> IF hand[h].at = "merge"
                                    THEN [hand[h] EXCEPT !.now = Unticked] ELSE hand[h]]
        /\ fresh' = IF \E h \in Hands : hand[h].at = "merge" THEN "no" ELSE fresh
    BY DEF RecreateSteps
  <1>3. ASSUME NEW h \in Hands
        PROVE  /\ hand'[h] \in HandRows /\ hand'[h].at = hand[h].at
               /\ hand[h].at = "merge" => hand'[h].now = Unticked
    <2>1. hand[h] \in HandRows
      BY <1>1 DEF ListTypes
    <2> QED
      BY <1>1, <1>2, <2>1 DEF HandRows
  <1>4. hand' \in [Hands -> HandRows]
    BY <1>2, <1>3
  <1>5. ListTypes'
    BY <1>1, <1>2, <1>3, <1>4 DEF ListTypes, ProgressRow
  <1>6. ProgressFitsSteps'
    BY <1>1, <1>2 DEF ProgressFitsSteps
  <1>7. BoxesFit'
    BY <1>1, <1>2, <1>3 DEF BoxesFit
  <1> QED
    BY <1>1, <1>2, <1>5, <1>6, <1>7 DEF ListInv

LEMMA ListStepInv == ListInv /\ [ChecklistNext]_listVars => ListInv'
  <1> SUFFICES ASSUME ListInv, [ChecklistNext]_listVars PROVE ListInv'
    OBVIOUS
  <1>1. CASE UNCHANGED listVars
    <2>1. ListDone' = ListDone /\ StepsIn(steps, "done")' = StepsIn(steps, "done")
      BY <1>1 DEF listVars, ListDone, There, StepsIn
    <2>2. ProgressFitsSteps'
      BY <1>1, <2>1 DEF ListInv, ProgressFitsSteps, listVars, RunStatus, StepsIn
    <2> QED
      BY <1>1, <2>2
      DEF listVars, ListInv, ListTypes, ProgressRow, BoxesFit, Alone, RunStatus, StepsIn
  <1> QED
    BY <1>1, SetStepInv, ReadBoxesInv, ReadsInv, ReadCancelledInv, WriteProgressInv,
       WriteBoxesInv, HandDiesInv, CancelListInv, ReplaceStepsInv
    DEF ChecklistNext

LEMMA ListHolds == ListInv => ProgressFitsSteps
  BY DEF ListInv

-----------------------------------------------------------------------------
(****************************************************************************)
(* The reports of one month.  Until one is forced or looked for while       *)
(* another is made, one worker at most makes one, and only while there is   *)
(* none (OneReport); until a status is written over one that was not read,  *)
(* each row tells what was sent (RowsTell); what a row lacks of its file is *)
(* being removed, or stuck (FilesKept).                                     *)
(****************************************************************************)
ReportStatuses == {"none", "GENERATED", "SENT", "DOWNLOADED", "EXPIRED", "removed"}
ReportRows     == [status : ReportStatuses, sentAt : {"no", "yes"}]
DoingRows        == [at : {"idle", "look", "make", "create", "send", "post", "stamp", "count",
                         "expire", "unlink", "delete"}, report : 0..MaxReports,
                   read : {"none", "GENERATED", "SENT", "DOWNLOADED", "EXPIRED"}]
HasRead        == {"post", "stamp", "count", "expire", "unlink", "delete"}

\* What a job says of the row it has read.
JobFits(w, j) ==
    /\ j \in DoingRows
    /\ j.at \in {"unlink", "delete"} => w \in Staff
    /\ j.at \in HasRead => j.report \in ReportIds /\ j.read # "none"
    /\ j.at = "stamp" => j.report \in mailed

ReportTypes ==
    /\ reports \in [ReportIds -> ReportRows]
    /\ \A r \in ReportIds : reports[r].status = "none" => reports[r].sentAt = "no"
    /\ work \in [Workers -> DoingRows] /\ \A w \in Workers : JobFits(w, work[w])
    /\ twofold \in {"no", "yes"} /\ written \in {"no", "yes"}

Persons == {w \in Workers : work[w].at \in {"make", "create"}}
OneReport == /\ \A r, q \in Alive : r = q
             /\ \A w, v \in Persons : w = v
             /\ Persons # {} => Alive = {}

TellsOf(row, sent) == /\ row.sentAt = "yes" => row.status # "GENERATED"
                      /\ row.status \in {"SENT", "DOWNLOADED"} => row.sentAt = "yes" /\ sent
RowsTell == \A r \in Alive : TellsOf(reports[r], r \in mailed)

FilesKept == \A r \in Alive \ (onDisk \union stuck) :
                \E w \in Staff : work[w].at = "delete" /\ work[w].report = r

ReportsInv == /\ ReportTypes /\ FilesKept
              /\ twofold = "no" => OneReport
              /\ written = "no" => RowsTell

LEMMA NoJobIs ==
  /\ NoJob.at = "idle" /\ \A w : JobFits(w, NoJob) /\ JobFits(w, NoJob)'
  /\ 0 \in 0..MaxReports /\ MaxReports \in Nat /\ ReportIds \subseteq 0..MaxReports
  BY ReportsAssumption DEF NoJob, JobFits, DoingRows, HasRead, ReportIds

LEMMA ReportsInitInv == ReportsInit => ReportsInv
  <1> SUFFICES ASSUME ReportsInit PROVE ReportsInv
    OBVIOUS
  <1>1. /\ reports = [r \in ReportIds |-> NoReport] /\ work = [w \in Workers |-> NoJob]
        /\ NoReport \in ReportRows /\ NoReport.status = "none" /\ NoReport.sentAt = "no"
        /\ written = "no" /\ twofold = "no"
    BY DEF ReportsInit, NoReport, ReportRows, ReportStatuses
  <1>2. /\ \A r \in ReportIds : reports[r].status = "none"
        /\ \A w \in Workers : work[w] = NoJob
        /\ Alive = {} /\ Persons = {}
    BY <1>1, NoJobIs DEF Alive, Persons
  <1>3. NoJob \in DoingRows
    BY NoJobIs DEF JobFits
  <1>4. ReportTypes
    BY <1>1, <1>2, <1>3, NoJobIs DEF ReportTypes
  <1>5. FilesKept /\ OneReport /\ RowsTell
    BY <1>2 DEF FilesKept, OneReport, RowsTell
  <1> QED
    BY <1>4, <1>5 DEF ReportsInv

\* The row of one worker.
LEMMA JobIs ==
  ASSUME ReportTypes, NEW w \in Workers, NEW j, JobFits(w, j)', work' = [work EXCEPT ![w] = j],
         mailed \subseteq mailed'
  PROVE  /\ work' \in [Workers -> DoingRows] /\ work'[w] = j
         /\ \A v \in Workers \ {w} : work'[v] = work[v]
         /\ \A v \in Workers : JobFits(v, work[v])'
  <1>1. j \in DoingRows
    BY DEF JobFits
  <1>2. /\ work' \in [Workers -> DoingRows] /\ work'[w] = j
        /\ \A v \in Workers \ {w} : work'[v] = work[v]
    BY <1>1 DEF ReportTypes
  <1>3. ASSUME NEW v \in Workers PROVE JobFits(v, work[v])'
    <2>1. CASE v = w
      BY <1>2, <2>1 DEF JobFits
    <2>2. CASE v # w
      <3>1. work'[v] = work[v] /\ JobFits(v, work[v])
        BY <1>2, <2>2 DEF ReportTypes
      <3> QED
        BY <3>1 DEF JobFits
    <2> QED
      BY <2>1, <2>2
  <1> QED
    BY <1>2, <1>3

\* A worker goes on, and no row changes.
LEMMA WorkGoesInv ==
  ASSUME ReportsInv, NEW w \in Workers, NEW j, JobFits(w, j)', work' = [work EXCEPT ![w] = j],
         mailed \subseteq mailed', UNCHANGED <<reports, written>>,
         onDisk \subseteq onDisk'
                            \union (IF j.at = "delete" /\ w \in Staff THEN {j.report} ELSE {}),
         stuck \subseteq stuck',
         work[w].at = "delete" => work[w].report \in stuck',
         twofold' \in {"no", "yes"},
         twofold' = "no" => /\ twofold = "no"
                            /\ j.at \in {"make", "create"} /\ work[w].at \notin {"make", "create"}
                               => Alive = {} /\ Persons = {}
  PROVE  ReportsInv'
  <1>1. ReportTypes /\ Alive' = Alive /\ j \in DoingRows
    BY DEF ReportsInv, Alive, JobFits
  <1>2. /\ work' \in [Workers -> DoingRows] /\ work'[w] = j
        /\ \A v \in Workers \ {w} : work'[v] = work[v]
        /\ \A v \in Workers : JobFits(v, work[v])'
    BY <1>1, JobIs
  <1>3. ReportTypes'
    BY <1>1, <1>2 DEF ReportTypes
  <1>4. FilesKept'
    <2> SUFFICES ASSUME NEW r \in Alive, r \notin onDisk', r \notin stuck'
                 PROVE  \E v \in Staff : work'[v].at = "delete" /\ work'[v].report = r
      BY <1>1 DEF FilesKept
    <2>1. CASE r \in onDisk
      <3>1. j.at = "delete" /\ w \in Staff /\ r = j.report
        BY <2>1
      <3> QED
        BY <1>2, <3>1
    <2>2. CASE r \notin onDisk
      <3>1. PICK v \in Staff : work[v].at = "delete" /\ work[v].report = r
        BY <2>2 DEF ReportsInv, FilesKept
      <3>2. v # w /\ v \in Workers
        BY <3>1 DEF Workers
      <3> QED
        BY <1>2, <3>1, <3>2
    <2> QED
      BY <2>1, <2>2
  <1>5. ASSUME twofold' = "no" PROVE OneReport'
    <2>1. OneReport
      BY <1>5 DEF ReportsInv
    <2>2. CASE j.at \in {"make", "create"} /\ work[w].at \notin {"make", "create"}
      <3>1. Alive' = {} /\ Persons' = {w}
        BY <1>1, <1>2, <1>5, <2>2 DEF Persons
      <3> QED
        BY <3>1 DEF OneReport
    <2>3. CASE ~(j.at \in {"make", "create"} /\ work[w].at \notin {"make", "create"})
      <3>1. Persons' \subseteq Persons
        BY <1>2, <2>3 DEF Persons
      <3> QED
        BY <1>1, <2>1, <3>1 DEF OneReport
    <2> QED
      BY <2>2, <2>3
  <1>6. ASSUME written' = "no" PROVE RowsTell'
    <2>1. RowsTell
      BY <1>6 DEF ReportsInv
    <2> QED
      BY <1>1, <2>1 DEF RowsTell, TellsOf
  <1> QED
    BY <1>3, <1>4, <1>5, <1>6 DEF ReportsInv

\* The jobs that an action gives.
LEMMA JobGiven ==
  ASSUME ReportsInv, NEW w \in Workers, NEW at, NEW r, NEW read, Does(w, at, r, read),
         JobFits(w, [at |-> at, report |-> r, read |-> read])'
  PROVE  \E j : /\ JobFits(w, j)' /\ work' = [work EXCEPT ![w] = j]
                /\ j.at = at /\ j.report = r
  <1> DEFINE j == [at |-> at, report |-> r, read |-> read]
  <1>1. JobFits(w, j)' /\ work' = [work EXCEPT ![w] = j] /\ j.at = at /\ j.report = r
    BY DEF Does
  <1> QED
    BY <1>1

LEMMA StopsGiven ==
  ASSUME NEW w, Stops(w)
  PROVE  \E j : JobFits(w, j)' /\ work' = [work EXCEPT ![w] = j] /\ j.at = "idle"
  BY NoJobIs DEF Stops

LEMMA StartReportInv ==
  ASSUME ReportsInv, NEW w \in Workers, StartReport(w)
  PROVE  ReportsInv'
  <1>1. /\ work[w].at = "idle" /\ UNCHANGED <<reports, onDisk, mailed, written, stuck>>
        /\ twofold \in {"no", "yes"}
        /\ \/ Does(w, "look", 0, "none") /\ UNCHANGED twofold
           \/ Does(w, "make", 0, "none") /\ twofold' = "yes"
    BY DEF StartReport, ReportsInv, ReportTypes
  <1>2. /\ JobFits(w, [at |-> "look", report |-> 0, read |-> "none"])'
        /\ JobFits(w, [at |-> "make", report |-> 0, read |-> "none"])'
    BY NoJobIs DEF JobFits, DoingRows, HasRead
  <1>3. PICK j : /\ JobFits(w, j)' /\ work' = [work EXCEPT ![w] = j]
                 /\ (j.at = "look" /\ UNCHANGED twofold) \/ (j.at = "make" /\ twofold' = "yes")
    <2>1. CASE Does(w, "look", 0, "none") /\ UNCHANGED twofold
      <3>1. PICK j : JobFits(w, j)' /\ work' = [work EXCEPT ![w] = j] /\ j.at = "look"
        BY <1>2, <2>1, JobGiven
      <3> QED
        BY <2>1, <3>1
    <2>2. CASE Does(w, "make", 0, "none") /\ twofold' = "yes"
      <3>1. PICK j : JobFits(w, j)' /\ work' = [work EXCEPT ![w] = j] /\ j.at = "make"
        BY <1>2, <2>2, JobGiven
      <3> QED
        BY <2>2, <3>1
    <2> QED
      BY <1>1, <2>1, <2>2
  <1>4. twofold' \in {"no", "yes"}
    BY <1>1, <1>3
  <1> QED
    BY <1>1, <1>3, <1>4, WorkGoesInv

LEMMA LookForReportInv ==
  ASSUME ReportsInv, NEW w \in Workers, LookForReport(w)
  PROVE  ReportsInv'
  <1>1. /\ work[w].at = "look" /\ UNCHANGED <<reports, onDisk, mailed, written, stuck>>
        /\ twofold \in {"no", "yes"}
    BY DEF LookForReport, ReportsInv, ReportTypes
  <1>2. CASE Alive # {}
    <2>1. PICK r \in Alive : Does(w, "send", r, "none") \/ Stops(w)
      BY <1>2 DEF LookForReport, Existing
    <2>2. r \in 0..MaxReports
      BY NoJobIs DEF Alive
    <2>3. JobFits(w, [at |-> "send", report |-> r, read |-> "none"])'
      BY <2>2 DEF JobFits, DoingRows, HasRead
    <2>4. PICK j : /\ JobFits(w, j)' /\ work' = [work EXCEPT ![w] = j]
                   /\ j.at \in {"send", "idle"}
      BY <2>1, <2>3, JobGiven, StopsGiven
    <2>5. UNCHANGED twofold
      BY <1>2 DEF LookForReport, Existing
    <2> QED
      BY <1>1, <2>4, <2>5, WorkGoesInv
  <1>3. CASE Alive = {}
    <2>1. /\ Does(w, "make", 0, "none")
          /\ twofold' = IF \E v \in Workers : work[v].at \in {"make", "create"} THEN "yes"
                        ELSE twofold
      BY <1>3 DEF LookForReport, Existing
    <2>2. JobFits(w, [at |-> "make", report |-> 0, read |-> "none"])'
      BY NoJobIs DEF JobFits, DoingRows, HasRead
    <2>3. PICK j : JobFits(w, j)' /\ work' = [work EXCEPT ![w] = j] /\ j.at = "make"
      BY <2>1, <2>2, JobGiven
    <2>4. twofold' \in {"no", "yes"} /\ (twofold' = "no" => twofold = "no" /\ Persons = {})
      BY <1>1, <2>1 DEF Persons
    <2> QED
      BY <1>1, <1>3, <2>3, <2>4, WorkGoesInv
  <1> QED
    BY <1>2, <1>3

LEMMA MakeFileInv ==
  ASSUME ReportsInv, NEW w \in Workers, MakeFile(w)
  PROVE  ReportsInv'
  <1>1. /\ work[w].at = "make" /\ UNCHANGED <<reports, onDisk, mailed, written, stuck, twofold>>
        /\ twofold \in {"no", "yes"} /\ Does(w, "create", 0, "none")
    BY DEF MakeFile, ReportsInv, ReportTypes
  <1>2. JobFits(w, [at |-> "create", report |-> 0, read |-> "none"])'
    BY NoJobIs DEF JobFits, DoingRows, HasRead
  <1>3. PICK j : JobFits(w, j)' /\ work' = [work EXCEPT ![w] = j] /\ j.at = "create"
    BY <1>1, <1>2, JobGiven
  <1> QED
    BY <1>1, <1>3, WorkGoesInv

LEMMA ReadsReportInv ==
  ASSUME ReportsInv, NEW w \in Workers,
         ReadToSend(w) \/ ReadToRemove(w) \/ (w = "customer" /\ OpenLink)
  PROVE  ReportsInv'
  <1>1. /\ work[w].at \in {"idle", "send"} /\ twofold \in {"no", "yes"} /\ ReportTypes
        /\ UNCHANGED <<reports, onDisk, mailed, written, stuck, twofold>>
    BY DEF ReadToSend, ReadToRemove, OpenLink, ReportsInv, ReportTypes
  <1>2. \/ \E at \in {"post", "count", "expire", "unlink"}, r \in Alive :
             (at = "unlink" => w \in Staff) /\ Does(w, at, r, reports[r].status)
        \/ Stops(w)
    BY DEF ReadToSend, ReadToRemove, OpenLink
  <1>3. PICK j : /\ JobFits(w, j)' /\ work' = [work EXCEPT ![w] = j]
                 /\ j.at \in {"post", "count", "expire", "unlink", "idle"}
    <2>1. ASSUME NEW at \in {"post", "count", "expire", "unlink"}, NEW r \in Alive,
                 at = "unlink" => w \in Staff, Does(w, at, r, reports[r].status)
          PROVE  \E j : /\ JobFits(w, j)' /\ work' = [work EXCEPT ![w] = j]
                        /\ j.at \in {"post", "count", "expire", "unlink", "idle"}
      <3>1. PICK read : read = reports[r].status
        OBVIOUS
      <3>2. JobFits(w, [at |-> at, report |-> r, read |-> read])'
        <4>1. /\ r \in ReportIds /\ r \in 0..MaxReports
              /\ read \in {"GENERATED", "SENT", "DOWNLOADED", "EXPIRED"}
          BY <1>1, <3>1, NoJobIs DEF Alive, ReportTypes, ReportRows, ReportStatuses
        <4> QED
          BY <2>1, <4>1 DEF JobFits, DoingRows, HasRead
      <3>3. PICK j : JobFits(w, j)' /\ work' = [work EXCEPT ![w] = j] /\ j.at = at
        BY <2>1, <3>1, <3>2, JobGiven
      <3> QED
        BY <2>1, <3>3
    <2> QED
      BY <1>2, <2>1, StopsGiven
  <1> QED
    BY <1>1, <1>3, WorkGoesInv

LEMMA PostReportInv ==
  ASSUME ReportsInv, NEW w \in Workers, PostReport(w)
  PROVE  ReportsInv'
  <1>1. /\ work[w].at = "post" /\ twofold \in {"no", "yes"} /\ JobFits(w, work[w])
        /\ UNCHANGED <<reports, onDisk, written, stuck, twofold>> /\ mailed \subseteq mailed'
    BY DEF PostReport, ReportsInv, ReportTypes
  <1>2. PICK j : JobFits(w, j)' /\ work' = [work EXCEPT ![w] = j] /\ j.at \in {"stamp", "idle"}
    <2>1. CASE Stops(w)
      BY <2>1, StopsGiven
    <2>2. CASE /\ mailed' = mailed \union {work[w].report}
               /\ Does(w, "stamp", work[w].report, work[w].read)
      <3>1. PICK r, read : r = work[w].report /\ read = work[w].read
        OBVIOUS
      <3>2. JobFits(w, [at |-> "stamp", report |-> r, read |-> read])'
        BY <1>1, <2>2, <3>1 DEF JobFits, DoingRows, HasRead
      <3> QED
        BY <2>2, <3>1, <3>2, JobGiven
    <2> QED
      BY <2>1, <2>2 DEF PostReport
  <1> QED
    BY <1>1, <1>2, WorkGoesInv

LEMMA UnlinkFileInv ==
  ASSUME ReportsInv, NEW w \in Workers, UnlinkFile(w)
  PROVE  ReportsInv'
  <1>1. PICK r, read : r = work[w].report /\ read = work[w].read
    OBVIOUS
  <1>2. /\ work[w].at = "unlink" /\ twofold \in {"no", "yes"} /\ JobFits(w, work[w])
        /\ UNCHANGED <<reports, mailed, written, stuck, twofold>> /\ onDisk' = onDisk \ {r}
        /\ Does(w, "delete", r, read)
    BY <1>1 DEF UnlinkFile, ReportsInv, ReportTypes
  <1>3. JobFits(w, [at |-> "delete", report |-> r, read |-> read])' /\ w \in Staff
    BY <1>1, <1>2 DEF JobFits, DoingRows, HasRead
  <1>4. PICK j : /\ JobFits(w, j)' /\ work' = [work EXCEPT ![w] = j]
                 /\ j.at = "delete" /\ j.report = r
    BY <1>2, <1>3, JobGiven
  <1> QED
    BY <1>2, <1>3, <1>4, WorkGoesInv

LEMMA WorkerStopsInv ==
  ASSUME ReportsInv, NEW w \in Workers, WorkerStops(w)
  PROVE  ReportsInv'
  <1>1. /\ twofold \in {"no", "yes"} /\ Stops(w)
        /\ UNCHANGED <<reports, mailed, onDisk, written, twofold>>
        /\ stuck \subseteq stuck' /\ (work[w].at = "delete" => work[w].report \in stuck')
    BY DEF WorkerStops, ReportsInv, ReportTypes
  <1>2. PICK j : JobFits(w, j)' /\ work' = [work EXCEPT ![w] = j] /\ j.at = "idle"
    BY <1>1, StopsGiven
  <1> QED
    BY <1>1, <1>2, WorkGoesInv

\* One row changes, and the worker stops or goes on to send.
LEMMA RowGoesInv ==
  ASSUME ReportsInv, NEW w \in Workers, NEW j, JobFits(w, j)', work' = [work EXCEPT ![w] = j],
         NEW r \in ReportIds, NEW row \in ReportRows, reports' = [reports EXCEPT ![r] = row],
         row.status # "none", UNCHANGED <<mailed, stuck, twofold>>, written' \in {"no", "yes"},
         written' = "no" => written = "no", j.at \in {"idle", "send"},
         \/ r \in Alive /\ onDisk' = onDisk /\ (work[w].at = "delete" => work[w].report = r
                                                                     /\ row.status = "removed")
         \/ work[w].at = "create" /\ onDisk' = onDisk \union {r},
         written' = "no" => row.status = "removed" \/ TellsOf(row, r \in mailed)
  PROVE  ReportsInv'
  <1>1. ReportTypes /\ j \in DoingRows
    BY DEF ReportsInv, JobFits
  <1>2. /\ work' \in [Workers -> DoingRows] /\ work'[w] = j
        /\ \A v \in Workers \ {w} : work'[v] = work[v]
        /\ \A v \in Workers : JobFits(v, work[v])'
    BY <1>1, JobIs
  <1>3. reports'[r] = row /\ \A q \in ReportIds \ {r} : reports'[q] = reports[q]
    BY <1>1 DEF ReportTypes
  <1>4. reports' \in [ReportIds -> ReportRows]
    BY <1>1 DEF ReportTypes
  <1>5. ReportTypes'
    BY <1>1, <1>2, <1>3, <1>4 DEF ReportTypes
  <1>6. /\ \A q \in ReportIds \ {r} : q \in Alive' <=> q \in Alive
        /\ r \in Alive' <=> row.status # "removed"
        /\ Alive' \subseteq Alive \union {r} /\ Alive' \subseteq ReportIds
    BY <1>3 DEF Alive
  <1>7. FilesKept'
    <2> SUFFICES ASSUME NEW q \in Alive', q \notin onDisk', q \notin stuck
                 PROVE  \E v \in Staff : work'[v].at = "delete" /\ work'[v].report = q
      BY DEF FilesKept
    <2>1. q \in Alive /\ q \notin onDisk
      BY <1>6
    <2>2. PICK v \in Staff : work[v].at = "delete" /\ work[v].report = q
      BY <2>1 DEF ReportsInv, FilesKept
    <2>3. v # w /\ v \in Workers
      BY <1>6, <2>2 DEF Workers
    <2> QED
      BY <1>2, <2>2, <2>3
  <1>8. ASSUME twofold = "no" PROVE OneReport'
    <2>1. OneReport
      BY <1>8 DEF ReportsInv
    <2>2. Persons' = Persons \ {w}
      BY <1>2 DEF Persons
    <2>3. CASE r \in Alive
      <3>1. Alive' \subseteq Alive
        BY <1>6, <2>3
      <3> QED
        BY <2>1, <2>2, <3>1 DEF OneReport
    <2>4. CASE work[w].at = "create"
      <3>1. w \in Persons /\ Persons' = {} /\ Alive = {}
        BY <2>1, <2>2, <2>4 DEF OneReport, Persons
      <3> QED
        BY <1>6, <3>1 DEF OneReport
    <2> QED
      BY <2>3, <2>4
  <1>9. ASSUME written' = "no" PROVE RowsTell'
    <2>1. RowsTell
      BY <1>9 DEF ReportsInv
    <2>2. ASSUME NEW q \in Alive' PROVE TellsOf(reports[q], q \in mailed)'
      <3>1. CASE q = r
        BY <1>3, <1>6, <1>9, <3>1 DEF TellsOf
      <3>2. CASE q # r
        BY <1>3, <1>6, <2>1, <3>2 DEF RowsTell, TellsOf
      <3> QED
        BY <3>1, <3>2
    <2> QED
      BY <2>2 DEF RowsTell
  <1> QED
    BY <1>5, <1>7, <1>8, <1>9 DEF ReportsInv

LEMMA CreateReportInv ==
  ASSUME ReportsInv, NEW w \in Workers, CreateReport(w)
  PROVE  ReportsInv'
  <1>1. PICK r \in ReportIds :
          /\ reports[r].status = "none" /\ reports' = [reports EXCEPT ![r].status = "GENERATED"]
          /\ onDisk' = onDisk \union {r} /\ (Does(w, "send", r, "none") \/ Stops(w))
    BY DEF CreateReport
  <1>2. /\ work[w].at = "create" /\ UNCHANGED <<mailed, written, twofold, stuck>> /\ ReportTypes
        /\ written \in {"no", "yes"}
    BY DEF CreateReport, ReportsInv, ReportTypes
  <1>3. PICK row : row = [reports[r] EXCEPT !.status = "GENERATED"]
    OBVIOUS
  <1>4. /\ row \in ReportRows /\ row.status = "GENERATED" /\ row.sentAt = "no"
        /\ reports' = [reports EXCEPT ![r] = row]
    BY <1>1, <1>2, <1>3 DEF ReportTypes, ReportRows, ReportStatuses
  <1>5. JobFits(w, [at |-> "send", report |-> r, read |-> "none"])'
    BY NoJobIs DEF JobFits, DoingRows, HasRead
  <1>6. PICK j : JobFits(w, j)' /\ work' = [work EXCEPT ![w] = j] /\ j.at \in {"send", "idle"}
    BY <1>1, <1>5, JobGiven, StopsGiven
  <1>7. TellsOf(row, r \in mailed)
    BY <1>4 DEF TellsOf
  <1> QED
    BY <1>1, <1>2, <1>4, <1>6, <1>7, RowGoesInv

\* The row that is not there is not written.
LEMMA NotThereInv ==
  ASSUME ReportsInv, NEW w \in Workers, Stops(w), work[w].report \notin Alive,
         UNCHANGED <<reports, onDisk, mailed, written, stuck, twofold>>
  PROVE  ReportsInv'
  <1>1. PICK j : JobFits(w, j)' /\ work' = [work EXCEPT ![w] = j] /\ j.at = "idle"
    BY StopsGiven
  <1>2. ReportTypes /\ Alive' = Alive
    BY DEF ReportsInv, Alive
  <1>3. /\ work' \in [Workers -> DoingRows] /\ work'[w] = j
        /\ \A v \in Workers \ {w} : work'[v] = work[v]
        /\ \A v \in Workers : JobFits(v, work[v])'
    BY <1>1, <1>2, JobIs
  <1>4. ReportTypes'
    BY <1>2, <1>3 DEF ReportTypes
  <1>5. FilesKept'
    <2> SUFFICES ASSUME NEW r \in Alive, r \notin onDisk, r \notin stuck
                 PROVE  \E v \in Staff : work'[v].at = "delete" /\ work'[v].report = r
      BY <1>2 DEF FilesKept
    <2>1. PICK v \in Staff : work[v].at = "delete" /\ work[v].report = r
      BY DEF ReportsInv, FilesKept
    <2>2. v # w /\ v \in Workers
      BY <2>1 DEF Workers
    <2> QED
      BY <1>3, <2>1, <2>2
  <1>6. OneReport => OneReport'
    <2>1. Persons' \subseteq Persons
      BY <1>1, <1>3 DEF Persons
    <2> QED
      BY <1>2, <2>1 DEF OneReport
  <1>7. RowsTell => RowsTell'
    BY <1>2 DEF RowsTell, TellsOf
  <1> QED
    BY <1>4, <1>5, <1>6, <1>7 DEF ReportsInv

LEMMA WritesReportInv ==
  ASSUME ReportsInv, NEW w \in Workers, StampSent(w) \/ (w = "customer" /\ CountDownload)
  PROVE  ReportsInv'
  <1>1. PICK r, at, read : r = work[w].report /\ at = work[w].at /\ read = work[w].read
    OBVIOUS
  <1>2. /\ at \in {"stamp", "count", "expire"} /\ ReportTypes /\ JobFits(w, work[w]) /\ Stops(w)
        /\ UNCHANGED <<onDisk, mailed, stuck, twofold>> /\ written \in {"no", "yes"}
        /\ reports[r].sentAt \in {"no", "yes"} /\ r \in ReportIds
    BY <1>1 DEF StampSent, CountDownload, ReportsInv, ReportTypes, JobFits, HasRead, ReportRows
  <1>3. PICK status, sent :
          /\ WritesReport(w, status, sent)
          /\ IF at = "stamp" THEN status = "SENT" /\ sent = "yes"
             ELSE status = Counted(at, read) /\ sent = reports[r].sentAt
    BY <1>1, <1>2 DEF StampSent, CountDownload
  <1>4. PICK j : JobFits(w, j)' /\ work' = [work EXCEPT ![w] = j] /\ j.at = "idle"
    BY <1>2, StopsGiven
  <1>5. CASE r \notin Alive
    <2>1. UNCHANGED <<reports, written>>
      BY <1>1, <1>3, <1>5 DEF WritesReport
    <2> QED
      BY <1>1, <1>2, <1>5, <2>1, NotThereInv
  <1>6. CASE r \in Alive
    <2>1. PICK row : row = [status |-> status, sentAt |-> sent]
      OBVIOUS
    <2>2. /\ reports' = [reports EXCEPT ![r] = row]
          /\ written' = IF reports[r].status # read THEN "yes" ELSE written
      BY <1>1, <1>3, <1>6, <2>1 DEF WritesReport
    <2>3. read \in {"GENERATED", "SENT", "DOWNLOADED", "EXPIRED"}
      BY <1>1, <1>2 DEF JobFits, HasRead, DoingRows
    <2>4. /\ row \in ReportRows /\ row.status = status /\ row.sentAt = sent
          /\ status \in {"GENERATED", "SENT", "DOWNLOADED", "EXPIRED"}
      BY <1>2, <1>3, <2>1, <2>3 DEF ReportRows, ReportStatuses, Counted
    <2>5. ASSUME written' = "no" PROVE TellsOf(row, r \in mailed)
      <3>1. /\ reports[r].status = read /\ TellsOf(reports[r], r \in mailed)
        BY <1>6, <2>2, <2>5 DEF ReportsInv, RowsTell
      <3>2. at = "stamp" => r \in mailed
        BY <1>1, <1>2 DEF JobFits
      <3> QED
        BY <1>2, <1>3, <2>4, <3>1, <3>2 DEF TellsOf, Counted
    <2>6. written' \in {"no", "yes"} /\ (written' = "no" => written = "no") /\ row.status # "none"
      BY <1>2, <2>2, <2>4
    <2> QED
      BY <1>1, <1>2, <1>4, <1>6, <2>2, <2>4, <2>5, <2>6, RowGoesInv
  <1> QED
    BY <1>5, <1>6

LEMMA DeleteReportInv ==
  ASSUME ReportsInv, NEW w \in Workers, DeleteReport(w)
  PROVE  ReportsInv'
  <1>1. PICK r : r = work[w].report
    OBVIOUS
  <1>2. /\ work[w].at = "delete" /\ Stops(w) /\ ReportTypes /\ r \in ReportIds
        /\ UNCHANGED <<onDisk, mailed, written, twofold, stuck>> /\ written \in {"no", "yes"}
    BY <1>1 DEF DeleteReport, ReportsInv, ReportTypes, JobFits, HasRead
  <1>3. CASE r \notin Alive
    <2>1. reports' = reports
      BY <1>1, <1>3 DEF DeleteReport
    <2> QED
      BY <1>1, <1>2, <1>3, <2>1, NotThereInv
  <1>4. CASE r \in Alive
    <2>1. reports' = [reports EXCEPT ![r].status = "removed"]
      BY <1>1, <1>4 DEF DeleteReport
    <2>2. PICK row : row = [reports[r] EXCEPT !.status = "removed"]
      OBVIOUS
    <2>3. /\ row \in ReportRows /\ row.status = "removed"
          /\ reports' = [reports EXCEPT ![r] = row]
      BY <1>2, <2>1, <2>2 DEF ReportTypes, ReportRows, ReportStatuses
    <2>4. PICK j : JobFits(w, j)' /\ work' = [work EXCEPT ![w] = j] /\ j.at = "idle"
      BY <1>2, StopsGiven
    <2> QED
      BY <1>1, <1>2, <1>4, <2>3, <2>4, RowGoesInv
  <1> QED
    BY <1>3, <1>4

LEMMA ReportsStepInv == ReportsInv /\ [ReportsNext]_reportVars => ReportsInv'
  <1> SUFFICES ASSUME ReportsInv, [ReportsNext]_reportVars PROVE ReportsInv'
    OBVIOUS
  <1>1. CASE UNCHANGED reportVars \/ \E r \in ReportIds : PassLinkDate(r)
    <2>1. UNCHANGED <<reports, onDisk, mailed, work, written, twofold, stuck>>
      BY <1>1 DEF reportVars, PassLinkDate
    <2> QED
      BY <2>1 DEF ReportsInv, ReportTypes, JobFits, FilesKept, OneReport, Persons, RowsTell,
                  TellsOf, Alive
  <1>2. "customer" \in Workers
    BY DEF Workers
  <1> QED
    BY <1>1, <1>2, StartReportInv, LookForReportInv, MakeFileInv, CreateReportInv, ReadsReportInv,
       PostReportInv, WritesReportInv, UnlinkFileInv, DeleteReportInv, WorkerStopsInv
    DEF ReportsNext

LEMMA ReportsHold == ReportsInv => ReportsAreTold
  <1> SUFFICES ASSUME ReportsInv PROVE ReportsAreTold
    OBVIOUS
  <1>1. ASSUME twofold = "no" PROVE Cardinality(Alive) <= 1
    <2>1. \A r, q \in Alive : r = q
      BY <1>1 DEF ReportsInv, OneReport
    <2>2. CASE Alive = {}
      BY <2>2, FS_EmptySet
    <2>3. CASE Alive # {}
      <3>1. PICK r : Alive = {r}
        BY <2>1, <2>3
      <3>2. Cardinality({r}) = 1
        BY FS_Singleton
      <3> QED
        BY <3>1, <3>2
    <2> QED
      BY <2>2, <2>3
  <1>2. written = "no" =>
          \A r \in Alive : /\ reports[r].sentAt = "yes" => reports[r].status # "GENERATED"
                          /\ reports[r].status \in {"SENT", "DOWNLOADED"} =>
                                               reports[r].sentAt = "yes" /\ r \in mailed
    BY DEF ReportsInv, RowsTell, TellsOf
  <1> QED
    BY <1>1, <1>2 DEF ReportsInv, FilesKept, ReportsAreTold

-----------------------------------------------------------------------------
(*****************************************************************************)
(* The answers of the cache.  As long as no fetch outlasts a tick, a version *)
(* that a request is to store was replaced in this tick at the earliest, or  *)
(* came from the entry of the cyber score (ReaderFresh); so an entry expires *)
(* before the age of its version is that of MaxAge (EntryFresh).  As long as *)
(* no fetch is overrun, the entry of a setting is that of its row, or the    *)
(* update that wrote the row has still to drop it (SettingFresh).            *)
(*****************************************************************************)
KeyNames   == {"instance", "tenant", "cyber", "health"}
HeldRows  == [version : Int, until : Nat]
ReaderRows == [at : {"idle", "fetch", "store"}, asked : KeyNames, key : KeyNames, version : Int]

CacheTypes ==
    /\ subject \in {"setting", "scores"} /\ tick \in Nat
    /\ now \in [Keys -> Versions] /\ outdated \in [Keys -> [Versions -> Int]]
    /\ cache \in [Keys -> HeldRows]
    /\ \A k \in Keys : cache[k].version \in Versions \union {-1}
    /\ reader \in [Readers -> ReaderRows]
    /\ \A r \in Readers : reader[r].at # "idle" =>
          /\ reader[r].key \in Keys /\ reader[r].asked \in Keys
          /\ reader[r].key # reader[r].asked => reader[r].asked = "health"
          /\ reader[r].at = "store" => reader[r].version \in Versions
    /\ dropping \subseteq {"instance", "tenant"}
    /\ ownRow \in {"no", "yes"} /\ passed \in {"no", "yes"} /\ overran \in {"no", "yes"}

\* A version that is no longer that of the database was replaced at that tick or later.
ReplacedSince(k, v, since) == v # now[k] => outdated[k][v] >= since

EntryFresh(k) == cache[k].version # -1
                   => ReplacedSince(k, cache[k].version, cache[k].until - MaxAge[k])
ReadSince(k) == IF k = "health" THEN tick + 1 - CyberTtl ELSE tick
ReaderFresh(r) ==
    reader[r].at = "store"
      => ReplacedSince(reader[r].key, reader[r].version, ReadSince(reader[r].key))
AgesFit == (\A k \in Keys : EntryFresh(k)) /\ (\A r \in Readers : ReaderFresh(r))

EntriesExpire == \A k \in Keys : cache[k].version # -1 => cache[k].until <= tick + Ttl[k]

\* One row stands for both scores.
Twins == subject = "scores"
           => now["cyber"] = now["health"] /\ outdated["cyber"] = outdated["health"]

SettingFresh ==
    /\ cache["instance"].version \in {-1, now["instance"]} \/ "instance" \in dropping
    /\ ownRow = "yes" => cache["tenant"].version \in {-1, now["tenant"]} \/ "tenant" \in dropping

CacheInv ==
    /\ CacheTypes /\ EntriesExpire /\ Twins
    /\ passed = "no" => AgesFit
    /\ subject = "setting" /\ overran = "no" => SettingFresh

LEMMA KeysAre ==
  ASSUME subject \in {"setting", "scores"}
  PROVE  /\ subject = "setting" => Keys = {"instance", "tenant"}
         /\ subject = "scores" => Keys = {"cyber", "health"}
         /\ Keys \subseteq KeyNames
         /\ Versions = 0..MaxWritten[subject] /\ MaxWritten[subject] \in Nat
         /\ 0 \in Versions /\ Versions \subseteq Nat
  <1>1. MaxWritten[subject] \in Nat
    BY CacheAssumption
  <1>2. CASE subject = "setting"
    BY <1>1, <1>2 DEF Keys, KeysOf, KeyNames, Versions
  <1>3. CASE subject = "scores"
    BY <1>1, <1>3 DEF Keys, KeysOf, KeyNames, Versions
  <1> QED
    BY <1>2, <1>3

LEMMA TtlsAre ==
  /\ CyberTtl \in Nat /\ CyberTtl > 0
  /\ \A k \in KeyNames : Ttl[k] \in Nat /\ MaxAge[k] \in Nat /\ MaxAge[k] >= Ttl[k]
  /\ MaxAge["health"] = CyberTtl + Ttl["health"] /\ MaxAge["cyber"] = CyberTtl
  <1>1. CyberTtl \in Nat \ {0} /\ HealthTtl \in Nat \ {0} /\ SettingTtl \in Nat \ {0}
    BY CacheAssumption
  <1>2. /\ Ttl["instance"] = SettingTtl /\ Ttl["tenant"] = SettingTtl
        /\ Ttl["cyber"] = CyberTtl /\ Ttl["health"] = HealthTtl
    BY DEF Ttl
  <1>3. /\ MaxAge["instance"] = SettingTtl /\ MaxAge["tenant"] = SettingTtl
        /\ MaxAge["cyber"] = CyberTtl /\ MaxAge["health"] = CyberTtl + HealthTtl
    BY DEF MaxAge, Ttl
  <1> QED
    BY <1>1, <1>2, <1>3 DEF KeyNames

LEMMA CacheInitInv == CacheInit => CacheInv
  <1> SUFFICES ASSUME CacheInit PROVE CacheInv
    OBVIOUS
  <1>1. /\ subject \in {"setting", "scores"} /\ tick = 0 /\ ownRow = "no" /\ dropping = {}
        /\ passed = "no" /\ overran = "no"
    BY DEF CacheInit, KeysOf
  <1>2. /\ subject = "setting" => Keys = {"instance", "tenant"}
        /\ subject = "scores" => Keys = {"cyber", "health"}
        /\ 0 \in Versions
    BY <1>1, KeysAre
  <1>3. /\ now = [k \in Keys |-> 0] /\ outdated = [k \in Keys |-> [v \in Versions |-> -1]]
        /\ cache = [k \in Keys |-> NoEntry] /\ reader = [r \in Readers |-> NoReader]
    BY DEF CacheInit
  <1>4. /\ NoEntry \in HeldRows /\ NoEntry.version = -1
        /\ NoReader \in ReaderRows /\ NoReader.at = "idle"
    BY DEF NoEntry, NoReader, HeldRows, ReaderRows, KeyNames
  <1>5. /\ now \in [Keys -> Versions] /\ cache \in [Keys -> HeldRows]
        /\ reader \in [Readers -> ReaderRows]
        /\ \A k \in Keys : cache[k].version = -1
        /\ \A r \in Readers : reader[r].at = "idle"
    BY <1>2, <1>3, <1>4
  <1>6. outdated \in [Keys -> [Versions -> Int]]
    <2>1. [v \in Versions |-> -1] \in [Versions -> Int]
      OBVIOUS
    <2> QED
      BY <1>3, <2>1
  <1>7. CacheTypes
    BY <1>1, <1>5, <1>6 DEF CacheTypes
  <1>8. EntriesExpire /\ AgesFit
    BY <1>5 DEF EntriesExpire, AgesFit, EntryFresh, ReaderFresh
  <1>9. Twins
    BY <1>2, <1>3 DEF Twins
  <1>10. subject = "setting" => SettingFresh
    BY <1>1, <1>2, <1>5 DEF SettingFresh
  <1> QED
    BY <1>1, <1>7, <1>8, <1>9, <1>10 DEF CacheInv

\* One request goes on, and neither the entries nor the database change.
LEMMA ReaderGoesInv ==
  ASSUME CacheInv, NEW r \in Readers, NEW w, w \in ReaderRows, reader' = [reader EXCEPT ![r] = w],
         w.at # "idle" => /\ w.key \in Keys /\ w.asked \in Keys
                          /\ w.key # w.asked => w.asked = "health"
                          /\ w.at = "store" => w.version \in Versions,
         w.at = "store" /\ passed = "no" => ReplacedSince(w.key, w.version, ReadSince(w.key)),
         UNCHANGED <<subject, tick, ownRow, now, outdated, cache, dropping, passed, overran>>
  PROVE  CacheInv'
  <1>1. CacheTypes
    BY DEF CacheInv
  <1>2. reader'[r] = w /\ \A q \in Readers \ {r} : reader'[q] = reader[q]
    BY <1>1 DEF CacheTypes
  <1>3. Keys' = Keys /\ Versions' = Versions
    BY DEF Keys, Versions
  <1>4. reader' \in [Readers -> ReaderRows]
    BY <1>1 DEF CacheTypes
  <1>5. CacheTypes'
    BY <1>1, <1>2, <1>3, <1>4 DEF CacheTypes
  <1>6. EntriesExpire' /\ Twins' /\ (SettingFresh => SettingFresh')
    BY <1>3 DEF CacheInv, EntriesExpire, Twins, SettingFresh
  <1>7. ASSUME passed = "no" PROVE AgesFit'
    <2>1. AgesFit
      BY <1>7 DEF CacheInv
    <2>2. \A k, v, since : ReplacedSince(k, v, since)' <=> ReplacedSince(k, v, since)
      BY DEF ReplacedSince
    <2>3. \A k : ReadSince(k)' = ReadSince(k)
      BY DEF ReadSince
    <2>4. \A k \in Keys' : EntryFresh(k)'
      BY <1>3, <2>1 DEF AgesFit, EntryFresh, ReplacedSince
    <2>5. ASSUME NEW q \in Readers PROVE ReaderFresh(q)'
      <3>1. CASE q = r
        BY <1>2, <1>7, <3>1 DEF ReaderFresh, ReplacedSince, ReadSince
      <3>2. CASE q # r
        BY <1>2, <2>1, <3>2 DEF AgesFit, ReaderFresh, ReplacedSince, ReadSince
      <3> QED
        BY <3>1, <3>2
    <2> QED
      BY <2>4, <2>5 DEF AgesFit
  <1> QED
    BY <1>5, <1>6, <1>7 DEF CacheInv

LEMMA AskForInv ==
  ASSUME CacheInv, NEW r \in Readers, NEW k \in Keys, AskFor(r, k)
  PROVE  CacheInv'
  <1>1. CacheTypes /\ reader' = [reader EXCEPT ![r] = Looks(k)]
        /\ UNCHANGED <<subject, tick, ownRow, now, outdated, cache, dropping, passed, overran>>
    BY DEF CacheInv, AskFor
  <1>2. /\ subject = "setting" => Keys = {"instance", "tenant"}
        /\ subject = "scores" => Keys = {"cyber", "health"}
        /\ k \in KeyNames /\ subject \in {"setting", "scores"}
    BY <1>1, KeysAre DEF CacheTypes
  <1>3. CASE ~(k = "health" /\ Live("cyber"))
    <2> DEFINE w == [at |-> "fetch", asked |-> k, version |-> -1,
                     key |-> IF k = "health" THEN "cyber" ELSE k]
    <2>1. /\ w \in ReaderRows /\ w.at = "fetch" /\ w.asked = k
          /\ w.key = IF k = "health" THEN "cyber" ELSE k
      BY <1>2 DEF ReaderRows, KeyNames
    <2>2. reader' = [reader EXCEPT ![r] = w]
      BY <1>1, <1>3 DEF Looks
    <2> HIDE DEF w
    <2>3. w.key \in Keys /\ (w.key # w.asked => w.asked = "health")
      BY <1>2, <2>1
    <2> QED
      BY <1>1, <2>1, <2>2, <2>3, ReaderGoesInv
  <1>4. CASE k = "health" /\ Live("cyber")
    <2>1. PICK v : v = cache["cyber"].version
      OBVIOUS
    <2> DEFINE w == [at |-> "store", asked |-> k, key |-> k, version |-> v]
    <2>2. reader' = [reader EXCEPT ![r] = w]
      BY <1>1, <1>4, <2>1 DEF Looks
    <2>3. /\ Keys = {"cyber", "health"} /\ subject = "scores" /\ v # -1 /\ v \in Versions
          /\ cache["cyber"].until > tick /\ cache["cyber"].until \in Nat /\ Versions \subseteq Nat
      BY <1>1, <1>2, <1>4, <2>1, KeysAre DEF Live, CacheTypes, HeldRows
    <2>4. w \in ReaderRows /\ w.at = "store" /\ w.asked = k /\ w.key = k /\ w.version = v
      BY <1>2, <2>3 DEF ReaderRows
    <2> HIDE DEF w
    <2>5. ASSUME passed = "no" PROVE ReplacedSince("health", v, ReadSince("health"))
      <3>1. ReplacedSince("cyber", v, cache["cyber"].until - MaxAge["cyber"])
        BY <1>4, <2>1, <2>3, <2>5 DEF CacheInv, AgesFit, EntryFresh
      <3>2. now["cyber"] = now["health"] /\ outdated["cyber"] = outdated["health"]
        BY <2>3 DEF CacheInv, Twins
      <3>3. outdated["cyber"][v] \in Int
        BY <1>1, <2>3 DEF CacheTypes
      <3> QED
        BY <1>1, <2>3, <3>1, <3>2, <3>3, TtlsAre DEF ReplacedSince, ReadSince, CacheTypes
    <2>6. w.key \in Keys /\ w.asked \in Keys /\ w.key = w.asked /\ w.version \in Versions
      BY <1>4, <2>3, <2>4
    <2>7. passed = "no" => ReplacedSince(w.key, w.version, ReadSince(w.key))
      BY <1>4, <2>4, <2>5
    <2> QED
      BY <1>1, <2>2, <2>4, <2>6, <2>7, ReaderGoesInv
  <1> QED
    BY <1>3, <1>4

LEMMA FetchInv ==
  ASSUME CacheInv, NEW r \in Readers, Fetch(r)
  PROVE  CacheInv'
  <1>1. PICK k : k = reader[r].key
    OBVIOUS
  <1>2. PICK w : w = [reader[r] EXCEPT !.at = "store", !.version = now[k]]
    OBVIOUS
  <1>3. /\ CacheTypes /\ reader[r] \in ReaderRows /\ reader[r].at = "fetch" /\ k \in Keys
        /\ UNCHANGED <<subject, tick, ownRow, now, outdated, cache, dropping, passed, overran>>
    BY <1>1 DEF CacheInv, CacheTypes, Fetch
  <1>4. now[k] \in Versions /\ now[k] \in Int
    <2>1. now[k] \in Versions /\ Versions \subseteq Nat
      BY <1>3, KeysAre DEF CacheTypes
    <2>2. now[k] \in Nat
      BY <2>1
    <2> QED
      BY <2>1, <2>2, SMT
  <1>5. /\ w \in ReaderRows /\ w.at = "store" /\ w.version = now[k]
        /\ w.key = k /\ w.asked = reader[r].asked
    BY <1>1, <1>2, <1>3, <1>4 DEF ReaderRows
  <1>6. reader' = [reader EXCEPT ![r] = w]
    BY <1>1, <1>2, <1>3 DEF Fetch, CacheTypes
  <1>7. ReplacedSince(k, now[k], ReadSince(k))
    BY DEF ReplacedSince
  <1>8. w.key \in Keys /\ w.asked \in Keys /\ (w.key # w.asked => w.asked = "health")
    BY <1>1, <1>3, <1>5 DEF CacheTypes
  <1> QED
    BY <1>3, <1>4, <1>5, <1>6, <1>7, <1>8, ReaderGoesInv

\* What is stored expires within the age it may have.
LEMMA PutInv ==
  ASSUME CacheInv, NEW r \in Readers, Store(r)
  PROVE  CacheInv'
  <1>1. PICK k, v, asked : k = reader[r].key /\ v = reader[r].version /\ asked = reader[r].asked
    OBVIOUS
  <1>2. /\ CacheTypes /\ reader[r] \in ReaderRows /\ reader[r].at = "store" /\ k \in Keys
        /\ asked \in Keys /\ v \in Versions /\ (k # asked => asked = "health")
        /\ subject \in {"setting", "scores"} /\ tick \in Nat
        /\ UNCHANGED <<subject, tick, ownRow, now, outdated, dropping, passed>>
    BY <1>1 DEF CacheInv, CacheTypes, Store
  <1>3. /\ Keys \subseteq KeyNames /\ Versions \subseteq Nat /\ Ttl[k] \in Nat /\ Keys' = Keys
        /\ Versions' = Versions
        /\ subject = "setting" => Keys = {"instance", "tenant"}
        /\ subject = "scores" => Keys = {"cyber", "health"}
    BY <1>2, KeysAre, TtlsAre DEF Keys, Versions
  <1>4. PICK e : e = [version |-> v, until |-> tick + Ttl[k]]
    OBVIOUS
  <1>5. e \in HeldRows /\ e.version = v /\ e.until = tick + Ttl[k]
    BY <1>2, <1>3, <1>4 DEF HeldRows
  <1>6. cache' = [cache EXCEPT ![k] = e]
    BY <1>1, <1>4 DEF Store
  <1>7. cache'[k] = e /\ \A q \in Keys \ {k} : cache'[q] = cache[q]
    BY <1>2, <1>6 DEF CacheTypes
  <1>8. PICK w : w = IF k = asked THEN NoReader ELSE [reader[r] EXCEPT !.key = asked]
    OBVIOUS
  <1>9. reader' = [reader EXCEPT ![r] = w]
    BY <1>1, <1>2, <1>8 DEF Store, CacheTypes
  <1>10. /\ w \in ReaderRows
         /\ w.at # "idle" => /\ k # asked /\ w.key = asked /\ w.asked = asked /\ w.version = v
                             /\ w.at = "store"
    BY <1>1, <1>2, <1>3, <1>8 DEF ReaderRows, NoReader, KeyNames
  <1>11. reader'[r] = w /\ \A q \in Readers \ {r} : reader'[q] = reader[q]
    BY <1>2, <1>9 DEF CacheTypes
  <1>12. /\ cache' \in [Keys -> HeldRows] /\ reader' \in [Readers -> ReaderRows]
         /\ overran' \in {"no", "yes"}
    <2>1. cache' \in [Keys -> HeldRows] /\ reader' \in [Readers -> ReaderRows]
      BY <1>2, <1>5, <1>6, <1>9, <1>10 DEF CacheTypes
    <2>2. overran' = IF subject = "setting" /\ v # now[k] THEN "yes" ELSE overran
      BY <1>1 DEF Store
    <2> QED
      BY <1>2, <2>1, <2>2 DEF CacheTypes
  <1>13. /\ \A q \in Keys : cache'[q].version \in Versions \union {-1}
         /\ \A q \in Readers : reader'[q].at # "idle" =>
              /\ reader'[q].key \in Keys /\ reader'[q].asked \in Keys
              /\ reader'[q].key # reader'[q].asked => reader'[q].asked = "health"
              /\ reader'[q].at = "store" => reader'[q].version \in Versions
    <2>1. \A q \in Keys : cache'[q].version \in Versions \union {-1}
      BY <1>2, <1>5, <1>7 DEF CacheTypes
    <2>2. ASSUME NEW q \in Readers, reader'[q].at # "idle"
          PROVE  /\ reader'[q].key \in Keys /\ reader'[q].asked \in Keys
                 /\ reader'[q].key # reader'[q].asked => reader'[q].asked = "health"
                 /\ reader'[q].at = "store" => reader'[q].version \in Versions
      <3>1. CASE q = r
        <4>1. w.at # "idle"
          BY <1>11, <2>2, <3>1
        <4>2. w.key \in Keys /\ w.asked \in Keys /\ w.key = w.asked /\ w.version \in Versions
          BY <1>2, <1>10, <4>1
        <4> QED
          BY <1>11, <3>1, <4>2
      <3>2. CASE q # r
        <4>1. reader'[q] = reader[q]
          BY <1>11, <3>2
        <4> QED
          BY <1>2, <2>2, <4>1 DEF CacheTypes
      <3> QED
        BY <3>1, <3>2
    <2> QED
      BY <2>1, <2>2
  <1>14. CacheTypes'
    BY <1>2, <1>3, <1>12, <1>13 DEF CacheTypes
  <1>15. EntriesExpire'
    BY <1>2, <1>3, <1>5, <1>7 DEF CacheInv, EntriesExpire
  <1>16. Twins'
    BY <1>2 DEF CacheInv, Twins
  <1>17. ASSUME passed = "no" PROVE AgesFit'
    <2>1. AgesFit
      BY <1>17 DEF CacheInv
    <2>2. ReplacedSince(k, v, ReadSince(k))
      BY <1>1, <1>2, <2>1 DEF AgesFit, ReaderFresh
    <2>3. outdated[k][v] \in Int /\ outdated[asked][v] \in Int
      BY <1>2 DEF CacheTypes
    <2>4. ReplacedSince(k, v, e.until - MaxAge[k])
      BY <1>2, <1>3, <1>5, <2>2, <2>3, TtlsAre DEF ReplacedSince, ReadSince, KeyNames
    <2>5. ASSUME NEW q \in Keys PROVE EntryFresh(q)'
      <3>1. CASE q = k
        BY <1>2, <1>5, <1>7, <2>4, <3>1 DEF EntryFresh, ReplacedSince
      <3>2. CASE q # k
        BY <1>2, <1>7, <2>1, <3>2 DEF AgesFit, EntryFresh, ReplacedSince
      <3> QED
        BY <3>1, <3>2
    <2>6. ASSUME NEW q \in Readers PROVE ReaderFresh(q)'
      <3>1. CASE q = r
        <4>1. CASE k = asked
          BY <1>2, <1>10, <1>11, <3>1, <4>1 DEF ReaderFresh
        <4>2. CASE k # asked
          <5>1. asked = "health" /\ subject = "scores" /\ k = "cyber"
            BY <1>2, <1>3, <4>2
          <5>2. now["cyber"] = now["health"] /\ outdated["cyber"] = outdated["health"]
            BY <5>1 DEF CacheInv, Twins
          <5>3. ReplacedSince(asked, v, ReadSince(asked))
            BY <1>2, <2>2, <2>3, <5>1, <5>2, TtlsAre DEF ReplacedSince, ReadSince
          <5> QED
            BY <1>2, <1>10, <1>11, <3>1, <5>3 DEF ReaderFresh, ReplacedSince, ReadSince
        <4> QED
          BY <4>1, <4>2
      <3>2. CASE q # r
        BY <1>2, <1>11, <2>1, <3>2 DEF AgesFit, ReaderFresh, ReplacedSince, ReadSince
      <3> QED
        BY <3>1, <3>2
    <2> QED
      BY <1>3, <2>5, <2>6 DEF AgesFit
  <1>18. ASSUME subject = "setting", overran' = "no" PROVE SettingFresh'
    <2>1. overran = "no" /\ v = now[k] /\ SettingFresh
      BY <1>1, <1>18 DEF Store, CacheInv
    <2> QED
      BY <1>2, <1>3, <1>5, <1>7, <1>18, <2>1 DEF SettingFresh
  <1> QED
    BY <1>2, <1>14, <1>15, <1>16, <1>17, <1>18 DEF CacheInv

\* Entries are dropped; a request may come to fetch.
LEMMA DropsInv ==
  ASSUME CacheInv, NEW ks, cache' = Dropped(ks), CacheTypes', dropping' \subseteq dropping,
         dropping \ dropping' \subseteq ks, dropping' # dropping => subject = "setting",
         \A r \in Readers : reader'[r].at = "store" => reader'[r] = reader[r],
         UNCHANGED <<subject, tick, ownRow, now, outdated, passed, overran>>
  PROVE  CacheInv'
  <1>1. CacheTypes /\ Keys' = Keys /\ NoEntry.version = -1
    BY DEF CacheInv, Keys, NoEntry
  <1>2. \A k \in Keys : cache'[k] = IF k \in ks THEN NoEntry ELSE cache[k]
    BY DEF Dropped
  <1>3. EntriesExpire' /\ Twins'
    BY <1>1, <1>2 DEF CacheInv, EntriesExpire, Twins
  <1>4. ASSUME passed = "no" PROVE AgesFit'
    <2>1. AgesFit
      BY <1>4 DEF CacheInv
    <2>2. \A k \in Keys : EntryFresh(k)'
      BY <1>1, <1>2, <2>1 DEF AgesFit, EntryFresh, ReplacedSince
    <2>3. \A r \in Readers : ReaderFresh(r)'
      BY <2>1 DEF AgesFit, ReaderFresh, ReplacedSince, ReadSince
    <2> QED
      BY <1>1, <2>2, <2>3 DEF AgesFit
  <1>5. ASSUME subject = "setting", overran = "no" PROVE SettingFresh'
    <2>1. SettingFresh /\ Keys = {"instance", "tenant"}
      BY <1>1, <1>5, KeysAre DEF CacheInv, CacheTypes
    <2>2. ASSUME NEW k \in {"instance", "tenant"},
                 cache[k].version \in {-1, now[k]} \/ k \in dropping
          PROVE  cache'[k].version \in {-1, now[k]} \/ k \in dropping'
      BY <1>1, <1>2, <2>1, <2>2
    <2>3. /\ cache'["instance"].version \in {-1, now["instance"]} \/ "instance" \in dropping'
          /\ ownRow = "yes" => cache'["tenant"].version \in {-1, now["tenant"]}
                               \/ "tenant" \in dropping'
      BY <2>1, <2>2 DEF SettingFresh
    <2> QED
      BY <2>3 DEF SettingFresh
  <1> QED
    BY <1>3, <1>4, <1>5 DEF CacheInv

LEMMA DroppedIs ==
  ASSUME CacheTypes, NEW ks
  PROVE  /\ Dropped(ks) \in [Keys -> HeldRows]
         /\ \A k \in Keys : Dropped(ks)[k].version \in Versions \union {-1}
  <1>1. NoEntry \in HeldRows /\ NoEntry.version = -1
    BY DEF NoEntry, HeldRows
  <1> QED
    BY <1>1 DEF Dropped, CacheTypes

LEMMA DropSettingInv ==
  ASSUME CacheInv, NEW s \in KeysOf["setting"], DropSetting(s)
  PROVE  CacheInv'
  <1>1. /\ CacheTypes /\ s \in dropping /\ dropping' = dropping \ {s}
        /\ cache' = Dropped({s, "instance"})
        /\ UNCHANGED <<subject, tick, ownRow, now, outdated, reader, passed, overran>>
    BY DEF CacheInv, DropSetting
  <1>2. CASE subject = "setting"
    <2>1. CacheTypes'
      BY <1>1, DroppedIs DEF CacheTypes, Keys, Versions
    <2> QED
      BY <1>1, <1>2, <2>1, DropsInv
  <1>3. CASE subject # "setting"
    <2>1. /\ Keys = {"cyber", "health"} /\ Keys' = Keys /\ Versions' = Versions
      BY <1>1, <1>3, KeysAre DEF CacheTypes, Keys, Versions
    <2>2. cache' = cache
      <3>1. s # "cyber" /\ s # "health"
        BY <1>1 DEF CacheTypes
      <3> QED
        BY <1>1, <2>1, <3>1 DEF Dropped, CacheTypes
    <2> QED
      BY <1>1, <1>3, <2>1, <2>2
      DEF CacheInv, CacheTypes, EntriesExpire, Twins, AgesFit, EntryFresh, ReaderFresh,
          ReplacedSince, ReadSince
  <1> QED
    BY <1>2, <1>3

LEMMA RefreshInv ==
  ASSUME CacheInv, NEW r \in Readers, Refresh(r)
  PROVE  CacheInv'
  <1>1. PICK w : w = [NoReader EXCEPT !.at = "fetch"]
    OBVIOUS
  <1>2. /\ CacheTypes /\ subject = "scores" /\ cache' = Dropped({"cyber"})
        /\ reader' = [reader EXCEPT ![r] = w]
        /\ UNCHANGED <<subject, tick, ownRow, now, outdated, dropping, passed, overran>>
    BY <1>1 DEF CacheInv, Refresh
  <1>3. w \in ReaderRows /\ w.at = "fetch" /\ w.key = "cyber" /\ w.asked = "cyber"
    BY <1>1 DEF NoReader, ReaderRows, KeyNames
  <1>4. /\ reader' \in [Readers -> ReaderRows] /\ reader'[r] = w
        /\ \A q \in Readers \ {r} : reader'[q] = reader[q]
    BY <1>2, <1>3 DEF CacheTypes
  <1>5. "cyber" \in Keys /\ Keys' = Keys /\ Versions' = Versions
    BY <1>2, KeysAre DEF Keys, Versions
  <1>6. CacheTypes'
    BY <1>2, <1>3, <1>4, <1>5, DroppedIs DEF CacheTypes
  <1> QED
    BY <1>2, <1>3, <1>4, <1>6, DropsInv

\* A write: what was a version of the database until now is replaced now.
LEMMA WritesAre ==
  ASSUME CacheInv, NEW ks, Writes(ks)
  PROVE  /\ \E v \in Versions : now' = [k \in Keys |-> IF k \in ks THEN v ELSE now[k]]
         /\ \A k \in Keys : outdated'[k] = IF k \in ks THEN [outdated[k] EXCEPT ![now[k]] = tick]
                                           ELSE outdated[k]
         /\ now' \in [Keys -> Versions] /\ outdated' \in [Keys -> [Versions -> Int]]
         /\ \A k \in Keys, v \in Versions, since \in Int :
              since <= tick /\ ReplacedSince(k, v, since)
              => (v # now'[k] => outdated'[k][v] >= since)
  <1>1. /\ now \in [Keys -> Versions] /\ outdated \in [Keys -> [Versions -> Int]] /\ tick \in Nat
    BY DEF CacheInv, CacheTypes
  <1>2. \E v \in Versions : now' = [k \in Keys |-> IF k \in ks THEN v ELSE now[k]]
    BY DEF Writes
  <1>3. outdated' = [k \in Keys |-> IF k \in ks THEN [outdated[k] EXCEPT ![now[k]] = tick]
                                    ELSE outdated[k]]
    BY DEF Writes
  <1>4. \A k \in Keys : outdated'[k] = IF k \in ks THEN [outdated[k] EXCEPT ![now[k]] = tick]
                                       ELSE outdated[k]
    BY <1>3
  <1>5. ASSUME NEW k \in Keys PROVE [outdated[k] EXCEPT ![now[k]] = tick] \in [Versions -> Int]
    BY <1>1
  <1>6. now' \in [Keys -> Versions]
    BY <1>1, <1>2
  <1>7. outdated' \in [Keys -> [Versions -> Int]]
    BY <1>1, <1>3, <1>5
  <1>8. ASSUME NEW k \in Keys, NEW v \in Versions, NEW since \in Int, since <= tick,
               ReplacedSince(k, v, since), v # now'[k]
        PROVE  outdated'[k][v] >= since
    <2>1. CASE k \notin ks
      <3>1. now'[k] = now[k] /\ outdated'[k] = outdated[k]
        BY <1>2, <1>4, <2>1
      <3> QED
        BY <1>8, <3>1 DEF ReplacedSince
    <2>2. CASE k \in ks
      <3>1. /\ outdated'[k] = [outdated[k] EXCEPT ![now[k]] = tick]
            /\ outdated[k] \in [Versions -> Int]
        BY <1>1, <1>4, <2>2
      <3>2. outdated'[k][v] = IF v = now[k] THEN tick ELSE outdated[k][v]
        BY <3>1
      <3> QED
        BY <1>1, <1>8, <3>2 DEF ReplacedSince
    <2> QED
      BY <2>1, <2>2
  <1> QED
    BY <1>2, <1>4, <1>6, <1>7, <1>8

LEMMA WritesInv ==
  ASSUME CacheInv, NEW ks, Writes(ks), CacheTypes', Twins',
         subject = "setting" /\ overran = "no" => SettingFresh',
         UNCHANGED <<subject, tick, cache, reader, passed, overran>>
  PROVE  CacheInv'
  <1>1. CacheTypes /\ Keys' = Keys /\ Versions' = Versions /\ subject \in {"setting", "scores"}
    BY DEF CacheInv, CacheTypes, Keys, Versions
  <1>2. EntriesExpire' /\ EntriesExpire
    BY <1>1 DEF CacheInv, EntriesExpire
  <1>3. ASSUME passed = "no" PROVE AgesFit'
    <2>1. AgesFit /\ tick \in Nat
      BY <1>1, <1>3 DEF CacheInv, CacheTypes
    <2>2. ASSUME NEW k \in Keys PROVE EntryFresh(k)'
      <3>1. k \in KeyNames /\ cache[k] \in HeldRows /\ cache[k].until \in Nat
        BY <1>1, KeysAre DEF CacheTypes, HeldRows
      <3>2. PICK since : since = cache[k].until - MaxAge[k]
        OBVIOUS
      <3>3. cache[k].version # -1 => since \in Int /\ since <= tick /\ cache[k].version \in Versions
        BY <1>1, <1>2, <2>1, <3>1, <3>2, TtlsAre DEF EntriesExpire, CacheTypes
      <3>4. cache[k].version # -1 => ReplacedSince(k, cache[k].version, since)
        BY <2>1, <3>2 DEF AgesFit, EntryFresh
      <3>5. cache[k].version # -1
            => (cache[k].version # now'[k] => outdated'[k][cache[k].version] >= since)
        BY <3>3, <3>4, WritesAre
      <3> QED
        BY <3>2, <3>5 DEF EntryFresh, ReplacedSince
    <2>3. ASSUME NEW r \in Readers, reader[r].at = "store"
          PROVE  ReplacedSince(reader[r].key, reader[r].version, ReadSince(reader[r].key))'
      <3>1. reader[r].key \in Keys /\ reader[r].version \in Versions
        BY <1>1, <2>3 DEF CacheTypes
      <3>2. PICK since : since = ReadSince(reader[r].key)
        OBVIOUS
      <3>3. since \in Int /\ since <= tick /\ ReplacedSince(reader[r].key, reader[r].version, since)
        BY <2>1, <2>3, <3>2, TtlsAre DEF ReadSince, AgesFit, ReaderFresh
      <3>4. reader[r].version # now'[reader[r].key]
            => outdated'[reader[r].key][reader[r].version] >= since
        BY <3>1, <3>3, WritesAre
      <3>5. ReadSince(reader[r].key)' = since
        BY <3>2 DEF ReadSince
      <3> QED
        BY <3>4, <3>5 DEF ReplacedSince
    <2> QED
      BY <1>1, <2>2, <2>3 DEF AgesFit, ReaderFresh
  <1> QED
    BY <1>2, <1>3 DEF CacheInv

LEMMA DataChangesInv ==
  ASSUME CacheInv, DataChanges
  PROVE  CacheInv'
  <1>1. /\ CacheTypes /\ subject = "scores" /\ Writes(Keys) /\ Keys' = Keys /\ Versions' = Versions
        /\ UNCHANGED <<subject, tick, ownRow, cache, reader, dropping, passed, overran>>
    BY DEF CacheInv, DataChanges, Keys, Versions
  <1>2. CacheTypes'
    BY <1>1, WritesAre DEF CacheTypes
  <1>3. now'["cyber"] = now'["health"] /\ outdated'["cyber"] = outdated'["health"]
    <2>1. Keys = {"cyber", "health"}
      BY <1>1, KeysAre
    <2> QED
      BY <1>1, <2>1, WritesAre DEF CacheInv, Twins
  <1>4. Twins'
    BY <1>3 DEF Twins
  <1> QED
    BY <1>1, <1>2, <1>4, WritesInv

LEMMA UpdateSettingInv ==
  ASSUME CacheInv, NEW s \in KeysOf["setting"], UpdateSetting(s)
  PROVE  CacheInv'
  <1>1. PICK ks : ks = IF s = "tenant" \/ ownRow = "yes" THEN {s} ELSE Keys
    OBVIOUS
  <1>2. /\ CacheTypes /\ subject = "setting" /\ Writes(ks) /\ Keys' = Keys /\ Versions' = Versions
        /\ ownRow' = IF s = "tenant" THEN "yes" ELSE ownRow
        /\ dropping' = dropping \union {s} /\ s \in {"instance", "tenant"}
        /\ UNCHANGED <<subject, tick, cache, reader, passed, overran>>
    BY <1>1 DEF CacheInv, UpdateSetting, Keys, Versions, KeysOf
  <1>3. CacheTypes'
    BY <1>2, WritesAre DEF CacheTypes
  <1>4. Twins'
    BY <1>2 DEF Twins
  <1>5. ASSUME overran = "no" PROVE SettingFresh'
    <2>1. SettingFresh /\ Keys = {"instance", "tenant"}
      BY <1>2, <1>5, KeysAre DEF CacheInv
    <2>2. \A k \in Keys : k \notin ks => now'[k] = now[k]
      BY <1>2, WritesAre
    <2>3. s = "instance" => "instance" \in dropping'
      BY <1>2
    <2>4. s = "tenant" => "tenant" \in dropping' /\ now'["instance"] = now["instance"]
      BY <1>1, <1>2, <2>1, <2>2
    <2>5. s = "instance" /\ ownRow' = "yes" => ownRow = "yes" /\ now'["tenant"] = now["tenant"]
      BY <1>1, <1>2, <2>1, <2>2
    <2> QED
      BY <1>2, <2>1, <2>3, <2>4, <2>5 DEF SettingFresh
  <1> QED
    BY <1>2, <1>3, <1>4, <1>5, WritesInv

\* A tick that finds a request about to store is the end of passed = "no".
LEMMA TimePassesInv ==
  ASSUME CacheInv, TimePasses
  PROVE  CacheInv'
  <1>1. /\ CacheTypes /\ tick \in Nat /\ tick' = tick + 1 /\ Keys' = Keys /\ Versions' = Versions
        /\ passed' = IF \E r \in Readers : reader[r].at = "store" THEN "yes" ELSE passed
        /\ UNCHANGED <<subject, ownRow, now, outdated, cache, reader, dropping, overran>>
    BY DEF CacheInv, CacheTypes, TimePasses, Keys, Versions
  <1>2. CacheTypes'
    BY <1>1 DEF CacheTypes
  <1>3. EntriesExpire'
    <2>1. \A k \in Keys : Ttl[k] \in Nat /\ cache[k].until \in Nat
      BY <1>1, KeysAre, TtlsAre DEF CacheTypes, HeldRows
    <2> QED
      BY <1>1, <2>1 DEF CacheInv, EntriesExpire
  <1>4. Twins' /\ (SettingFresh => SettingFresh')
    BY <1>1 DEF CacheInv, Twins, SettingFresh
  <1>5. ASSUME passed' = "no" PROVE AgesFit'
    <2>1. AgesFit /\ \A r \in Readers : reader[r].at # "store"
      BY <1>1, <1>5 DEF CacheInv
    <2> QED
      BY <1>1, <2>1 DEF AgesFit, EntryFresh, ReaderFresh, ReplacedSince
  <1> QED
    BY <1>1, <1>2, <1>3, <1>4, <1>5 DEF CacheInv

LEMMA CacheStepInv == CacheInv /\ [CacheNext]_cacheVars => CacheInv'
  <1> SUFFICES ASSUME CacheInv, [CacheNext]_cacheVars PROVE CacheInv'
    OBVIOUS
  <1>1. CASE UNCHANGED cacheVars
    <2>1. Keys' = Keys /\ Versions' = Versions
      BY <1>1 DEF cacheVars, Keys, Versions
    <2> QED
      BY <1>1, <2>1
      DEF cacheVars, CacheInv, CacheTypes, EntriesExpire, Twins, AgesFit, EntryFresh, ReaderFresh,
          ReplacedSince, ReadSince, SettingFresh
  <1> QED
    BY <1>1, AskForInv, FetchInv, PutInv, RefreshInv, UpdateSettingInv, DropSettingInv,
       DataChangesInv, TimePassesInv
    DEF CacheNext

LEMMA CacheHolds == CacheInv => AnswersAreFresh
  <1> SUFFICES ASSUME CacheInv PROVE AnswersAreFresh
    OBVIOUS
  <1>1. CacheTypes /\ Keys \subseteq KeyNames
    BY KeysAre DEF CacheInv, CacheTypes
  <1>2. ASSUME passed = "no", NEW k \in Keys, Live(k), cache[k].version # now[k]
        PROVE  tick - outdated[k][cache[k].version] < MaxAge[k]
    <2>1. /\ cache[k].version # -1 /\ cache[k].until > tick /\ cache[k].version \in Versions
          /\ cache[k].until \in Nat /\ tick \in Nat
      BY <1>1, <1>2 DEF Live, CacheTypes, HeldRows
    <2>2. outdated[k][cache[k].version] >= cache[k].until - MaxAge[k]
      BY <1>2, <2>1 DEF CacheInv, AgesFit, EntryFresh, ReplacedSince
    <2>3. outdated[k][cache[k].version] \in Int /\ MaxAge[k] \in Nat
      BY <1>1, <2>1, TtlsAre DEF CacheTypes
    <2> QED
      BY <2>1, <2>2, <2>3
  <1>3. ASSUME subject = "setting", overran = "no", dropping = {}
        PROVE  /\ Live("instance") => cache["instance"].version = now["instance"]
               /\ Live("tenant") /\ ownRow = "yes" => cache["tenant"].version = now["tenant"]
    BY <1>3 DEF CacheInv, SettingFresh, Live
  <1> QED
    BY <1>2, <1>3 DEF AnswersAreFresh

-----------------------------------------------------------------------------
(****************************************************************************)
(* The import of the bank's pages.  When a run asks for a page, what it has *)
(* to import and came on the pages before it has a row; while it works on a *)
(* page, what is left of it has none yet (Reaches).  What is booked         *)
(* meanwhile only moves the others back, to pages still to come.            *)
(****************************************************************************)
SyncRows == [at : {"idle", "fetch", "look", "create", "complete"}, since : Int, page : Nat,
             items : SUBSET Nat, last : {"no", "yes"}, known : Nat]

BankTypes ==
    /\ hour \in Nat /\ booked \in Seq(Nat) /\ sync \in [Syncs -> SyncRows]
    /\ \A r \in Syncs : sync[r].known <= Len(booked) /\ sync[r].items \subseteq 1..Len(booked)

\* What a run has to import, but for what the page still holds.
Wanted(s) == {t \in 1..s.known : booked[t] >= s.since}
RunReaches(s) ==
    /\ s.at = "fetch" =>
          \A t \in Wanted(s) : Newer(t) < PerPage * (s.page - 1) => t \in imported
    /\ s.at \in {"look", "create"} =>
          \A t \in Wanted(s) : (s.last = "yes" \/ Newer(t) < PerPage * s.page)
                               => t \in imported \/ t \in s.items
    /\ s.at = "complete" => Wanted(s) \subseteq imported

BankInv == BankTypes /\ \A r \in Syncs : RunReaches(sync[r])

LEMMA NoSyncIs == NoSync \in SyncRows /\ NoSync.at = "idle" /\ NoSync.known = 0 /\ NoSync.items = {}
  BY DEF NoSync, SyncRows

LEMMA BankInitInv == BankInit => BankInv
  <1> SUFFICES ASSUME BankInit PROVE BankInv
    OBVIOUS
  <1>1. /\ hour = 0 /\ booked = <<>> /\ sync = [r \in Syncs |-> NoSync]
        /\ NoSync \in SyncRows /\ NoSync.at = "idle" /\ NoSync.known = 0 /\ NoSync.items = {}
    BY NoSyncIs DEF BankInit
  <1>2. \A r \in Syncs : sync[r] = NoSync
    BY <1>1
  <1>3. BankTypes
    BY <1>1, <1>2 DEF BankTypes
  <1>4. \A r \in Syncs : RunReaches(sync[r])
    BY <1>1, <1>2 DEF RunReaches
  <1> QED
    BY <1>3, <1>4 DEF BankInv

\* One run goes on; a transaction may get its row.
LEMMA SyncGoesInv ==
  ASSUME BankInv, NEW r \in Syncs, NEW w, w \in SyncRows, sync' = [sync EXCEPT ![r] = w],
         w.known <= Len(booked), w.items \subseteq 1..Len(booked),
         imported \subseteq imported', UNCHANGED <<hour, booked>>, RunReaches(w)'
  PROVE  BankInv'
  <1>1. BankTypes
    BY DEF BankInv
  <1>2. /\ sync' \in [Syncs -> SyncRows] /\ sync'[r] = w
        /\ \A q \in Syncs \ {r} : sync'[q] = sync[q]
    BY <1>1 DEF BankTypes
  <1>3. BankTypes'
    BY <1>1, <1>2 DEF BankTypes
  <1>4. ASSUME NEW q \in Syncs PROVE RunReaches(sync[q])'
    <2>1. CASE q = r
      BY <1>2, <2>1 DEF RunReaches, Wanted, Newer
    <2>2. CASE q # r
      <3>1. sync'[q] = sync[q] /\ RunReaches(sync[q])
        BY <1>2, <2>2 DEF BankInv
      <3> QED
        BY <3>1 DEF RunReaches, Wanted, Newer
    <2> QED
      BY <2>1, <2>2
  <1> QED
    BY <1>3, <1>4 DEF BankInv

\* The run goes to what is left of the page, to the next one, or to its end.
LEMMA OnwardInv ==
  ASSUME BankInv, NEW r \in Syncs, NEW s, s \in SyncRows, s.at # "idle",
         s.known <= Len(booked),
         NEW items, items \in SUBSET Nat, items \subseteq 1..Len(booked),
         sync' = [sync EXCEPT ![r] = Onward(s, items)],
         imported \subseteq imported', UNCHANGED <<hour, booked>>,
         \A t \in Wanted(s) : (s.last = "yes" \/ Newer(t) < PerPage * s.page)
                              => t \in imported' \/ t \in items
  PROVE  BankInv'
  <1>1. PICK w : w = Onward(s, items)
    OBVIOUS
  <1>2. CASE items # {}
    <2>1. w = [s EXCEPT !.at = "look", !.items = items]
      BY <1>1, <1>2 DEF Onward
    <2>2. /\ w \in SyncRows /\ w.at = "look" /\ w.items = items /\ w.known = s.known
          /\ w.since = s.since /\ w.last = s.last /\ w.page = s.page
      BY <2>1 DEF SyncRows
    <2>3. RunReaches(w)'
      BY <2>2 DEF RunReaches, Wanted, Newer
    <2> QED
      BY <1>1, <2>2, <2>3, SyncGoesInv
  <1>3. CASE items = {} /\ s.last = "no"
    <2>1. w = [s EXCEPT !.at = "fetch", !.items = {}, !.page = @ + 1]
      BY <1>1, <1>3 DEF Onward
    <2>2. /\ w \in SyncRows /\ w.at = "fetch" /\ w.items = {} /\ w.known = s.known
          /\ w.since = s.since /\ w.page = s.page + 1 /\ s.page \in Nat
      <3>1. s.page \in Nat /\ {} \in SUBSET Nat
        BY DEF SyncRows
      <3>2. PICK n : n = s.page + 1
        OBVIOUS
      <3>3. n \in Nat
        BY <3>1, <3>2
      <3>4. w = [s EXCEPT !.at = "fetch", !.items = {}, !.page = n]
        BY <2>1, <3>2
      <3> QED
        BY <3>1, <3>2, <3>3, <3>4 DEF SyncRows
    <2>3. w.page - 1 = s.page
      BY <2>2
    <2>4. RunReaches(w)'
      BY <1>3, <2>2, <2>3 DEF RunReaches, Wanted, Newer
    <2> QED
      BY <1>1, <2>2, <2>4, SyncGoesInv
  <1>4. CASE items = {} /\ s.last = "yes"
    <2>1. w = [s EXCEPT !.at = "complete", !.items = {}, !.page = 0]
      BY <1>1, <1>4 DEF Onward
    <2>2. /\ w \in SyncRows /\ w.at = "complete" /\ w.items = {} /\ w.known = s.known
          /\ w.since = s.since
      BY <2>1 DEF SyncRows
    <2>3. RunReaches(w)'
      BY <1>4, <2>2 DEF RunReaches, Wanted
    <2> QED
      BY <1>1, <2>2, <2>3, SyncGoesInv
  <1> QED
    BY <1>2, <1>3, <1>4 DEF SyncRows

LEMMA FetchPageInv ==
  ASSUME BankInv, NEW r \in Syncs, FetchPage(r)
  PROVE  BankInv'
  <1>1. PICK last : last = IF IsLast(sync[r].since, sync[r].page) THEN "yes" ELSE "no"
    OBVIOUS
  <1>2. PICK s : s = [sync[r] EXCEPT !.last = last]
    OBVIOUS
  <1>3. PICK items : items = Page(s.since, s.page)
    OBVIOUS
  <1>4. /\ sync[r] \in SyncRows /\ sync[r].at = "fetch" /\ sync[r].known <= Len(booked)
        /\ booked \in Seq(Nat) /\ UNCHANGED <<hour, booked, imported>> /\ RunReaches(sync[r])
    BY DEF BankInv, BankTypes, FetchPage
  <1>5. /\ s \in SyncRows /\ s.at = "fetch" /\ s.known = sync[r].known /\ s.since = sync[r].since
        /\ s.page = sync[r].page /\ s.last = last /\ s.page \in Nat /\ s.known \in Nat
    BY <1>1, <1>2, <1>4 DEF SyncRows
  <1>6. sync' = [sync EXCEPT ![r] = Onward(s, items)]
    BY <1>1, <1>2, <1>3, <1>5 DEF FetchPage
  <1>7. DOMAIN booked = 1..Len(booked) /\ Len(booked) \in Nat
    BY <1>4
  <1>8. items \subseteq 1..Len(booked) /\ items \in SUBSET Nat
    BY <1>3, <1>7 DEF Page, Listed
  <1>9. ASSUME NEW t \in Wanted(s), s.last = "yes" \/ Newer(t) < PerPage * s.page
        PROVE  t \in imported \/ t \in items
    <2>1. t \in Listed(s.since) /\ t \in Wanted(sync[r]) /\ Newer(t) \in Int
      BY <1>4, <1>5, <1>7 DEF Wanted, Listed, Newer
    <2>2. Newer(t) < PerPage * s.page
      BY <1>1, <1>5, <1>9, <2>1 DEF IsLast
    <2>3. CASE Newer(t) < PerPage * (s.page - 1)
      BY <1>4, <1>5, <2>1, <2>3 DEF RunReaches
    <2>4. CASE ~(Newer(t) < PerPage * (s.page - 1))
      <3>1. /\ PerPage * (s.page - 1) \in Int /\ PerPage * s.page \in Int
        BY <1>5, BankAssumption
      <3>2. Newer(t) \in PerPage * (s.page - 1) .. PerPage * s.page - 1
        BY <2>1, <2>2, <2>4, <3>1
      <3> QED
        BY <1>3, <2>1, <3>2 DEF Page
    <2> QED
      BY <2>3, <2>4
  <1>10. \A t \in Wanted(s) : (s.last = "yes" \/ Newer(t) < PerPage * s.page)
                              => t \in imported' \/ t \in items
    BY <1>4, <1>9
  <1> QED
    BY <1>4, <1>5, <1>6, <1>8, <1>10, OnwardInv

LEMMA LooksInv ==
  ASSUME BankInv, NEW r \in Syncs, LookUp(r) \/ CreateTransaction(r)
  PROVE  BankInv'
  <1>1. PICK s : s = sync[r]
    OBVIOUS
  <1>2. /\ s \in SyncRows /\ s.at \in {"look", "create"} /\ s.known <= Len(booked)
        /\ s.items \subseteq 1..Len(booked) /\ UNCHANGED <<hour, booked>> /\ RunReaches(s)
        /\ sync \in [Syncs -> SyncRows]
    BY <1>1 DEF BankInv, BankTypes, LookUp, CreateTransaction
  <1>3. PICK t : /\ t \in s.items
                 /\ \/ /\ t \in imported /\ imported' = imported
                       /\ sync' = [sync EXCEPT ![r] = Onward(s, s.items \ {t})]
                    \/ /\ imported' = imported
                       /\ sync' = [sync EXCEPT ![r] = [s EXCEPT !.at = "create"]]
                    \/ imported' = imported /\ sync' = [sync EXCEPT ![r] = NoSync]
                    \/ /\ imported' = imported \union {t}
                       /\ sync' = [sync EXCEPT ![r] = Onward(s, s.items \ {t})]
    <2>1. CASE LookUp(r)
      <3>1. PICK t \in DOMAIN booked :
              /\ IsNext(t, s)
              /\ sync' = [sync EXCEPT ![r] = IF t \in imported THEN Known(s, t)
                                             ELSE [s EXCEPT !.at = "create"]]
        BY <1>1, <2>1 DEF LookUp
      <3>2. t \in s.items /\ imported' = imported
        BY <2>1, <3>1 DEF IsNext, LookUp
      <3>3. CASE t \in imported
        BY <3>1, <3>2, <3>3 DEF Known
      <3>4. CASE t \notin imported
        BY <3>1, <3>2, <3>4
      <3> QED
        BY <3>3, <3>4
    <2>2. CASE CreateTransaction(r)
      <3>1. PICK t \in DOMAIN booked :
              /\ IsNext(t, s)
              /\ IF t \in imported THEN Finish(r) /\ UNCHANGED imported
                 ELSE /\ imported' = imported \union {t}
                      /\ sync' = [sync EXCEPT ![r] = Onward(s, s.items \ {t})]
        BY <1>1, <2>2 DEF CreateTransaction
      <3> QED
        BY <3>1 DEF IsNext, Finish
    <2> QED
      BY <2>1, <2>2
  <1>4. CASE sync' = [sync EXCEPT ![r] = Onward(s, s.items \ {t})] /\ t \in imported'
             /\ imported \subseteq imported'
    <2>1. s.at # "idle" /\ s.items \ {t} \in SUBSET Nat /\ s.items \ {t} \subseteq 1..Len(booked)
      BY <1>2 DEF SyncRows
    <2>2. \A u \in Wanted(s) : (s.last = "yes" \/ Newer(u) < PerPage * s.page)
                               => u \in imported' \/ u \in s.items \ {t}
      BY <1>2, <1>4 DEF RunReaches
    <2> QED
      BY <1>2, <1>4, <2>1, <2>2, OnwardInv
  <1>5. CASE sync' = [sync EXCEPT ![r] = [s EXCEPT !.at = "create"]] /\ imported' = imported
    <2>1. PICK w : w = [s EXCEPT !.at = "create"]
      OBVIOUS
    <2>2. /\ w \in SyncRows /\ w.at = "create" /\ w.items = s.items /\ w.known = s.known
          /\ w.since = s.since /\ w.last = s.last /\ w.page = s.page
      BY <1>2, <2>1 DEF SyncRows
    <2>3. RunReaches(w)'
      BY <1>2, <1>5, <2>2 DEF RunReaches, Wanted, Newer
    <2> QED
      BY <1>2, <1>5, <2>1, <2>2, <2>3, SyncGoesInv
  <1>6. CASE sync' = [sync EXCEPT ![r] = NoSync] /\ imported' = imported
    <2>1. /\ RunReaches(NoSync)' /\ NoSync.known <= Len(booked)
          /\ NoSync.items \subseteq 1..Len(booked)
      BY <1>2, NoSyncIs DEF RunReaches, BankInv, BankTypes
    <2> QED
      BY <1>2, <1>6, <2>1, NoSyncIs, SyncGoesInv
  <1> QED
    BY <1>3, <1>4, <1>5, <1>6

LEMMA StartSyncInv ==
  ASSUME BankInv, NEW r \in Syncs, StartSync(r)
  PROVE  BankInv'
  <1>1. PICK since, n : since = Since(r) /\ n = Len(booked)
    OBVIOUS
  <1>2. /\ hour \in Nat /\ booked \in Seq(Nat) /\ n \in Nat
        /\ UNCHANGED <<hour, booked, imported>>
    BY <1>1 DEF BankInv, BankTypes, StartSync
  <1>3. since \in Int
    BY <1>1, <1>2, BankAssumption DEF Since
  <1>4. PICK w : w = [NoSync EXCEPT !.at = "fetch", !.since = since, !.page = 1, !.known = n]
    OBVIOUS
  <1>5. /\ w \in SyncRows /\ w.at = "fetch" /\ w.page = 1 /\ w.known = n /\ w.items = {}
    BY <1>2, <1>3, <1>4, NoSyncIs DEF SyncRows
  <1>6. sync' = [sync EXCEPT ![r] = w]
    BY <1>1, <1>4 DEF StartSync
  <1>7. RunReaches(w)'
    <2>1. \A t \in Wanted(w)' : ~(Newer(t)' < 0)
      BY <1>1, <1>2, <1>5 DEF Wanted, Newer
    <2>2. PerPage * (w.page - 1) = 0
      BY <1>5, BankAssumption
    <2> QED
      BY <1>5, <2>1, <2>2 DEF RunReaches
  <1>8. w.known <= Len(booked) /\ w.items \subseteq 1..Len(booked) /\ imported \subseteq imported'
    BY <1>1, <1>2, <1>5
  <1> QED
    BY <1>2, <1>5, <1>6, <1>7, <1>8, SyncGoesInv

LEMMA StopsSyncInv ==
  ASSUME BankInv, NEW r \in Syncs, PageFails(r) \/ Complete(r) \/ SyncDies(r)
  PROVE  BankInv'
  <1>1. sync' = [sync EXCEPT ![r] = NoSync] /\ UNCHANGED <<hour, booked, imported>>
    BY DEF PageFails, Complete, SyncDies, Finish
  <1>2. RunReaches(NoSync)' /\ NoSync.known <= Len(booked) /\ NoSync.items \subseteq 1..Len(booked)
    BY NoSyncIs DEF RunReaches, BankInv, BankTypes
  <1> QED
    BY <1>1, <1>2, NoSyncIs, SyncGoesInv

\* What is booked now was not known to a run, and moves the others back.
LEMMA BookInv ==
  ASSUME BankInv, Book \/ NextHour
  PROVE  BankInv'
  <1>1. /\ hour \in Nat /\ booked \in Seq(Nat) /\ UNCHANGED <<sync, imported>>
        /\ sync \in [Syncs -> SyncRows] /\ BankTypes
    BY DEF Book, NextHour, BankInv, BankTypes
  <1>2. /\ booked' \in Seq(Nat) /\ Len(booked) \in Nat /\ Len(booked') \in Nat
        /\ hour' \in Nat /\ Len(booked) <= Len(booked')
        /\ \A t \in 1..Len(booked) : booked'[t] = booked[t]
    <2>1. CASE Book
      BY <1>1, <2>1 DEF Book
    <2>2. CASE NextHour
      BY <1>1, <2>2 DEF NextHour
    <2> QED
      BY <2>1, <2>2
  <1>3. BankTypes'
    <2>1. \A r \in Syncs : sync[r].known \in Nat /\ sync[r].known <= Len(booked)
      BY <1>1 DEF BankTypes, SyncRows
    <2>2. 1..Len(booked) \subseteq 1..Len(booked')
      BY <1>2
    <2>3. \A r \in Syncs : sync[r].known <= Len(booked')
      BY <1>2, <2>1
    <2> QED
      BY <1>1, <1>2, <2>2, <2>3 DEF BankTypes
  <1>4. ASSUME NEW r \in Syncs PROVE RunReaches(sync[r])'
    <2>1. /\ sync[r] \in SyncRows /\ sync[r].known <= Len(booked) /\ sync[r].known \in Nat
          /\ RunReaches(sync[r]) /\ PerPage * sync[r].page \in Int
          /\ PerPage * (sync[r].page - 1) \in Int
      BY <1>1, BankAssumption DEF BankInv, BankTypes, SyncRows
    <2>2. Wanted(sync[r])' = Wanted(sync[r])
      <3>1. \A t \in 1..sync[r].known : booked'[t] = booked[t]
        BY <1>2, <2>1
      <3>2. sync'[r] = sync[r]
        BY <1>1
      <3> QED
        BY <3>1, <3>2 DEF Wanted
    <2>3. \A t \in Wanted(sync[r]) : /\ t \in Int /\ Newer(t) \in Int /\ Newer(t)' \in Int
                                     /\ Newer(t) <= Newer(t)'
      BY <1>1, <1>2, <2>1 DEF Wanted, Newer
    <2> QED
      BY <1>1, <2>1, <2>2, <2>3 DEF RunReaches
  <1> QED
    BY <1>3, <1>4 DEF BankInv

LEMMA BankStepInv == BankInv /\ [BankNext]_bankVars => BankInv'
  <1> SUFFICES ASSUME BankInv, [BankNext]_bankVars PROVE BankInv'
    OBVIOUS
  <1>1. CASE UNCHANGED bankVars
    BY <1>1 DEF bankVars, BankInv, BankTypes, RunReaches, Wanted, Newer
  <1> QED
    BY <1>1, StartSyncInv, StopsSyncInv, FetchPageInv, LooksInv, BookInv
    DEF BankNext, SyncGoesOn

LEMMA BankHolds == BankInv => WindowIsImported
  BY DEF BankInv, RunReaches, Wanted, WindowIsImported

-----------------------------------------------------------------------------
(****************************************************************************)
(* Easter.  With h of easterSunday and the epact of the Church, the moon is *)
(* h days after the 21st of March or, for the two shifted epacts, one day   *)
(* less (MoonsAgree); l brings h to the next Sunday (SundayFollows); and m  *)
(* takes a week off exactly where the shift makes the Sunday before that    *)
(* one the first after the moon (CorrectionIs).                             *)
(****************************************************************************)
\* The years whose Easter a leave may ask for: those of Years and the one after.
Calendar == 1900..2400
MarchDay(y) == (y - 1) * 365 + (y - 1) \div 4 - (y - 1) \div 100 + (y - 1) \div 400 - 730119 + 59
                 + (IF IsLeap(y) THEN 1 ELSE 0)

LEMMA MarchAndApril ==
  ASSUME NEW y \in Calendar
  PROVE  /\ MarchDay(y) \in Int
         /\ \A d \in Int : DateOf(y, 3, d) = MarchDay(y) + d - 1
         /\ \A d \in Int : DateOf(y, 4, d) = MarchDay(y) + 31 + d - 1
  BY DEF MarchDay, DateOf, BeforeMonth, Calendar

LEMMA MoonsAgree ==
  ASSUME NEW c \in 19..24, NEW g \in 0..18
  PROVE  /\ Moon(g, c) \in 0..29
         /\ (14 + 11 * g - (3 * (c + 1)) \div 4 + (5 + 8 * (c + 1)) \div 25) % 30 = 29 - Moon(g, c)
  BY DEF Moon

\* The day of the week in March moves on by one each year and by two after a leap day.
LEMMA MarchWeekday ==
  ASSUME NEW y \in Calendar
  PROVE  MarchDay(y) = 365 * (y - 1) + y \div 4 - y \div 100 + y \div 400 - 730060
  <1>1. /\ y \div 4 = (y - 1) \div 4 + (IF y % 4 = 0 THEN 1 ELSE 0)
        /\ y \div 100 = (y - 1) \div 100 + (IF y % 100 = 0 THEN 1 ELSE 0)
        /\ y \div 400 = (y - 1) \div 400 + (IF y % 400 = 0 THEN 1 ELSE 0)
    BY DEF Calendar
  <1>2. (y % 400 = 0 => y % 100 = 0) /\ (y % 100 = 0 => y % 4 = 0)
    BY DEF Calendar
  <1> QED
    BY <1>1, <1>2 DEF MarchDay, IsLeap, Calendar

LEMMA YearParts ==
  ASSUME NEW y \in Calendar, NEW a, a = y \div 400, NEW b, b = (y \div 100) % 4,
         NEW i, i = (y % 100) \div 4, NEW k, k = (y % 100) % 4
  PROVE  /\ a \in 4..6 /\ b \in 0..3 /\ i \in 0..24 /\ k \in 0..3
         /\ y = 400 * a + 100 * b + 4 * i + k
         /\ y \div 100 = 4 * a + b /\ y \div 4 = 100 * a + 25 * b + i
  <1>1. PICK c, r : c = y \div 100 /\ r = y % 100
    OBVIOUS
  <1>2. c \in 19..24 /\ r \in 0..99 /\ y = 100 * c + r
    BY <1>1 DEF Calendar
  <1>3. a = c \div 4 /\ b = c % 4 /\ i = r \div 4 /\ k = r % 4
    BY <1>1, <1>2
  <1>4. a \in 4..6 /\ b \in 0..3 /\ c = 4 * a + b
    BY <1>2, <1>3
  <1>5. i \in 0..24 /\ k \in 0..3 /\ r = 4 * i + k
    BY <1>2, <1>3
  <1>6. y = 400 * a + 100 * b + 4 * i + k /\ y \div 100 = 4 * a + b
    BY <1>1, <1>2, <1>4, <1>5 DEF Calendar
  <1>7. y \div 4 = 100 * a + 25 * b + i
    BY <1>4, <1>5, <1>6
  <1> QED
    BY <1>4, <1>5, <1>6, <1>7

\* l of easterSunday goes from the h-th day after the 22nd of March to a Sunday.
Sundays(y, h) == (32 + 2 * ((y \div 100) % 4) + 2 * ((y % 100) \div 4) - h - ((y % 100) % 4)) % 7
LEMMA SundayFollows ==
  ASSUME NEW y \in Calendar, NEW h \in 0..29
  PROVE  /\ Sundays(y, h) \in 0..6
         /\ (MarchDay(y) + 21 + h + Sundays(y, h) + 6) % 7 = 0
  <1>1. PICK a, b, i, k : /\ a = y \div 400 /\ b = (y \div 100) % 4
                           /\ i = (y % 100) \div 4 /\ k = (y % 100) % 4
    OBVIOUS
  <1>2. /\ a \in 4..6 /\ b \in 0..3 /\ i \in 0..24 /\ k \in 0..3
        /\ y = 400 * a + 100 * b + 4 * i + k
        /\ y \div 100 = 4 * a + b /\ y \div 4 = 100 * a + 25 * b + i
    BY <1>1, YearParts
  <1>3. PICK x, q, l : x = 32 + 2 * b + 2 * i - h - k /\ q = x \div 7 /\ l = x % 7
    OBVIOUS
  <1>4. q \in Int /\ l \in 0..6 /\ 32 + 2 * b + 2 * i - h - k = 7 * q + l
    <2>1. x \in Int
      BY <1>2, <1>3
    <2>2. q \in Int /\ l \in 0..6 /\ x = 7 * q + l
      BY <1>3, <2>1
    <2> QED
      BY <1>3, <2>2
  <1>5. Sundays(y, h) = l
    BY <1>1, <1>3 DEF Sundays
  <1>6. MarchDay(y) = 365 * (400 * a + 100 * b + 4 * i + k - 1) + 97 * a + 24 * b + i - 730060
    BY <1>1, <1>2, MarchWeekday
  <1>7. MarchDay(y) + 21 + h + l + 6 = 7 * (20871 * a + 5218 * b + 209 * i + 52 * k - 104338 - q)
    BY <1>2, <1>4, <1>6
  <1>8. MarchDay(y) + 21 + h + l + 6 \in Int /\ q \in Int
    BY <1>2, <1>4, <1>6
  <1> QED
    BY <1>2, <1>4, <1>5, <1>7

\* m of easterSunday is one where h + l reaches the week that the shift takes off.
LEMMA CorrectionIs ==
  ASSUME NEW g \in 0..18, NEW h \in 0..29, NEW l \in 0..6
  PROVE  (g + 11 * h + 22 * l) \div 451
           = (IF (h = 29 /\ l = 6) \/ (h = 28 /\ l = 6 /\ g > 10) THEN 1 ELSE 0)
  OBVIOUS

\* The day that n of easterSunday stands for.
LEMMA EasterDay ==
  ASSUME NEW y \in Calendar, NEW n \in 114..148
  PROVE  DateOf(y, n \div 31, (n % 31) + 1) = MarchDay(y) + n - 93
  <1>1. CASE n < 124
    <2>1. n \div 31 = 3 /\ n % 31 = n - 93
      BY <1>1
    <2> QED
      BY <2>1, MarchAndApril
  <1>2. CASE n >= 124
    <2>1. n \div 31 = 4 /\ n % 31 = n - 124
      BY <1>2
    <2>2. DateOf(y, 4, n - 123) = MarchDay(y) + 31 + (n - 123) - 1
      BY MarchAndApril
    <2> QED
      BY <2>1, <2>2, MarchAndApril
  <1> QED
    BY <1>1, <1>2

\* easterSunday finds the Sunday after the full moon of the Church.
LEMMA EasterIsChurch ==
  ASSUME NEW y \in Calendar
  PROVE  EasterSunday(y) = ChurchEaster(y)
  <1>1. PICK g, c, h, l, m, n :
          /\ g = y % 19 /\ c = y \div 100 /\ h = Moon(g, c) /\ l = Sundays(y, h)
          /\ m = (g + 11 * h + 22 * l) \div 451 /\ n = h + l - 7 * m + 114
    OBVIOUS
  <1>2. g \in 0..18 /\ c \in 19..24
    BY <1>1 DEF Calendar
  <1>3. /\ h \in 0..29
        /\ (14 + 11 * g - (3 * (c + 1)) \div 4 + (5 + 8 * (c + 1)) \div 25) % 30 = 29 - h
    BY <1>1, <1>2, MoonsAgree
  <1>4. l \in 0..6 /\ (MarchDay(y) + 21 + h + l + 6) % 7 = 0
    BY <1>1, <1>3, SundayFollows
  <1>5. m = IF (h = 29 /\ l = 6) \/ (h = 28 /\ l = 6 /\ g > 10) THEN 1 ELSE 0
    <2>1. h \in 0..29 /\ l \in 0..6
      BY <1>3, <1>4
    <2>2. (g + 11 * h + 22 * l) \div 451
            = IF (h = 29 /\ l = 6) \/ (h = 28 /\ l = 6 /\ g > 10) THEN 1 ELSE 0
      BY <1>2, <2>1, CorrectionIs
    <2> QED
      BY <1>1, <2>2, Zenon
  <1>6. n \in 114..148
    <2>1. n = h + l - 7 * m + 114
      BY <1>1
    <2>2. h \in 0..29 /\ l \in 0..6
      BY <1>3, <1>4
    <2> QED
      BY <2>1, <2>2, <1>2, <1>5
  <1>7. EasterSunday(y) = MarchDay(y) + n - 93
    <2>1. EasterSunday(y) = DateOf(y, n \div 31, (n % 31) + 1)
      BY <1>1 DEF EasterSunday, Sundays
    <2> QED
      BY <2>1, <1>6, EasterDay
  <1>8. PICK k : k = IF h = 29 \/ (h = 28 /\ g > 10) THEN h - 1 ELSE h
    OBVIOUS
  <1>9. ChurchMoon(y) = MarchDay(y) + 20 + k
    <2>1. DateOf(y, 4, 19) = MarchDay(y) + 49
      BY MarchAndApril
    <2>2. PICK e : e = (14 + 11 * g - (3 * (c + 1)) \div 4 + (5 + 8 * (c + 1)) \div 25) % 30
      OBVIOUS
    <2>3. e = 29 - h
      BY <2>2, <1>3
    <2>4. ChurchMoon(y)
            = DateOf(y, 4, 19) - (IF e = 0 \/ (e = 1 /\ g > 10) THEN e + 1 ELSE e)
      BY <2>2, <1>1 DEF ChurchMoon
    <2>5. (IF e = 0 \/ (e = 1 /\ g > 10) THEN e + 1 ELSE e) = 29 - k
      BY <2>3, <1>2, <1>3, <1>8
    <2> QED
      BY <2>1, <2>4, <2>5, <1>3, <1>8, MarchAndApril
  <1>10. PICK moon, w : moon = MarchDay(y) + 20 + k /\ w = (moon + 6) % 7
    OBVIOUS
  <1>11. MarchDay(y) \in Int /\ k \in 0..28
    BY <1>3, <1>8, MarchAndApril
  <1>12. ChurchEaster(y) = moon + 7 - w
    BY <1>9, <1>10 DEF ChurchEaster, Weekday
  <1>13. moon + 7 - w = MarchDay(y) + n - 93
    <2>1. n = h + l - 7 * m + 114
      BY <1>1
    <2>2. k = IF h = 29 \/ (h = 28 /\ g > 10) THEN h - 1 ELSE h
      BY <1>8
    <2>3. n - 114 - k \in 0..6
      BY <2>1, <2>2, <1>2, <1>3, <1>4, <1>5
    <2>4. PICK z : z = MarchDay(y) + n - 93
      OBVIOUS
    <2>5. z = moon + 1 + (n - 114 - k) /\ z = MarchDay(y) + 21 + h + l - 7 * m
      BY <2>1, <2>4, <1>3, <1>4, <1>5, <1>6, <1>10, <1>11
    <2>6. (z + 6) % 7 = 0
      BY <2>5, <1>3, <1>4, <1>5, <1>11
    <2>7. moon \in Int /\ z \in Int
      BY <1>10, <1>11, <1>6, <2>4
    <2>8. PICK j : j = n - 114 - k
      OBVIOUS
    <2>9. j \in 0..6 /\ z = moon + 1 + j
      BY <2>3, <2>5, <2>8
    <2>10. w = 6 - j
      <3>1. PICK p : p = moon + 6
        OBVIOUS
      <3>2. p \in Int /\ w = p % 7 /\ (p + 1 + j) % 7 = 0
        BY <2>6, <2>7, <2>9, <1>10, <3>1
      <3>3. j \in 0..6
        BY <2>9
      <3> QED
        BY <3>2, <3>3
    <2> QED
      BY <2>4, <2>7, <2>9, <2>10
  <1> QED
    BY <1>7, <1>12, <1>13
-----------------------------------------------------------------------------
(***************************************************************************)
(* The half days.  What Halves subtracts are two different half days, the  *)
(* first morning and the last afternoon, if they are worked.               *)
(***************************************************************************)
DayTaken(half, e) == IF half THEN {e} ELSE {}
Less(half, e, S) == IF half /\ e \in S THEN 1 ELSE 0

LEMMA HalfIsTaken ==
  ASSUME NEW S, IsFiniteSet(S), NEW half \in BOOLEAN, NEW e
  PROVE  /\ IsFiniteSet(S \ DayTaken(half, e))
         /\ Cardinality(S \ DayTaken(half, e)) = Cardinality(S) - Less(half, e, S)
  <1>1. Cardinality(S) \in Nat
    BY FS_CardinalityType
  <1>2. CASE half /\ e \in S
    <2>1. S \ DayTaken(half, e) = S \ {e}
      BY <1>2 DEF DayTaken
    <2> QED
      BY <2>1, <1>1, <1>2, FS_RemoveElement DEF Less
  <1>3. CASE ~(half /\ e \in S)
    <2>1. S \ DayTaken(half, e) = S
      BY <1>3 DEF DayTaken
    <2> QED
      BY <2>1, <1>1, <1>3 DEF Less
  <1> QED
    BY <1>2, <1>3

\* Days of two halves each.
LEMMA TwoHalves ==
  ASSUME NEW W, IsFiniteSet(W)
  PROVE  /\ IsFiniteSet(W \X {"am", "pm"})
         /\ Cardinality(W \X {"am", "pm"}) = 2 * Cardinality(W)
  <1>1. IsFiniteSet({"am"}) /\ Cardinality({"am"}) = 1
    BY FS_Singleton
  <1>2. {"am"} \union {"pm"} = {"am", "pm"} /\ "pm" \notin {"am"}
    OBVIOUS
  <1>3. IsFiniteSet({"am", "pm"}) /\ Cardinality({"am", "pm"}) = 2
    BY <1>1, <1>2, FS_AddElement
  <1>4. Cardinality(W) \in Nat
    BY FS_CardinalityType
  <1>5. PICK H : H = {"am", "pm"}
    OBVIOUS
  <1>6. /\ IsFiniteSet(W \X H)
        /\ Cardinality(W \X H) = Cardinality(W) * Cardinality(H)
    BY <1>3, <1>5, FS_Product
  <1>7. Cardinality(H) = 2
    BY <1>3, <1>5
  <1> QED
    BY <1>4, <1>5, <1>6, <1>7

LEMMA HalvesAreCounted ==
  ASSUME NEW from \in Int, NEW to \in Int, from <= to,
         NEW halfStart \in BOOLEAN, NEW halfEnd \in BOOLEAN,
         NEW W, W = {d \in from..to : IsWorkday(d)}, W # {}
  PROVE  Halves(from, to, halfStart, halfEnd)
           = Larger(1, Cardinality((W \X {"am", "pm"})
                                     \ (DayTaken(halfStart, <<from, "am">>)
                                          \union DayTaken(halfEnd, <<to, "pm">>))))
  <1>1. IsFiniteSet(W) /\ Cardinality(W) \in Nat
    <2>1. IsFiniteSet(from..to) /\ W \subseteq from..to
      BY FS_Interval
    <2> QED
      BY <2>1, FS_Subset, FS_CardinalityType
  <1>2. PICK S, R : /\ S = W \X {"am", "pm"}
                     /\ R = S \ DayTaken(halfStart, <<from, "am">>)
    OBVIOUS
  <1>3. IsFiniteSet(S) /\ Cardinality(S) = 2 * Cardinality(W)
    BY <1>1, <1>2, TwoHalves
  <1>4. /\ <<from, "am">> \in S <=> IsWorkday(from)
        /\ <<to, "pm">> \in R <=> IsWorkday(to)
    <2>1. from \in from..to /\ to \in from..to
      OBVIOUS
    <2>2. (from \in W <=> IsWorkday(from)) /\ (to \in W <=> IsWorkday(to))
      BY <2>1
    <2> QED
      BY <1>2, <2>2 DEF DayTaken
  <1>5. PICK i, j : /\ i = Less(halfStart, <<from, "am">>, S)
                     /\ j = Less(halfEnd, <<to, "pm">>, R)
    OBVIOUS
  <1>6. IsFiniteSet(R) /\ Cardinality(R) = Cardinality(S) - i
    <2>1. /\ IsFiniteSet(S \ DayTaken(halfStart, <<from, "am">>))
          /\ Cardinality(S \ DayTaken(halfStart, <<from, "am">>))
               = Cardinality(S) - Less(halfStart, <<from, "am">>, S)
      BY <1>3, HalfIsTaken, Zenon
    <2> QED
      BY <2>1, <1>2, <1>5
  <1>7. Cardinality(R \ DayTaken(halfEnd, <<to, "pm">>)) = Cardinality(R) - j
    <2>1. Cardinality(R \ DayTaken(halfEnd, <<to, "pm">>))
            = Cardinality(R) - Less(halfEnd, <<to, "pm">>, R)
      BY <1>6, HalfIsTaken, Zenon
    <2> QED
      BY <2>1, <1>5
  <1>8. S \ (DayTaken(halfStart, <<from, "am">>) \union DayTaken(halfEnd, <<to, "pm">>))
          = R \ DayTaken(halfEnd, <<to, "pm">>)
    BY <1>2
  <1>9. PICK n : n = Cardinality(W)
    OBVIOUS
  <1>10. Cardinality((W \X {"am", "pm"}) \ (DayTaken(halfStart, <<from, "am">>)
                                              \union DayTaken(halfEnd, <<to, "pm">>)))
           = 2 * n - i - j
    BY <1>1, <1>2, <1>3, <1>6, <1>7, <1>8, <1>9, <1>5
  <1>11. /\ i = IF halfStart /\ IsWorkday(from) THEN 1 ELSE 0
         /\ j = IF halfEnd /\ IsWorkday(to) THEN 1 ELSE 0
    <2>1. i = IF halfStart /\ <<from, "am">> \in S THEN 1 ELSE 0
      BY <1>5 DEF Less
    <2>2. j = IF halfEnd /\ <<to, "pm">> \in R THEN 1 ELSE 0
      BY <1>5 DEF Less
    <2> QED
      BY <2>1, <2>2, <1>4
  <1>12. Halves(from, to, halfStart, halfEnd)
           = IF from = to THEN IF halfStart \/ halfEnd THEN 1 ELSE 2 * n
             ELSE Larger(1, 2 * n - i - j)
    BY <1>9, <1>11 DEF Halves
  <1>13. CASE from = to
    <2>1. from..to = {from}
      BY <1>13
    <2>2. W = {from} /\ IsWorkday(from) /\ IsWorkday(to)
      BY <2>1, <1>13
    <2>3. n = 1
      BY <2>2, <1>9, FS_Singleton
    <2>4. i \in 0..1 /\ j \in 0..1 /\ (halfStart <=> i = 1) /\ (halfEnd <=> j = 1)
      BY <2>2, <1>11
    <2>5. Larger(1, 2 * n - i - j) = IF halfStart \/ halfEnd THEN 1 ELSE 2 * n
      BY <2>3, <2>4 DEF Larger
    <2> QED
      BY <2>5, <1>10, <1>12, <1>13
  <1>14. CASE from # to
    BY <1>10, <1>12, <1>14
  <1> QED
    BY <1>13, <1>14

\* The holidays of the code are those of the Church and of the fixed dates.
LEMMA HolidaysAreFree ==
  ASSUME year \in Years
  PROVE  UNION {FrenchHolidays(y) : y \in {year, year + 1}}
           = {DateOf(y, f[1], f[2]) : y \in {year, year + 1}, f \in FixedDays}
               \union {ChurchEaster(y) + n : y \in {year, year + 1}, n \in {1, 39, 50}}
  <1>1. year \in Calendar /\ year + 1 \in Calendar
    BY YearsAssumption DEF Calendar
  <1>2. \A y \in {year, year + 1} :
           FrenchHolidays(y) = {DateOf(y, f[1], f[2]) : f \in FixedDays}
                                 \union {ChurchEaster(y) + n : n \in {1, 39, 50}}
    BY <1>1, EasterIsChurch DEF FrenchHolidays
  <1> QED
    BY <1>2

LEMMA DaysAreWorked ==
  ASSUME year \in Years, NEW d \in Int,
         NEW free, free = UNION {FrenchHolidays(y) : y \in {year, year + 1}}
  PROVE  (Weekday(d) \in 1..5 /\ d \notin free) <=> IsWorkday(d)
  <1>1. Weekday(d) \in 0..6
    BY DEF Weekday
  <1>2. Weekday(d) \in 1..5 <=> Weekday(d) \notin {0, 6}
    BY <1>1
  <1> QED
    BY <1>2 DEF IsWorkday

-----------------------------------------------------------------------------
LeaveInv ==
    /\ year \in Years
    /\ leave = NoLeave \/ leave.halves = Larger(1, Cardinality(HalvesTaken))

LEMMA LeaveInitInv ==
  ASSUME LeaveInit
  PROVE  LeaveInv
  BY DEF LeaveInit, LeaveInv

LEMMA HalvesTakenAre ==
  ASSUME year \in Years, year' = year, leave'.from \in Int, leave'.to \in Int,
         NEW W, W = {d \in leave'.from..leave'.to : IsWorkday(d)}
  PROVE  HalvesTaken' = (W \X {"am", "pm"})
                          \ (DayTaken(leave'.halfStart, <<leave'.from, "am">>)
                               \union DayTaken(leave'.halfEnd, <<leave'.to, "pm">>))
  <1>1. PICK free : free = UNION {FrenchHolidays(y) : y \in {year, year + 1}}
    OBVIOUS
  <1>2. free = {DateOf(y, f[1], f[2]) : y \in {year, year + 1}, f \in FixedDays}
                 \union {ChurchEaster(y) + n : y \in {year, year + 1}, n \in {1, 39, 50}}
    BY <1>1, HolidaysAreFree
  <1>3. {d \in leave'.from..leave'.to : Weekday(d) \in 1..5 /\ d \notin free} = W
    <2>1. \A d \in leave'.from..leave'.to : d \in Int
      OBVIOUS
    <2>2. \A d \in leave'.from..leave'.to :
             (Weekday(d) \in 1..5 /\ d \notin free) <=> IsWorkday(d)
      BY <1>1, <2>1, DaysAreWorked
    <2> QED
      BY <2>2
  <1> QED
    BY <1>2, <1>3 DEF HalvesTaken, DayTaken

\* create counts the half days of the leave it writes.
LEMMA AskLeaveInv ==
  ASSUME year \in Years, NEW from \in Int, NEW to \in Int, from <= to,
         NEW halfStart \in BOOLEAN, NEW halfEnd \in BOOLEAN,
         AskLeave(from, to, halfStart, halfEnd)
  PROVE  LeaveInv'
  <1>1. PICK W : W = {d \in from..to : IsWorkday(d)}
    OBVIOUS
  <1>2. W # {}
    BY <1>1 DEF AskLeave
  <1>3. year' = year
    BY DEF AskLeave
  <1>4. /\ leave'.from = from /\ leave'.to = to
        /\ leave'.halfStart = halfStart /\ leave'.halfEnd = halfEnd
        /\ leave'.halves = Halves(from, to, halfStart, halfEnd)
    BY DEF AskLeave
  <1>6. W = {d \in leave'.from..leave'.to : IsWorkday(d)}
    BY <1>1, <1>4
  <1>7. HalvesTaken' = (W \X {"am", "pm"})
                         \ (DayTaken(halfStart, <<from, "am">>)
                              \union DayTaken(halfEnd, <<to, "pm">>))
    BY <1>3, <1>4, <1>6, HalvesTakenAre
  <1>8. leave'.halves = Larger(1, Cardinality(HalvesTaken'))
    BY <1>1, <1>2, <1>4, <1>7, HalvesAreCounted
  <1> QED
    BY <1>3, <1>8 DEF LeaveInv

LEMMA LeaveStepInv ==
  ASSUME LeaveInv, [LeaveNext]_leaveVars
  PROVE  LeaveInv'
  <1>1. CASE LeaveNext
    <2>1. PICK from \in FirstDays, length \in 0..MaxLength, halfStart, halfEnd \in BOOLEAN :
             AskLeave(from, from + length, halfStart, halfEnd)
      BY <1>1 DEF LeaveNext
    <2>2. from \in Int /\ length \in Nat
      <3>1. \A i, j : \A d \in i..j : d \in Int
        OBVIOUS
      <3> QED
        BY <3>1 DEF FirstDays
    <2>3. from + length \in Int /\ from <= from + length
      BY <2>2
    <2> QED
      BY <2>1, <2>2, <2>3, AskLeaveInv DEF LeaveInv
  <1>2. CASE UNCHANGED leaveVars
    <2>1. year' = year /\ leave' = leave
      BY <1>2 DEF leaveVars
    <2>2. HalvesTaken' = HalvesTaken
      BY <2>1 DEF HalvesTaken
    <2> QED
      BY <2>1, <2>2 DEF LeaveInv
  <1> QED
    BY <1>1, <1>2

LEMMA LeaveHolds ==
  ASSUME LeaveInv
  PROVE  LeavesAreCounted
  <1>1. year \in Calendar
    BY YearsAssumption DEF LeaveInv, Calendar
  <1> QED
    BY <1>1, EasterIsChurch DEF LeaveInv, LeavesAreCounted

-----------------------------------------------------------------------------
(***************************************************************************)
(* The scores.  Everything in them is monotone: the shares and the rounded *)
(* means because division is (DivRises).  A mean of at least half is shown *)
(* for the sum of what each subscore is above half of its weight           *)
(* (NothingToRecommend), where only the minor alerts count against.        *)
(***************************************************************************)
LEMMA DivIs ==
  ASSUME NEW n \in Int, NEW d \in Nat, d > 0
  PROVE  /\ n \div d \in Int
         /\ d * (n \div d) <= n /\ n < d * (n \div d) + d
  OBVIOUS

LEMMA DivRises ==
  ASSUME NEW n \in Int, NEW m \in Int, NEW d \in Nat, d > 0, n <= m
  PROVE  n \div d <= m \div d
  <1>1. PICK q, r : q = n \div d /\ r = m \div d
    OBVIOUS
  <1>2. /\ q \in Int /\ d * q <= n
        /\ r \in Int /\ m < d * r + d
    BY <1>1, DivIs
  <1>3. CASE q > r
    <2>1. PICK k \in Nat : q = r + 1 + k
      BY <1>2, <1>3
    <2>2. d * q = d * r + d + d * k /\ d * k >= 0
      BY <1>2, <2>1
    <2> QED
      BY <1>2, <2>2
  <1>4. CASE q <= r
    BY <1>1, <1>4
  <1> QED
    BY <1>2, <1>3, <1>4

\* Math.round keeps the order and the bounds.
LEMMA RoundedRises ==
  ASSUME NEW n \in Int, NEW m \in Int, NEW d \in Nat, d > 0, n <= m
  PROVE  /\ Rounded(n, d) \in Int /\ Rounded(m, d) \in Int
         /\ Rounded(n, d) <= Rounded(m, d)
  <1>1. /\ 2 * d \in Nat /\ 2 * d > 0
        /\ 2 * n + d \in Int /\ 2 * m + d \in Int /\ 2 * n + d <= 2 * m + d
    OBVIOUS
  <1> QED
    BY <1>1, DivIs, DivRises DEF Rounded

LEMMA RoundedWhole ==
  ASSUME NEW k \in Nat, NEW d \in Nat, d > 0, NEW n, n = d * k
  PROVE  n \in Int /\ Rounded(n, d) = k
  <1>1. PICK q, e : q = (2 * n + d) \div (2 * d) /\ e = 2 * d
    OBVIOUS
  <1>2. n \in Int /\ e \in Nat /\ e > 0 /\ 2 * n + d \in Int
    BY <1>1
  <1>3. q \in Int /\ e * q <= 2 * n + d /\ 2 * n + d < e * q + e
    BY <1>1, <1>2, DivIs
  <1>4. 2 * n = e * k
    BY <1>1
  <1>5. q <= k
    <2>1. SUFFICES ASSUME q > k PROVE FALSE
      BY <1>3
    <2>2. PICK j \in Nat : q = k + 1 + j
      BY <1>3, <2>1
    <2>3. e * q = e * k + e + e * j /\ e * j >= 0
      BY <1>2, <2>2
    <2> QED
      BY <1>1, <1>2, <1>3, <1>4, <2>3
  <1>6. q >= k
    <2>1. SUFFICES ASSUME q < k PROVE FALSE
      BY <1>3
    <2>2. PICK j \in Nat : k = q + 1 + j
      BY <1>3, <2>1
    <2>3. e * k = e * q + e + e * j /\ e * j >= 0
      BY <1>2, <1>3, <2>2
    <2> QED
      BY <1>1, <1>2, <1>3, <1>4, <2>3
  <1> QED
    BY <1>1, <1>2, <1>3, <1>5, <1>6 DEF Rounded

LEMMA RoundedBetween ==
  ASSUME NEW i \in Nat, NEW j \in Nat, NEW d \in Nat, d > 0, NEW n \in Int,
         d * i <= n, n <= d * j
  PROVE  Rounded(n, d) \in i..j
  <1>1. PICK low, high : low = d * i /\ high = d * j
    OBVIOUS
  <1>2. low \in Int /\ high \in Int /\ Rounded(low, d) = i /\ Rounded(high, d) = j
    BY <1>1, RoundedWhole
  <1>3. low <= n /\ n <= high
    BY <1>1
  <1>4. Rounded(low, d) <= Rounded(n, d) /\ Rounded(n, d) \in Int
    BY <1>2, <1>3, RoundedRises
  <1>5. Rounded(n, d) <= Rounded(high, d)
    BY <1>2, <1>3, RoundedRises
  <1> QED
    BY <1>2, <1>4, <1>5

LEMMA RoundedPercent ==
  ASSUME NEW d \in Nat, d > 0, NEW n \in Nat, n <= 100 * d
  PROVE  Rounded(n, d) \in 0..100
  <1>1. PICK i, j : i = 0 /\ j = 100
    OBVIOUS
  <1>2. i \in Nat /\ j \in Nat /\ n \in Int /\ d * i <= n /\ n <= d * j
    BY <1>1
  <1>3. Rounded(n, d) \in i..j
    BY <1>2, RoundedBetween
  <1> QED
    BY <1>1, <1>3

\* pct: a share of nothing is nothing, and a share lies between nothing and all.
LEMMA BoundedRises ==
  ASSUME NEW n \in Int, NEW m \in Int, n <= m
  PROVE  /\ Bounded(n) \in 0..(100 * Grain) /\ Bounded(m) \in 0..(100 * Grain)
         /\ Bounded(n) <= Bounded(m)
  BY GrainAssumption DEF Bounded

LEMMA GrainTimes ==
  ASSUME NEW n \in Int, NEW m \in Int, n <= m
  PROVE  Grain * n \in Int /\ Grain * n <= Grain * m
  <1>1. PICK k \in Nat : m = n + k
    OBVIOUS
  <1>2. Grain * m = Grain * n + Grain * k /\ Grain * k >= 0
    BY <1>1, GrainAssumption
  <1> QED
    BY <1>2, GrainAssumption

LEMMA PctRises ==
  ASSUME NEW n \in Int, NEW m \in Int, NEW d \in Nat, n <= m
  PROVE  /\ Pct(n, d) \in 0..(100 * Grain) /\ Pct(m, d) \in 0..(100 * Grain)
         /\ Pct(n, d) <= Pct(m, d)
  <1>1. CASE d <= 0
    BY <1>1, GrainAssumption DEF Pct
  <1>2. CASE d > 0
    <2>1. PICK s, t : s = 50 * Grain * n /\ t = 50 * Grain * m
      OBVIOUS
    <2>2. s \in Int /\ t \in Int /\ s <= t
      <3>1. /\ Grain * n \in Int /\ Grain * m \in Int /\ Grain * n <= Grain * m
        BY GrainTimes
      <3>2. s = 50 * (Grain * n) /\ t = 50 * (Grain * m)
        BY <2>1, GrainAssumption
      <3> QED
        BY <3>1, <3>2
    <2>3. s \div d \in Int /\ t \div d \in Int /\ s \div d <= t \div d
      BY <1>2, <2>2, DivIs, DivRises
    <2> QED
      BY <1>2, <2>1, <2>3, BoundedRises DEF Pct
  <1> QED
    BY <1>1, <1>2

LEMMA PctWhole ==
  ASSUME NEW d \in Nat, d > 0
  PROVE  Pct(2 * d, d) = 100 * Grain
  <1>1. PICK q, n : q = (50 * Grain * (2 * d)) \div d /\ n = 50 * Grain * (2 * d)
    OBVIOUS
  <1>2. PICK k : k = 100 * Grain
    OBVIOUS
  <1>3. k \in Nat /\ n = d * k
    BY <1>1, <1>2, GrainAssumption
  <1>4. n \in Int
    BY <1>3
  <1>5. q \in Int /\ d * q <= n /\ n < d * q + d
    BY <1>1, <1>4, DivIs
  <1>6. q = k
    <2>1. CASE q > k
      <3>1. PICK j \in Nat : q = k + 1 + j
        BY <1>3, <1>5, <2>1
      <3>2. d * q = d * k + d + d * j /\ d * j >= 0
        BY <1>3, <3>1
      <3> QED
        BY <1>3, <1>4, <1>5, <3>2
    <2>2. CASE q < k
      <3>1. PICK j \in Nat : k = q + 1 + j
        BY <1>3, <1>5, <2>2
      <3>2. d * k = d * q + d + d * j /\ d * j >= 0
        BY <1>5, <3>1
      <3> QED
        BY <1>3, <1>4, <1>5, <3>2
    <2> QED
      BY <1>3, <1>5, <2>1, <2>2
  <1> QED
    BY <1>1, <1>2, <1>6, GrainAssumption DEF Pct, Bounded

-----------------------------------------------------------------------------
\* A customer's situation, point by point.
IsSituation(c) == DOMAIN c = Points /\ \A p \in Points : c[p] \in Facts[p]

LEMMA PointsAre ==
  Points = {"m365", "open", "assets", "certs", "checks", "docs", "tickets", "invoices",
            "contracts", "visit", "nps"}
  BY DEF Points, Facts

LEMMA SituationIs ==
  ASSUME NEW c, IsSituation(c)
  PROVE  /\ c.m365.connected \in {"no", "yes"} /\ c.m365.secure \in {None} \union 0..100
         /\ c.m365.users \in Nat /\ c.m365.mfa \in Nat
         /\ c.open.high \in Nat /\ c.open.medium \in Nat /\ c.open.low \in Nat
         /\ DOMAIN c.open = {"high", "medium", "low"}
         /\ c.assets.active \in Nat /\ c.assets.expired \in Nat /\ c.assets.soon \in Nat
         /\ c.certs.watched \in Nat /\ c.certs.error \in Nat /\ c.certs.expired \in Nat
         /\ c.checks.monitors \in Nat /\ c.checks.total \in Nat /\ c.checks.up \in Nat
         /\ c.docs \subseteq {"infrastructure", "procedures", "sites"}
         /\ c.tickets.open \in Nat /\ c.tickets.late \in Nat /\ c.tickets.slow \in {"no", "yes"}
         /\ c.invoices.overdue \in Nat /\ c.invoices.unpaid \in Nat
         /\ c.contracts \in Nat /\ c.visit \in {"recently", "before60", "before90", "never"}
         /\ c.nps \in {None} \union 0..10
  <1>1. /\ c["m365"] \in Facts["m365"] /\ c["open"] \in Facts["open"]
        /\ c["assets"] \in Facts["assets"] /\ c["certs"] \in Facts["certs"]
    BY PointsAre DEF IsSituation
  <1>2. /\ c["checks"] \in Facts["checks"] /\ c["docs"] \in Facts["docs"]
        /\ c["tickets"] \in Facts["tickets"] /\ c["invoices"] \in Facts["invoices"]
    BY PointsAre DEF IsSituation
  <1>3. /\ c["contracts"] \in Facts["contracts"] /\ c["visit"] \in Facts["visit"]
        /\ c["nps"] \in Facts["nps"]
    BY PointsAre DEF IsSituation
  <1>4. /\ c.m365 \in [connected : {"no", "yes"}, secure : {None} \union 0..100,
                       users : Nat, mfa : Nat]
        /\ c.open \in [high : Nat, medium : Nat, low : Nat]
        /\ c.assets \in [active : Nat, expired : Nat, soon : Nat]
        /\ c.certs \in [watched : Nat, error : Nat, expired : Nat]
    BY <1>1 DEF Facts
  <1>5. /\ c.checks \in [monitors : Nat, total : Nat, up : Nat]
        /\ c.docs \in SUBSET {"infrastructure", "procedures", "sites"}
        /\ c.tickets \in [open : Nat, late : Nat, slow : {"no", "yes"}]
        /\ c.invoices \in [overdue : Nat, unpaid : Nat]
    BY <1>2 DEF Facts
  <1>6. /\ c.contracts \in Nat /\ c.visit \in {"recently", "before60", "before90", "never"}
        /\ c.nps \in {None} \union 0..10
    BY <1>3 DEF Facts
  <1>7. DOMAIN c.open = {"high", "medium", "low"}
    BY <1>4
  <1>8. /\ c.m365.connected \in {"no", "yes"} /\ c.m365.secure \in {None} \union 0..100
        /\ c.m365.users \in Nat /\ c.m365.mfa \in Nat
        /\ c.open.high \in Nat /\ c.open.medium \in Nat /\ c.open.low \in Nat
    BY <1>4
  <1>9. /\ c.assets.active \in Nat /\ c.assets.expired \in Nat /\ c.assets.soon \in Nat
        /\ c.certs.watched \in Nat /\ c.certs.error \in Nat /\ c.certs.expired \in Nat
    BY <1>4
  <1>10. /\ c.checks.monitors \in Nat /\ c.checks.total \in Nat /\ c.checks.up \in Nat
         /\ c.tickets.open \in Nat /\ c.tickets.late \in Nat
         /\ c.tickets.slow \in {"no", "yes"}
         /\ c.invoices.overdue \in Nat /\ c.invoices.unpaid \in Nat
    BY <1>5
  <1> QED
    BY <1>5, <1>6, <1>7, <1>8, <1>9, <1>10

LEMMA DocsAreFew ==
  ASSUME NEW S, S \subseteq {"infrastructure", "procedures", "sites"}
  PROVE  IsFiniteSet(S) /\ Cardinality(S) \in 0..3
  <1>1. PICK A, B : A = {"infrastructure"} /\ B = A \union {"procedures"}
    OBVIOUS
  <1>2. IsFiniteSet(A) /\ Cardinality(A) = 1
    BY <1>1, FS_Singleton
  <1>3. "procedures" \notin A /\ "sites" \notin B
    BY <1>1
  <1>4. IsFiniteSet(B) /\ Cardinality(B) = 2
    BY <1>1, <1>2, <1>3, FS_AddElement
  <1>5. IsFiniteSet(B \union {"sites"}) /\ Cardinality(B \union {"sites"}) = 3
    BY <1>3, <1>4, FS_AddElement
  <1>6. S \subseteq B \union {"sites"}
    BY <1>1
  <1>7. IsFiniteSet(S) /\ Cardinality(S) <= 3
    BY <1>5, <1>6, FS_Subset
  <1> QED
    BY <1>7, FS_CardinalityType

LEMMA AllDocs == Cardinality({"infrastructure", "procedures", "sites"}) = 3
  <1>1. PICK A, B : A = {"infrastructure"} /\ B = A \union {"procedures"}
    OBVIOUS
  <1>2. IsFiniteSet(A) /\ Cardinality(A) = 1
    BY <1>1, FS_Singleton
  <1>3. "procedures" \notin A /\ "sites" \notin B
    BY <1>1
  <1>4. IsFiniteSet(B) /\ Cardinality(B) = 2
    BY <1>1, <1>2, <1>3, FS_AddElement
  <1>5. Cardinality(B \union {"sites"}) = 3
    BY <1>3, <1>4, FS_AddElement
  <1>6. B \union {"sites"} = {"infrastructure", "procedures", "sites"}
    BY <1>1
  <1> QED
    BY <1>5, <1>6

-----------------------------------------------------------------------------
\* A subscore is a percentage or does not apply.
IsShare(s) == s = None \/ s \in 0..(100 * Grain)
\* It has become better: it applies to the same, and is not less.
Rises(s, t) == IsShare(s) /\ IsShare(t) /\ (s = None <=> t = None) /\ s <= t

LEMMA PostureRises ==
  ASSUME NEW c, NEW d, IsSituation(c), IsSituation(d), Improved(c, d)
  PROVE  Rises(Posture(c), Posture(d))
  <1>1. /\ d.m365.connected = c.m365.connected
        /\ (d.m365.secure = None) = (c.m365.secure = None)
        /\ d.m365.users = c.m365.users /\ d.m365.mfa >= c.m365.mfa
        /\ d.m365.secure >= c.m365.secure
    BY DEF Improved
  <1>2. /\ c.m365.secure \in {None} \union 0..100 /\ d.m365.secure \in {None} \union 0..100
        /\ c.m365.users \in Nat /\ c.m365.mfa \in Nat /\ d.m365.mfa \in Nat
    BY SituationIs
  <1>3. CASE c.m365.connected = "no"
    BY <1>1, <1>3 DEF Posture, Rises, IsShare, None
  <1>4. CASE c.m365.connected # "no" /\ c.m365.secure # None
    <2>1. d.m365.secure # None /\ d.m365.connected # "no"
      BY <1>1, <1>4
    <2>2. Posture(c) = Bounded(Grain * c.m365.secure) /\ Posture(d) = Bounded(Grain * d.m365.secure)
      BY <1>4, <2>1 DEF Posture
    <2>3. PICK s, t : s = c.m365.secure /\ t = d.m365.secure
      OBVIOUS
    <2>4. s \in 0..100 /\ t \in 0..100 /\ s <= t
      BY <1>1, <1>2, <1>4, <2>1, <2>3
    <2>5. Grain * s \in Int /\ Grain * t \in Int /\ Grain * s <= Grain * t
      BY <2>4, GrainTimes
    <2>6. /\ Bounded(Grain * s) \in 0..(100 * Grain) /\ Bounded(Grain * t) \in 0..(100 * Grain)
          /\ Bounded(Grain * s) <= Bounded(Grain * t)
      BY <2>5, BoundedRises
    <2> QED
      BY <2>2, <2>3, <2>6, GrainAssumption DEF Rises, IsShare, None
  <1>5. CASE c.m365.connected # "no" /\ c.m365.secure = None /\ c.m365.users = 0
    BY <1>1, <1>5 DEF Posture, Rises, IsShare, None
  <1>6. CASE c.m365.connected # "no" /\ c.m365.secure = None /\ c.m365.users # 0
    <2>1. /\ Posture(c) = Pct(2 * c.m365.mfa, c.m365.users)
          /\ Posture(d) = Pct(2 * d.m365.mfa, c.m365.users)
      BY <1>1, <1>6 DEF Posture
    <2>2. /\ 2 * c.m365.mfa \in Int /\ 2 * d.m365.mfa \in Int
          /\ 2 * c.m365.mfa <= 2 * d.m365.mfa
      BY <1>1, <1>2
    <2>3. /\ Posture(c) \in 0..(100 * Grain) /\ Posture(d) \in 0..(100 * Grain)
          /\ Posture(c) <= Posture(d)
      BY <1>2, <2>1, <2>2, PctRises
    <2> QED
      BY <2>3, GrainAssumption DEF Rises, IsShare, None
  <1> QED
    BY <1>3, <1>4, <1>5, <1>6

LEMMA AlertsRise ==
  ASSUME NEW c, NEW d, IsSituation(c), IsSituation(d), Improved(c, d)
  PROVE  Rises(OpenAlerts(c), OpenAlerts(d))
  <1>1. /\ d.m365.connected = c.m365.connected
        /\ d.open.high <= c.open.high /\ d.open.medium <= c.open.medium /\ d.open.low <= c.open.low
    BY SituationIs DEF Improved
  <1>2. PICK p, q : /\ p = 100 - (15 * c.open.high + 5 * c.open.medium + c.open.low)
                     /\ q = 100 - (15 * d.open.high + 5 * d.open.medium + d.open.low)
    OBVIOUS
  <1>3. p \in Int /\ q \in Int /\ p <= q
    BY <1>1, <1>2, SituationIs
  <1>4. CASE c.m365.connected = "no"
    BY <1>1, <1>4 DEF OpenAlerts, Rises, IsShare, None
  <1>5. CASE c.m365.connected # "no"
    <2>1. OpenAlerts(c) = Bounded(Grain * p) /\ OpenAlerts(d) = Bounded(Grain * q)
      BY <1>1, <1>2, <1>5 DEF OpenAlerts
    <2>2. Grain * p \in Int /\ Grain * q \in Int /\ Grain * p <= Grain * q
      BY <1>3, GrainTimes
    <2>3. /\ OpenAlerts(c) \in 0..(100 * Grain) /\ OpenAlerts(d) \in 0..(100 * Grain)
          /\ OpenAlerts(c) <= OpenAlerts(d)
      BY <2>1, <2>2, BoundedRises
    <2> QED
      BY <2>3, GrainAssumption DEF Rises, IsShare, None
  <1> QED
    BY <1>4, <1>5

LEMMA HygieneRises ==
  ASSUME NEW c, NEW d, IsSituation(c), IsSituation(d), Improved(c, d)
  PROVE  Rises(Hygiene(c), Hygiene(d)) /\ Hygiene(c) # None
  <1>1. /\ d.assets.active = c.assets.active /\ d.assets.expired <= c.assets.expired
        /\ d.assets.expired + d.assets.soon <= c.assets.expired + c.assets.soon
    BY DEF Improved
  <1>2. /\ c.assets.active \in Nat /\ c.assets.expired \in Nat /\ c.assets.soon \in Nat
        /\ d.assets.expired \in Nat /\ d.assets.soon \in Nat
    BY SituationIs
  <1>3. PICK p, q : /\ p = 2 * (c.assets.active - c.assets.expired) - c.assets.soon
                     /\ q = 2 * (c.assets.active - d.assets.expired) - d.assets.soon
    OBVIOUS
  <1>4. p \in Int /\ q \in Int /\ p <= q
    BY <1>1, <1>2, <1>3
  <1>5. CASE c.assets.active = 0
    <2>1. Hygiene(c) = 60 * Grain /\ Hygiene(d) = 60 * Grain
      BY <1>1, <1>5 DEF Hygiene
    <2> QED
      BY <2>1, GrainAssumption DEF Rises, IsShare, None
  <1>6. CASE c.assets.active # 0
    <2>1. Hygiene(c) = Pct(p, c.assets.active) /\ Hygiene(d) = Pct(q, c.assets.active)
      BY <1>1, <1>3, <1>6 DEF Hygiene
    <2>2. /\ Hygiene(c) \in 0..(100 * Grain) /\ Hygiene(d) \in 0..(100 * Grain)
          /\ Hygiene(c) <= Hygiene(d)
      BY <1>2, <1>4, <2>1, PctRises
    <2> QED
      BY <2>2, GrainAssumption DEF Rises, IsShare, None
  <1> QED
    BY <1>5, <1>6

LEMMA CertificatesRise ==
  ASSUME NEW c, NEW d, IsSituation(c), IsSituation(d), Improved(c, d)
  PROVE  Rises(Certificates(c), Certificates(d))
  <1>1. /\ d.certs.watched = c.certs.watched
        /\ d.certs.error <= c.certs.error /\ d.certs.expired <= c.certs.expired
    BY DEF Improved
  <1>2. /\ c.certs.watched \in Nat /\ c.certs.error \in Nat /\ c.certs.expired \in Nat
        /\ d.certs.error \in Nat /\ d.certs.expired \in Nat
    BY SituationIs
  <1>3. PICK p, q : /\ p = 2 * (c.certs.watched - c.certs.error - c.certs.expired)
                     /\ q = 2 * (c.certs.watched - d.certs.error - d.certs.expired)
    OBVIOUS
  <1>4. p \in Int /\ q \in Int /\ p <= q
    BY <1>1, <1>2, <1>3
  <1>5. CASE c.certs.watched = 0
    BY <1>1, <1>5 DEF Certificates, Rises, IsShare, None
  <1>6. CASE c.certs.watched # 0
    <2>1. Certificates(c) = Pct(p, c.certs.watched) /\ Certificates(d) = Pct(q, c.certs.watched)
      BY <1>1, <1>3, <1>6 DEF Certificates
    <2>2. /\ Certificates(c) \in 0..(100 * Grain) /\ Certificates(d) \in 0..(100 * Grain)
          /\ Certificates(c) <= Certificates(d)
      BY <1>2, <1>4, <2>1, PctRises
    <2> QED
      BY <2>2, GrainAssumption DEF Rises, IsShare, None
  <1> QED
    BY <1>5, <1>6

LEMMA UptimeRises ==
  ASSUME NEW c, NEW d, IsSituation(c), IsSituation(d), Improved(c, d)
  PROVE  Rises(Uptime(c), Uptime(d))
  <1>1. /\ d.checks.monitors = c.checks.monitors /\ d.checks.total = c.checks.total
        /\ d.checks.up >= c.checks.up
    BY DEF Improved
  <1>2. c.checks.total \in Nat /\ c.checks.up \in Nat /\ d.checks.up \in Nat
    BY SituationIs
  <1>3. CASE c.checks.monitors = 0 \/ c.checks.total = 0
    BY <1>1, <1>3 DEF Uptime, Rises, IsShare, None
  <1>4. CASE ~(c.checks.monitors = 0 \/ c.checks.total = 0)
    <2>1. /\ Uptime(c) = Pct(2 * c.checks.up, c.checks.total)
          /\ Uptime(d) = Pct(2 * d.checks.up, c.checks.total)
      BY <1>1, <1>4 DEF Uptime
    <2>2. /\ 2 * c.checks.up \in Int /\ 2 * d.checks.up \in Int
          /\ 2 * c.checks.up <= 2 * d.checks.up
      BY <1>1, <1>2
    <2>3. /\ Uptime(c) \in 0..(100 * Grain) /\ Uptime(d) \in 0..(100 * Grain)
          /\ Uptime(c) <= Uptime(d)
      BY <1>2, <2>1, <2>2, PctRises
    <2> QED
      BY <2>3, GrainAssumption DEF Rises, IsShare, None
  <1> QED
    BY <1>3, <1>4

LEMMA DocumentationRises ==
  ASSUME NEW c, NEW d, IsSituation(c), IsSituation(d), Improved(c, d)
  PROVE  Rises(Documentation(c), Documentation(d)) /\ Documentation(c) # None
  <1>1. PICK i, j : i = Cardinality(c.docs) /\ j = Cardinality(d.docs)
    OBVIOUS
  <1>2. /\ c.docs \subseteq {"infrastructure", "procedures", "sites"}
        /\ d.docs \subseteq {"infrastructure", "procedures", "sites"} /\ c.docs \subseteq d.docs
    BY SituationIs DEF Improved
  <1>3. i \in 0..3 /\ j \in 0..3 /\ i <= j
    BY <1>1, <1>2, DocsAreFew, FS_Subset
  <1>4. PICK p, q : p = Grain * i /\ q = Grain * j
    OBVIOUS
  <1>5. p \in Int /\ q \in Int /\ 0 <= p /\ p <= q /\ q <= 3 * Grain
    BY <1>3, <1>4, GrainAssumption
  <1>6. Documentation(c) = (100 * p) \div 3 /\ Documentation(d) = (100 * q) \div 3
    <2>1. 100 * Grain * i = 100 * p /\ 100 * Grain * j = 100 * q
      BY <1>3, <1>4, GrainAssumption
    <2> QED
      BY <1>1, <2>1 DEF Documentation
  <1>7. /\ (100 * p) \div 3 \in 0..(100 * Grain) /\ (100 * q) \div 3 \in 0..(100 * Grain)
        /\ (100 * p) \div 3 <= (100 * q) \div 3
    BY <1>5, GrainAssumption
  <1> QED
    BY <1>6, <1>7, GrainAssumption DEF Rises, IsShare, None

-----------------------------------------------------------------------------
\* The mean: of the same weights, of points that are not fewer.
LEMMA WorthRises ==
  ASSUME NEW s, NEW t, Rises(s, t), NEW w \in {10, 15, 20, 25}
  PROVE  /\ Worth(s, w) \in Nat /\ Worth(t, w) \in Nat /\ Worth(s, w) <= Worth(t, w)
         /\ Weight(s, w) \in Nat /\ Weight(t, w) = Weight(s, w)
         /\ Worth(t, w) <= 100 * Weight(s, w)
         /\ s # None => Weight(s, w) = w * Grain
  <1>1. CASE s = None
    BY <1>1 DEF Rises, Worth, Weight
  <1>2. CASE s # None
    <2>1. /\ s \in 0..(100 * Grain) /\ t \in 0..(100 * Grain) /\ s <= t /\ t # None
      BY <1>2 DEF Rises, IsShare
    <2> QED
      BY <1>2, <2>1, GrainAssumption DEF Worth, Weight
  <1> QED
    BY <1>1, <1>2

Points6(c) == Worth(Posture(c), 25) + Worth(OpenAlerts(c), 20) + Worth(Hygiene(c), 20)
                + Worth(Certificates(c), 15) + Worth(Uptime(c), 10) + Worth(Documentation(c), 10)
Weight6(c) == Weight(Posture(c), 25) + Weight(OpenAlerts(c), 20) + Weight(Hygiene(c), 20)
                + Weight(Certificates(c), 15) + Weight(Uptime(c), 10)
                + Weight(Documentation(c), 10)
LEMMA CyberScoreIs ==
  ASSUME NEW c
  PROVE  CyberScore(c) = Rounded(Points6(c), Weight6(c))
  BY DEF CyberScore, Points6, Weight6

LEMMA CyberScoreRises ==
  ASSUME NEW c, NEW d, IsSituation(c), IsSituation(d), Improved(c, d)
  PROVE  /\ CyberScore(c) \in 0..100 /\ CyberScore(d) \in 0..100
         /\ CyberScore(c) <= CyberScore(d)
  <1>1. /\ Rises(Posture(c), Posture(d)) /\ Rises(OpenAlerts(c), OpenAlerts(d))
        /\ Rises(Hygiene(c), Hygiene(d)) /\ Rises(Certificates(c), Certificates(d))
        /\ Rises(Uptime(c), Uptime(d)) /\ Rises(Documentation(c), Documentation(d))
        /\ Hygiene(c) # None
    BY PostureRises, AlertsRise, HygieneRises, CertificatesRise, UptimeRises, DocumentationRises
  <1>2. /\ Worth(Posture(c), 25) \in Nat /\ Worth(Posture(d), 25) \in Nat
        /\ Worth(Posture(c), 25) <= Worth(Posture(d), 25)
        /\ Weight(Posture(c), 25) \in Nat /\ Weight(Posture(d), 25) = Weight(Posture(c), 25)
        /\ Worth(Posture(d), 25) <= 100 * Weight(Posture(c), 25)
    BY <1>1, WorthRises
  <1>3. /\ Worth(OpenAlerts(c), 20) \in Nat /\ Worth(OpenAlerts(d), 20) \in Nat
        /\ Worth(OpenAlerts(c), 20) <= Worth(OpenAlerts(d), 20)
        /\ Weight(OpenAlerts(c), 20) \in Nat
        /\ Weight(OpenAlerts(d), 20) = Weight(OpenAlerts(c), 20)
        /\ Worth(OpenAlerts(d), 20) <= 100 * Weight(OpenAlerts(c), 20)
    BY <1>1, WorthRises
  <1>4. /\ Worth(Hygiene(c), 20) \in Nat /\ Worth(Hygiene(d), 20) \in Nat
        /\ Worth(Hygiene(c), 20) <= Worth(Hygiene(d), 20)
        /\ Weight(Hygiene(c), 20) = 20 * Grain /\ Weight(Hygiene(d), 20) = 20 * Grain
        /\ Worth(Hygiene(d), 20) <= 100 * (20 * Grain)
    BY <1>1, WorthRises
  <1>5. /\ Worth(Certificates(c), 15) \in Nat /\ Worth(Certificates(d), 15) \in Nat
        /\ Worth(Certificates(c), 15) <= Worth(Certificates(d), 15)
        /\ Weight(Certificates(c), 15) \in Nat
        /\ Weight(Certificates(d), 15) = Weight(Certificates(c), 15)
        /\ Worth(Certificates(d), 15) <= 100 * Weight(Certificates(c), 15)
    BY <1>1, WorthRises
  <1>6. /\ Worth(Uptime(c), 10) \in Nat /\ Worth(Uptime(d), 10) \in Nat
        /\ Worth(Uptime(c), 10) <= Worth(Uptime(d), 10)
        /\ Weight(Uptime(c), 10) \in Nat /\ Weight(Uptime(d), 10) = Weight(Uptime(c), 10)
        /\ Worth(Uptime(d), 10) <= 100 * Weight(Uptime(c), 10)
    BY <1>1, WorthRises
  <1>7. /\ Worth(Documentation(c), 10) \in Nat /\ Worth(Documentation(d), 10) \in Nat
        /\ Worth(Documentation(c), 10) <= Worth(Documentation(d), 10)
        /\ Weight(Documentation(c), 10) \in Nat
        /\ Weight(Documentation(d), 10) = Weight(Documentation(c), 10)
        /\ Worth(Documentation(d), 10) <= 100 * Weight(Documentation(c), 10)
    BY <1>1, WorthRises
  <1>8. PICK m, n, w : m = Points6(c) /\ n = Points6(d) /\ w = Weight6(c)
    OBVIOUS
  <1>9. /\ m \in Nat /\ n \in Nat /\ w \in Nat /\ w > 0 /\ m <= n /\ n <= 100 * w
        /\ w = Weight6(d)
    BY <1>2, <1>3, <1>4, <1>5, <1>6, <1>7, <1>8, GrainAssumption, SMTT(30) DEF Points6, Weight6
  <1>10. m <= 100 * w
    BY <1>9
  <1>11. Rounded(m, w) \in 0..100 /\ Rounded(n, w) \in 0..100 /\ Rounded(m, w) <= Rounded(n, w)
    <2>1. Rounded(m, w) \in 0..100 /\ Rounded(n, w) \in 0..100
      BY <1>9, <1>10, RoundedPercent
    <2>2. Rounded(m, w) <= Rounded(n, w)
      BY <1>9, RoundedRises
    <2> QED
      BY <2>1, <2>2
  <1> QED
    BY <1>8, <1>9, <1>11, CyberScoreIs

LEMMA ImprovedSelf ==
  ASSUME NEW c, IsSituation(c)
  PROVE  Improved(c, c)
  <1>1. c.open.high \in Nat /\ c.open.medium \in Nat /\ c.open.low \in Nat
    BY SituationIs
  <1>2. \A severity \in DOMAIN c.open : c.open[severity] <= c.open[severity]
    BY <1>1, SituationIs
  <1>3. \A n \in {"open", "late"} : c.tickets[n] <= c.tickets[n]
    BY SituationIs
  <1>4. /\ c.m365.mfa >= c.m365.mfa /\ c.m365.secure >= c.m365.secure
        /\ c.assets.expired <= c.assets.expired
        /\ c.assets.expired + c.assets.soon <= c.assets.expired + c.assets.soon
        /\ c.certs.error <= c.certs.error /\ c.certs.expired <= c.certs.expired
    BY SituationIs DEF None
  <1>5. /\ c.checks.up >= c.checks.up
        /\ c.invoices.overdue <= c.invoices.overdue /\ c.invoices.unpaid <= c.invoices.unpaid
        /\ c.contracts >= c.contracts /\ c.nps >= c.nps
    BY SituationIs DEF None
  <1> QED
    BY <1>2, <1>3, <1>4, <1>5 DEF Improved

-----------------------------------------------------------------------------
\* A customer for whom nothing is recommended.
LEMMA NothingToRecommend ==
  ASSUME NEW c, IsSituation(c), Recommended(c) = {}
  PROVE  /\ Posture(c) = None \/ Posture(c) >= 80 * Grain
         /\ c.open.high = 0 /\ c.open.medium < 3 /\ c.assets.expired = 0 /\ c.assets.soon = 0
         /\ c.certs.expired + c.certs.error = 0
         /\ Uptime(c) = None \/ Uptime(c) >= 99 * Grain
         /\ c.docs = {"infrastructure", "procedures", "sites"}
  <1>1. PICK mfa, up : mfa = Posture(c) /\ up = Uptime(c)
    OBVIOUS
  <1> DEFINE advice ==
          {<<1, mfa # None /\ mfa < 50 * Grain>>,
           <<2, 50 * Grain <= mfa /\ mfa < 80 * Grain>>,
           <<1, c.open.high > 0>>, <<2, c.open.medium >= 3>>,
           <<1, c.assets.expired > 0>>, <<2, c.assets.soon > 0>>,
           <<1, c.certs.expired + c.certs.error > 0>>,
           <<1, up # None /\ up < 95 * Grain>>,
           <<3, 95 * Grain <= up /\ up < 99 * Grain>>,
           <<3, c.docs # {"infrastructure", "procedures", "sites"}>>}
  <1>3. \A r \in advice : ~r[2]
    BY <1>1 DEF Recommended
  <1>4. /\ ~(mfa # None /\ mfa < 50 * Grain) /\ ~(50 * Grain <= mfa /\ mfa < 80 * Grain)
        /\ ~(c.open.high > 0) /\ ~(c.open.medium >= 3)
        /\ ~(c.assets.expired > 0) /\ ~(c.assets.soon > 0)
    BY <1>3
  <1>5. /\ ~(c.certs.expired + c.certs.error > 0)
        /\ ~(up # None /\ up < 95 * Grain) /\ ~(95 * Grain <= up /\ up < 99 * Grain)
        /\ c.docs = {"infrastructure", "procedures", "sites"}
    BY <1>3
  <1>6. IsShare(mfa) /\ IsShare(up)
    BY <1>1, ImprovedSelf, PostureRises, UptimeRises DEF Rises
  <1> QED
    BY <1>1, <1>4, <1>5, <1>6, SituationIs, GrainAssumption DEF IsShare

\* The score is at least a half when nothing is recommended and the minor alerts are few.
LEMMA WorstIsAdvised ==
  ASSUME NEW c, IsSituation(c), CyberScore(c) < 50, c.open.low <= 75
  PROVE  Recommended(c) # {}
  <1> SUFFICES ASSUME Recommended(c) = {} PROVE FALSE
    OBVIOUS
  <1>1. /\ IsShare(Posture(c)) /\ IsShare(OpenAlerts(c)) /\ IsShare(Hygiene(c))
        /\ IsShare(Certificates(c)) /\ IsShare(Uptime(c)) /\ IsShare(Documentation(c))
    BY ImprovedSelf, PostureRises, AlertsRise, HygieneRises, CertificatesRise, UptimeRises,
       DocumentationRises DEF Rises
  <1>2. Posture(c) = None \/ Posture(c) >= 80 * Grain
    BY NothingToRecommend
  <1>3. OpenAlerts(c) = None \/ OpenAlerts(c) >= 15 * Grain
    <2>1. PICK p : p = 100 - (15 * c.open.high + 5 * c.open.medium + c.open.low)
      OBVIOUS
    <2>2. p \in 15..100
      <3>1. c.open.high = 0 /\ c.open.medium < 3
        BY NothingToRecommend
      <3>2. c.open.high \in Nat /\ c.open.medium \in Nat /\ c.open.low \in Nat
        BY SituationIs
      <3>3. p = 100 - (5 * c.open.medium + c.open.low)
        BY <2>1, <3>1, <3>2
      <3> QED
        BY <3>1, <3>2, <3>3, SMTT(30)
    <2>3. 15 * Grain <= Grain * p /\ Grain * p <= 100 * Grain
      BY <2>2, GrainTimes, GrainAssumption
    <2>4. Bounded(Grain * p) = Grain * p
      BY <2>2, <2>3, GrainAssumption DEF Bounded
    <2> QED
      BY <2>1, <2>3, <2>4 DEF OpenAlerts
  <1>4. Hygiene(c) >= 60 * Grain /\ Hygiene(c) # None
    <2>1. CASE c.assets.active = 0
      BY <2>1, GrainAssumption DEF Hygiene, None
    <2>2. CASE c.assets.active # 0
      <3>1. 2 * (c.assets.active - c.assets.expired) - c.assets.soon = 2 * c.assets.active
        BY SituationIs, NothingToRecommend
      <3>2. Hygiene(c) = 100 * Grain
        BY <2>2, <3>1, SituationIs, PctWhole DEF Hygiene
      <3> QED
        BY <3>2, GrainAssumption DEF None
    <2> QED
      BY <2>1, <2>2
  <1>5. Certificates(c) = None \/ Certificates(c) >= 100 * Grain
    <2>1. CASE c.certs.watched = 0
      BY <2>1 DEF Certificates
    <2>2. CASE c.certs.watched # 0
      <3>1. 2 * (c.certs.watched - c.certs.error - c.certs.expired) = 2 * c.certs.watched
        BY SituationIs, NothingToRecommend
      <3>2. Certificates(c) = 100 * Grain
        BY <2>2, <3>1, SituationIs, PctWhole DEF Certificates
      <3> QED
        BY <3>2, GrainAssumption
    <2> QED
      BY <2>1, <2>2
  <1>6. Uptime(c) = None \/ Uptime(c) >= 99 * Grain
    BY NothingToRecommend
  <1>7. Documentation(c) = 100 * Grain
    <2>1. Cardinality(c.docs) = 3
      BY NothingToRecommend, AllDocs
    <2> QED
      BY <2>1, GrainAssumption DEF Documentation
  <1>8. /\ Worth(Posture(c), 25) \in Nat /\ Weight(Posture(c), 25) \in Nat
        /\ Worth(Posture(c), 25) >= 50 * Weight(Posture(c), 25)
    BY <1>1, <1>2, GrainAssumption DEF IsShare, Worth, Weight
  <1>9. /\ Worth(OpenAlerts(c), 20) \in Nat /\ Weight(OpenAlerts(c), 20) \in Nat
        /\ Worth(OpenAlerts(c), 20) >= 50 * Weight(OpenAlerts(c), 20) - 700 * Grain
    BY <1>1, <1>3, GrainAssumption DEF IsShare, Worth, Weight
  <1>10. /\ Worth(Hygiene(c), 20) >= 1200 * Grain /\ Worth(Hygiene(c), 20) \in Nat
         /\ Weight(Hygiene(c), 20) = 20 * Grain
    BY <1>1, <1>4, GrainAssumption DEF IsShare, Worth, Weight
  <1>11. /\ Worth(Certificates(c), 15) \in Nat /\ Weight(Certificates(c), 15) \in Nat
         /\ Worth(Certificates(c), 15) >= 50 * Weight(Certificates(c), 15)
    BY <1>1, <1>5, GrainAssumption DEF IsShare, Worth, Weight
  <1>12. /\ Worth(Uptime(c), 10) \in Nat /\ Weight(Uptime(c), 10) \in Nat
         /\ Worth(Uptime(c), 10) >= 50 * Weight(Uptime(c), 10)
    BY <1>1, <1>6, GrainAssumption DEF IsShare, Worth, Weight
  <1>13. Worth(Documentation(c), 10) = 1000 * Grain /\ Weight(Documentation(c), 10) = 10 * Grain
    BY <1>7, GrainAssumption DEF Worth, Weight, None
  <1>14. PICK n, w : n = Points6(c) /\ w = Weight6(c)
    OBVIOUS
  <1>15. n \in Nat /\ w \in Nat /\ w > 0 /\ n >= 50 * w
    <2>1. PICK p, q, r, s, u, v :
            /\ p = Worth(Posture(c), 25) /\ q = Worth(OpenAlerts(c), 20)
            /\ r = Worth(Hygiene(c), 20) /\ s = Worth(Certificates(c), 15)
            /\ u = Worth(Uptime(c), 10) /\ v = Worth(Documentation(c), 10)
      OBVIOUS
    <2>2. PICK pw, qw, rw, sw, uw, vw :
            /\ pw = Weight(Posture(c), 25) /\ qw = Weight(OpenAlerts(c), 20)
            /\ rw = Weight(Hygiene(c), 20) /\ sw = Weight(Certificates(c), 15)
            /\ uw = Weight(Uptime(c), 10) /\ vw = Weight(Documentation(c), 10)
      OBVIOUS
    <2>3. n = p + q + r + s + u + v /\ w = pw + qw + rw + sw + uw + vw
      BY <1>14, <2>1, <2>2 DEF Points6, Weight6
    <2>4. p \in Nat /\ pw \in Nat /\ p >= 50 * pw
      BY <1>8, <2>1, <2>2
    <2>5. q \in Nat /\ qw \in Nat /\ q >= 50 * qw - 700 * Grain
      BY <1>9, <2>1, <2>2
    <2>6. r \in Nat /\ r >= 1200 * Grain /\ rw = 20 * Grain
      BY <1>10, <2>1, <2>2
    <2>7. s \in Nat /\ sw \in Nat /\ s >= 50 * sw
      BY <1>11, <2>1, <2>2
    <2>8. u \in Nat /\ uw \in Nat /\ u >= 50 * uw
      BY <1>12, <2>1, <2>2
    <2>9. v = 1000 * Grain /\ vw = 10 * Grain
      BY <1>13, <2>1, <2>2
    <2> QED
      BY <2>3, <2>4, <2>5, <2>6, <2>7, <2>8, <2>9, GrainAssumption
  <1>16. PICK low, k : k = 50 /\ low = w * k
    OBVIOUS
  <1>17. k \in Nat /\ n \in Int /\ low \in Int /\ low <= n /\ Rounded(low, w) = k
    <2>1. k \in Nat /\ n \in Int /\ low \in Int /\ low <= n
      BY <1>15, <1>16, SMTT(30)
    <2>2. Rounded(low, w) = k
      BY <1>15, <1>16, <2>1, RoundedWhole, SMTT(30)
    <2> QED
      BY <2>1, <2>2
  <1>18. Rounded(low, w) <= Rounded(n, w) /\ Rounded(n, w) \in Int
    BY <1>15, <1>17, RoundedRises
  <1> QED
    BY <1>14, <1>16, <1>17, <1>18, CyberScoreIs

-----------------------------------------------------------------------------
\* The dimensions of the health score.
LEMMA CappedRises ==
  ASSUME NEW n \in Int, NEW m \in Int, n <= m
  PROVE  Capped(n) \in 0..100 /\ Capped(m) \in 0..100 /\ Capped(n) <= Capped(m)
  BY DEF Capped

LEMMA SupportRises ==
  ASSUME NEW c, NEW d, IsSituation(c), IsSituation(d), Improved(c, d)
  PROVE  Support(c) \in 0..100 /\ Support(d) \in 0..100 /\ Support(c) <= Support(d)
  <1>1. /\ d.tickets.open <= c.tickets.open /\ d.tickets.late <= c.tickets.late
        /\ d.tickets.slow = c.tickets.slow
    BY DEF Improved
  <1>2. /\ c.tickets.open \in Nat /\ d.tickets.open \in Nat
        /\ c.tickets.late \in Nat /\ d.tickets.late \in Nat
    BY SituationIs
  <1>3. PICK i, j, s :
          /\ i = IF c.tickets.open > 5 THEN 30 ELSE Minus(c.tickets.open > 2, 10)
          /\ j = IF d.tickets.open > 5 THEN 30 ELSE Minus(d.tickets.open > 2, 10)
          /\ s = Minus(c.tickets.slow = "yes", 15)
    OBVIOUS
  <1>4. i \in 0..30 /\ j \in 0..30 /\ j <= i /\ s \in 0..15
    BY <1>1, <1>2, <1>3 DEF Minus
  <1>5. PICK n, m : n = 100 - i - 10 * c.tickets.late - s /\ m = 100 - j - 10 * d.tickets.late - s
    OBVIOUS
  <1>6. n \in Int /\ m \in Int /\ n <= m
    BY <1>1, <1>2, <1>4, <1>5
  <1>7. Support(c) = Capped(n) /\ Support(d) = Capped(m)
    BY <1>1, <1>3, <1>5 DEF Support
  <1> QED
    BY <1>6, <1>7, CappedRises

LEMMA FinancialRises ==
  ASSUME NEW c, NEW d, IsSituation(c), IsSituation(d), Improved(c, d)
  PROVE  Financial(c) \in 0..100 /\ Financial(d) \in 0..100 /\ Financial(c) <= Financial(d)
  <1>1. d.invoices.overdue <= c.invoices.overdue /\ d.invoices.unpaid <= c.invoices.unpaid
    BY DEF Improved
  <1>2. /\ c.invoices.overdue \in Nat /\ d.invoices.overdue \in Nat
        /\ c.invoices.unpaid \in Nat /\ d.invoices.unpaid \in Nat
    BY SituationIs
  <1>3. PICK i, j :
          /\ i = IF c.invoices.overdue > 0
                 THEN 30 + (IF 10 * c.invoices.overdue < 40 THEN 10 * c.invoices.overdue ELSE 40)
                 ELSE Minus(c.invoices.unpaid > 3, 15)
          /\ j = IF d.invoices.overdue > 0
                 THEN 30 + (IF 10 * d.invoices.overdue < 40 THEN 10 * d.invoices.overdue ELSE 40)
                 ELSE Minus(d.invoices.unpaid > 3, 15)
    OBVIOUS
  <1>4. i \in 0..70 /\ j \in 0..70 /\ j <= i
    BY <1>1, <1>2, <1>3 DEF Minus
  <1>5. Financial(c) = Capped(100 - i) /\ Financial(d) = Capped(100 - j)
    BY <1>3 DEF Financial
  <1>6. 100 - i \in Int /\ 100 - j \in Int /\ 100 - i <= 100 - j
    BY <1>4
  <1> QED
    BY <1>5, <1>6, CappedRises

LEMMA EngagementRises ==
  ASSUME NEW c, NEW d, IsSituation(c), IsSituation(d), Improved(c, d)
  PROVE  Engagement(c) \in 0..100 /\ Engagement(d) \in 0..100 /\ Engagement(c) <= Engagement(d)
  <1>1. d.contracts >= c.contracts /\ d.visit \in {c.visit, "recently"}
    BY DEF Improved
  <1>2. /\ c.contracts \in Nat /\ d.contracts \in Nat
        /\ c.visit \in {"recently", "before60", "before90", "never"}
    BY SituationIs
  <1>3. PICK i, j, v, w :
          /\ i = Minus(c.contracts = 0, 50) /\ j = Minus(d.contracts = 0, 50)
          /\ v = Visited[c.visit] /\ w = Visited[d.visit]
    OBVIOUS
  <1>4. i \in 0..50 /\ j \in 0..50 /\ j <= i
    BY <1>1, <1>2, <1>3 DEF Minus
  <1>5. v \in 0..30 /\ w \in 0..30 /\ w <= v
    BY <1>1, <1>2, <1>3 DEF Visited
  <1>6. Engagement(c) = Capped(100 - i - v) /\ Engagement(d) = Capped(100 - j - w)
    BY <1>3 DEF Engagement
  <1>7. 100 - i - v \in Int /\ 100 - j - w \in Int /\ 100 - i - v <= 100 - j - w
    BY <1>4, <1>5
  <1> QED
    BY <1>6, <1>7, CappedRises

LEMMA NpsRises ==
  ASSUME NEW c, NEW d, IsSituation(c), IsSituation(d), Improved(c, d)
  PROVE  Nps(c) \in 0..100 /\ Nps(d) \in 0..100 /\ Nps(c) <= Nps(d)
  <1>1. (d.nps = None) = (c.nps = None) /\ d.nps >= c.nps
    BY DEF Improved
  <1>2. c.nps \in {None} \union 0..10 /\ d.nps \in {None} \union 0..10
    BY SituationIs
  <1>3. CASE c.nps = None
    BY <1>1, <1>3 DEF Nps
  <1>4. CASE c.nps # None
    <2>1. d.nps # None /\ c.nps \in 0..10 /\ d.nps \in 0..10
      BY <1>1, <1>2, <1>4
    <2> QED
      BY <1>1, <1>4, <2>1 DEF Nps
  <1> QED
    BY <1>3, <1>4

\* Their sum, in tenths.
Tenths(s, f, e, n, cyber) == Rounded(25 * s, 10) + 2 * f + 2 * e + Rounded(15 * n, 10) + 2 * cyber
LEMMA OverallIs ==
  ASSUME NEW c
  PROVE  Overall(c) = Rounded(Tenths(Support(c), Financial(c), Engagement(c), Nps(c),
                                     CyberScore(c)), 10)
  BY DEF Overall, Tenths

Up(i, j) == i \in 0..100 /\ j \in 0..100 /\ i <= j
LEMMA TenthsRise ==
  ASSUME NEW s, NEW f, NEW e, NEW n, NEW k, NEW s2, NEW f2, NEW e2, NEW n2, NEW k2,
         Up(s, s2), Up(f, f2), Up(e, e2), Up(n, n2), Up(k, k2)
  PROVE  /\ Rounded(Tenths(s, f, e, n, k), 10) \in 0..100
         /\ Rounded(Tenths(s2, f2, e2, n2, k2), 10) \in 0..100
         /\ Rounded(Tenths(s, f, e, n, k), 10) <= Rounded(Tenths(s2, f2, e2, n2, k2), 10)
  <1>1. PICK i, i2, j, j2 : /\ i = Rounded(25 * s, 10) /\ i2 = Rounded(25 * s2, 10)
                             /\ j = Rounded(15 * n, 10) /\ j2 = Rounded(15 * n2, 10)
    OBVIOUS
  <1>2. i \in 0..250 /\ i2 \in 0..250 /\ i <= i2
    BY <1>1 DEF Rounded, Up
  <1>3. j \in 0..150 /\ j2 \in 0..150 /\ j <= j2
    BY <1>1 DEF Rounded, Up
  <1>4. PICK t, t2 : /\ t = i + 2 * f + 2 * e + j + 2 * k
                      /\ t2 = i2 + 2 * f2 + 2 * e2 + j2 + 2 * k2
    OBVIOUS
  <1>5. t \in 0..1000 /\ t2 \in 0..1000 /\ t <= t2
    BY <1>2, <1>3, <1>4 DEF Up
  <1>6. Rounded(t, 10) \in 0..100 /\ Rounded(t2, 10) \in 0..100 /\ Rounded(t, 10) <= Rounded(t2, 10)
    BY <1>5 DEF Rounded
  <1> QED
    BY <1>1, <1>4, <1>6 DEF Tenths

LEMMA OverallRises ==
  ASSUME NEW c, NEW d, IsSituation(c), IsSituation(d), Improved(c, d)
  PROVE  Overall(c) \in 0..100 /\ Overall(d) \in 0..100 /\ Overall(c) <= Overall(d)
  <1>1. Support(c) \in 0..100 /\ Support(d) \in 0..100 /\ Support(c) <= Support(d)
    BY SupportRises
  <1>2. Financial(c) \in 0..100 /\ Financial(d) \in 0..100 /\ Financial(c) <= Financial(d)
    BY FinancialRises
  <1>3. Engagement(c) \in 0..100 /\ Engagement(d) \in 0..100 /\ Engagement(c) <= Engagement(d)
    BY EngagementRises
  <1>4. Nps(c) \in 0..100 /\ Nps(d) \in 0..100 /\ Nps(c) <= Nps(d)
    BY NpsRises
  <1>5. /\ CyberScore(c) \in 0..100 /\ CyberScore(d) \in 0..100
        /\ CyberScore(c) <= CyberScore(d)
    BY CyberScoreRises
  <1> QED
    <2>1. PICK s, f, e, n, k : /\ s = Support(c) /\ f = Financial(c) /\ e = Engagement(c)
                                /\ n = Nps(c) /\ k = CyberScore(c)
      OBVIOUS
    <2>2. PICK s2, f2, e2, n2, k2 : /\ s2 = Support(d) /\ f2 = Financial(d)
                                     /\ e2 = Engagement(d) /\ n2 = Nps(d) /\ k2 = CyberScore(d)
      OBVIOUS
    <2>3. Up(s, s2) /\ Up(f, f2) /\ Up(e, e2) /\ Up(n, n2) /\ Up(k, k2)
      BY <2>1, <2>2, <1>1, <1>2, <1>3, <1>4, <1>5 DEF Up
    <2>4. /\ Rounded(Tenths(s, f, e, n, k), 10) \in 0..100
          /\ Rounded(Tenths(s2, f2, e2, n2, k2), 10) \in 0..100
          /\ Rounded(Tenths(s, f, e, n, k), 10) <= Rounded(Tenths(s2, f2, e2, n2, k2), 10)
      BY <2>3, TenthsRise
    <2> QED
      BY <2>1, <2>2, <2>4, OverallIs

\* Without an alert no dimension is low enough.
LEMMA RiskIsExplained ==
  ASSUME NEW c, IsSituation(c), Risk(c) # "LOW"
  PROVE  Explained(c)
  <1> SUFFICES ASSUME ~Explained(c) PROVE FALSE
    OBVIOUS
  <1>1. /\ ~(c.tickets.open > 5) /\ ~(c.tickets.late > 0) /\ c.tickets.slow # "yes"
        /\ ~(c.invoices.overdue > 0) /\ c.contracts # 0
        /\ c.visit \notin {"never", "before90"} /\ c.nps \notin 0..6 /\ ~(CyberScore(c) < 50)
    BY DEF Explained
  <1>2. Support(c) \in 90..100
    BY <1>1, SituationIs DEF Support, Capped, Minus
  <1>3. Financial(c) \in 85..100
    BY <1>1, SituationIs DEF Financial, Capped, Minus
  <1>4. Engagement(c) \in 90..100
    BY <1>1, SituationIs DEF Engagement, Capped, Minus, Visited
  <1>5. Nps(c) \in 70..100
    <2>1. c.nps = None \/ c.nps \in 7..10
      BY <1>1, SituationIs
    <2> QED
      BY <2>1 DEF Nps, None
  <1>6. CyberScore(c) \in 50..100
    BY <1>1, ImprovedSelf, CyberScoreRises
  <1>7. PICK s, f, e, n, k : /\ s = Support(c) /\ f = Financial(c) /\ e = Engagement(c)
                              /\ n = Nps(c) /\ k = CyberScore(c)
    OBVIOUS
  <1>8. PICK i, j : i = Rounded(25 * s, 10) /\ j = Rounded(15 * n, 10)
    OBVIOUS
  <1>9. i \in 225..250 /\ j \in 105..150
    BY <1>2, <1>5, <1>7, <1>8 DEF Rounded
  <1>10. PICK t : t = i + 2 * f + 2 * e + j + 2 * k
    OBVIOUS
  <1>11. t \in 780..1000
    <2>1. f \in 85..100 /\ e \in 90..100 /\ k \in 50..100
      BY <1>3, <1>4, <1>6, <1>7
    <2> QED
      BY <2>1, <1>9, <1>10
  <1>12. Rounded(t, 10) >= 78 /\ Rounded(t, 10) \in Int
    BY <1>11 DEF Rounded
  <1>13. Overall(c) = Rounded(t, 10)
    BY <1>7, <1>8, <1>10, OverallIs DEF Tenths
  <1> QED
    BY <1>12, <1>13 DEF Risk

-----------------------------------------------------------------------------
ScoreInv ==
    /\ IsSituation(client)
    /\ before.better = "yes" => /\ CyberScore(client) >= before.cyber
                                /\ Overall(client) >= before.overall

LEMMA ScoreInitInv ==
  ASSUME ScoresInit
  PROVE  ScoreInv
  BY FactsAssumption DEF ScoresInit, ScoreInv, IsSituation

LEMMA NewTurnInv ==
  ASSUME IsSituation(client), NEW p \in DOMAIN Ranges, NEW v \in Ranges[p], NewTurn(p, v)
  PROVE  ScoreInv'
  <1>1. IsSituation(client')
    <2>1. client' = [client EXCEPT ![p] = v]
      BY DEF NewTurn
    <2>2. p \in Points /\ v \in Facts[p]
      BY FactsAssumption
    <2> QED
      BY <2>1, <2>2 DEF IsSituation
  <1>2. /\ before'.cyber = CyberScore(client) /\ before'.overall = Overall(client)
        /\ before'.better = IF Improved(client, client') THEN "yes" ELSE "no"
    BY DEF NewTurn
  <1>3. ASSUME Improved(client, client')
        PROVE  /\ CyberScore(client') >= CyberScore(client)
               /\ Overall(client') >= Overall(client)
    <2>1. /\ CyberScore(client) \in 0..100 /\ CyberScore(client') \in 0..100
          /\ CyberScore(client) <= CyberScore(client')
      BY <1>1, <1>3, CyberScoreRises
    <2>2. /\ Overall(client) \in 0..100 /\ Overall(client') \in 0..100
          /\ Overall(client) <= Overall(client')
      BY <1>1, <1>3, OverallRises
    <2> QED
      BY <2>1, <2>2
  <1>4. before'.better = "yes" => Improved(client, client')
    BY <1>2
  <1>5. before'.better = "yes" => /\ CyberScore(client') >= before'.cyber
                                  /\ Overall(client') >= before'.overall
    BY <1>2, <1>3, <1>4
  <1> QED
    BY <1>1, <1>5 DEF ScoreInv

LEMMA ScoreStepInv ==
  ASSUME ScoreInv, [ScoresNext]_scoreVars
  PROVE  ScoreInv'
  <1>1. CASE ScoresNext
    BY <1>1, NewTurnInv DEF ScoresNext, ScoreInv
  <1>2. CASE UNCHANGED scoreVars
    BY <1>2 DEF scoreVars, ScoreInv
  <1> QED
    BY <1>1, <1>2

LEMMA ScoreHolds ==
  ASSUME ScoreInv
  PROVE  ScoresAreFair
  <1>1. IsSituation(client) /\ Improved(client, client)
    BY ImprovedSelf DEF ScoreInv
  <1>2. CyberScore(client) \in 0..100 /\ Overall(client) \in 0..100
    BY <1>1, CyberScoreRises, OverallRises
  <1>3. CyberScore(client) < 50 => Recommended(client) # {} \/ client.open.low > 75
    BY <1>1, SituationIs, WorstIsAdvised
  <1>4. Risk(client) # "LOW" => Explained(client)
    BY <1>1, RiskIsExplained
  <1> QED
    BY <1>2, <1>3, <1>4 DEF ScoreInv, ScoresAreFair
=============================================================================
