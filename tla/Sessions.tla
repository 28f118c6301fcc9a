------------------------------- MODULE Sessions -------------------------------
(***************************************************************************)
(* The session of one user in one browser: AuthService's refresh tokens,   *)
(* and the tabs that live on them (lib/api.ts, AuthContext).               *)
(*                                                                         *)
(* The tabs share one cookie with the newest refresh token they were       *)
(* answered; each keeps an access token of its own in memory.  A request   *)
(* whose access token is refused waits while its tab presents the cookie   *)
(* for a new pair, and is sent once more.  The user may belong to several  *)
(* organizations, and works in one of them at a time.  Memberships and the *)
(* user's state do not change here; a rotation's statements, and those of  *)
(* a change of organization, run apart, and a pair is answered as it is    *)
(* issued or not at all.                                                   *)
(***************************************************************************)
EXTENDS Desk

CONSTANTS
    Tabs,           \* the browser's tabs
    Orgs,           \* the user's organizations
    FirstOrg,       \* the one joined first
    Requests,       \* bound: the API requests of a behaviour
    MaxTokens       \* bound: refresh tokens of a behaviour

ASSUME SessionsAssumption ==
    /\ FirstOrg \in Orgs
    /\ IsFiniteSet(Tabs) /\ IsFiniteSet(Requests)
    /\ MaxTokens \in Nat /\ Cardinality(Requests) < MaxTokens

VARIABLES
    token,          \* RefreshToken rows as they were created
    version,        \* User.tokenVersion
    cookie,         \* the refresh_token cookie: a row of token, 0 when there is none
    chosen,         \* the organization the user last chose in this browser
    replaced,       \* the cookies that a later sign-in replaced
    undisturbed,    \* nobody signed out or changed organization, no answer was lost, no grace ran out
    lossless,       \* no answer was lost
    tab,            \* what each tab holds
    exchange,       \* the auth calls in flight, one for the page and one for its refresh
    request         \* the API requests

sessionsVars ==
    <<token, version, cookie, chosen, replaced, undisturbed, lossless, tab, exchange, request>>

Lanes == {"page", "refresh"}

Token == [active : BOOLEAN, recent : BOOLEAN, org : Orgs]

NoAccess == [version |-> 0, live |-> FALSE]

Tab == [page : {"closed", "loading", "app", "login"}, access : [version : 0..MaxTokens, live : BOOLEAN]]

\* row: the token presented or rotated; org and version: of the pair to issue.
Exchange ==
    [pc : {"none", "read", "revoke", "issue", "bump", "revokeAll", "logout"},
     row : 0..MaxTokens, org : Orgs, version : 0..MaxTokens]

NoExchange == [pc |-> "none", row |-> 0, org |-> FirstOrg, version |-> 0]

SessionsTypeOK ==
    /\ token \in Seq(Token) /\ Len(token) <= MaxTokens
    /\ version \in 1..MaxTokens
    /\ cookie \in 0..Len(token)
    /\ chosen \in Orgs
    /\ replaced \subseteq DOMAIN token
    /\ undisturbed \in BOOLEAN /\ lossless \in BOOLEAN
    /\ tab \in [Tabs -> Tab]
    /\ exchange \in [Tabs \X Lanes -> Exchange]
    /\ request \in [Requests -> [pc : {"idle", "parked", "again", "done", "refused"}, tab : Tabs \cup {None}]]

NewToken(org) == [active |-> TRUE, recent |-> TRUE, org |-> org]

\* The user signed in a while ago; some tabs are open, with a token or about to load.
SessionsInit ==
    /\ chosen \in Orgs
    /\ token = <<NewToken(chosen)>>
    /\ version = 1
    /\ cookie = 1
    /\ replaced = {}
    /\ undisturbed = TRUE
    /\ lossless = TRUE
    /\ tab \in [Tabs -> {[page |-> "closed", access |-> NoAccess],
                         [page |-> "app", access |-> [version |-> 1, live |-> TRUE]]}]
    /\ exchange = [x \in Tabs \X Lanes |-> NoExchange]
    /\ request = [q \in Requests |-> [pc |-> "idle", tab |-> None]]

InFlight == {x \in DOMAIN exchange : exchange[x].pc # "none"}

Open == {q \in Requests : request[q].pc \notin Answered}

\* A call to the server may start.
MayCall(x) == exchange[x].pc = "none" /\ Cardinality(InFlight) < serving

\* Bound: there are tokens left for it, and for each request that may need one.
Room == Len(token) + Cardinality(InFlight) + Cardinality(Open) < MaxTokens

-----------------------------------------------------------------------------
\* JwtStrategy.validate: the token has not expired and is of the user's version.
Accepted(t) == tab[t].access.live /\ tab[t].access.version = version

\* The access token of a tab expires.
Expire(t) ==
    /\ tab[t].access.live
    /\ tab' = [tab EXCEPT ![t].access.live = FALSE]
    /\ UNCHANGED <<token, version, cookie, chosen, replaced, undisturbed, lossless, exchange, request>>

\* A minute passes: no token there is now is of the grace window.
GraceRunsOut ==
    /\ \E i \in DOMAIN token : token[i].recent
    /\ token' = [i \in DOMAIN token |-> [token[i] EXCEPT !.recent = FALSE]]
    /\ undisturbed' = FALSE
    /\ UNCHANGED <<version, cookie, chosen, replaced, lossless, tab, exchange, request>>

\* A request of a tab is answered, or refused for its token and waits for a new one.
Send(q, t) ==
    /\ request[q].pc = "idle" /\ tab[t].page = "app" /\ tab[t].access.version # 0
    /\ request' = [request EXCEPT ![q] = [pc |-> IF Accepted(t) THEN "done" ELSE "parked", tab |-> t]]
    /\ UNCHANGED <<token, version, cookie, chosen, replaced, undisturbed, lossless, tab, exchange>>

\* The request is sent once more; a second 401 is an answer.
SendAgain(q) ==
    /\ request[q].pc = "again"
    /\ request' = [request EXCEPT ![q].pc = IF Accepted(request[q].tab) THEN "done" ELSE "refused"]
    /\ UNCHANGED <<token, version, cookie, chosen, replaced, undisturbed, lossless, tab, exchange>>

\* The requests waiting in t for its refresh.
Waiting(t) == {q \in Requests : request[q].pc = "parked" /\ request[q].tab = t}

Presenting(x) == exchange' = [exchange EXCEPT ![x] = [NoExchange EXCEPT !.pc = "read", !.row = cookie]]

\* refreshSession: one refresh for all the requests that wait, with the cookie there is.
SendRefresh(t) ==
    /\ Waiting(t) # {}
    /\ MayCall(<<t, "refresh">>)
    /\ Presenting(<<t, "refresh">>)
    /\ UNCHANGED <<token, version, cookie, chosen, replaced, undisturbed, lossless, tab, request>>

\* restoreSession: a page that loads has no access token and asks for one.
Load(t) ==
    /\ tab[t].page = "closed"
    /\ MayCall(<<t, "page">>) /\ Room
    /\ Presenting(<<t, "page">>)
    /\ tab' = [tab EXCEPT ![t].page = "loading"]
    /\ UNCHANGED <<token, version, cookie, chosen, replaced, undisturbed, lossless, request>>

\* login, selectOrganization.
Login(t, o) ==
    /\ tab[t].page = "login"
    /\ MayCall(<<t, "page">>) /\ Room
    /\ exchange' = [exchange EXCEPT ![<<t, "page">>] =
          [pc |-> "issue", row |-> 0, org |-> o, version |-> version]]
    /\ UNCHANGED <<token, version, cookie, chosen, replaced, undisturbed, lossless, tab, request>>

\* switchOrganization; a change of password does the same for the organization at hand.
Switch(t, o) ==
    /\ tab[t].page = "app" /\ Accepted(t)
    /\ MayCall(<<t, "page">>) /\ Room
    /\ exchange' = [exchange EXCEPT ![<<t, "page">>] = [NoExchange EXCEPT !.pc = "bump", !.org = o]]
    /\ undisturbed' = FALSE
    /\ UNCHANGED <<token, version, cookie, chosen, replaced, lossless, tab, request>>

\* logout: the tab forgets its session at once.
Logout(t) ==
    /\ tab[t].page = "app"
    /\ MayCall(<<t, "page">>)
    /\ exchange' = [exchange EXCEPT ![<<t, "page">>] = [NoExchange EXCEPT !.pc = "logout", !.row = cookie]]
    /\ tab' = [tab EXCEPT ![t] = [page |-> "login", access |-> NoAccess]]
    /\ undisturbed' = FALSE
    /\ UNCHANGED <<token, version, cookie, chosen, replaced, lossless, request>>

-----------------------------------------------------------------------------
\* Mutant: the requests that wait for a refresh that fails are left waiting.
FailAlone(x) ==
    /\ exchange' = [exchange EXCEPT ![x] = NoExchange]
    /\ tab' = [tab EXCEPT ![x[1]] = [page |-> "login", access |-> NoAccess]]
    /\ UNCHANGED request

\* A refresh that fails takes the page to the login, and its requests with it.
Fail(x) ==
    /\ exchange' = [exchange EXCEPT ![x] = NoExchange]
    /\ tab' = [tab EXCEPT ![x[1]] = [page |-> "login", access |-> NoAccess]]
    /\ request' = [q \in Requests |->
          IF q \in Waiting(x[1]) THEN [request[q] EXCEPT !.pc = "refused"] ELSE request[q]]

\* The tokens that stand in for a revoked one: active, and of the last minute.
Replacements == {i \in DOMAIN token : token[i].active /\ token[i].recent}

Newest(rows) == CHOOSE i \in rows : \A j \in rows : j <= i

\* The row presented, or the newest replacement when it is revoked.
Rotated(row) ==
    IF row # 0 /\ token[row].active THEN row
    ELSE IF row # 0 /\ Replacements # {} THEN Newest(Replacements)
    ELSE 0

\* Mutant: a refresh goes by the organization joined first.
FirstJoined(row) == FirstOrg

\* The row keeps the organization its session was bound to.
BoundOrg(row) == token[row].org

\* refresh: the row is found, with its user.
ReadToken(x) ==
    /\ exchange[x].pc = "read"
    /\ LET row == Rotated(exchange[x].row) IN
       IF row = 0
       THEN Fail(x)
       ELSE /\ exchange' = [exchange EXCEPT ![x] =
                  [pc |-> "revoke", row |-> row, org |-> BoundOrg(row), version |-> version]]
            /\ UNCHANGED <<tab, request>>
    /\ UNCHANGED <<token, version, cookie, chosen, replaced, undisturbed, lossless>>

\* rotateActiveRow: the row is revoked, whatever became of it since it was read.
RevokeToken(x) ==
    /\ exchange[x].pc = "revoke"
    /\ token' = [token EXCEPT ![exchange[x].row].active = FALSE]
    /\ exchange' = [exchange EXCEPT ![x].pc = "issue"]
    /\ UNCHANGED <<version, cookie, chosen, replaced, undisturbed, lossless, tab, request>>

\* revokeUserTokens: the version first, then every row that is active.
BumpVersion(x) ==
    /\ exchange[x].pc = "bump"
    /\ version' = version + 1
    /\ exchange' = [exchange EXCEPT ![x].pc = "revokeAll", ![x].version = version + 1]
    /\ UNCHANGED <<token, cookie, chosen, replaced, undisturbed, lossless, tab, request>>

RevokeAll(x) ==
    /\ exchange[x].pc = "revokeAll"
    /\ token' = [i \in DOMAIN token |-> [token[i] EXCEPT !.active = FALSE]]
    /\ exchange' = [exchange EXCEPT ![x].pc = "issue"]
    /\ UNCHANGED <<version, cookie, chosen, replaced, undisturbed, lossless, tab, request>>

\* generateTokenPair, and its answer: the cookie is the browser's, the access token the
\* tab's; the requests that waited are sent again.  An answer may be lost.
IssuePair(x) ==
    LET t == x[1] IN
    /\ exchange[x].pc = "issue"
    /\ token' = Append(token, NewToken(exchange[x].org))
    /\ \/ /\ cookie' = Len(token) + 1
          /\ chosen' = IF exchange[x].row = 0 THEN exchange[x].org ELSE chosen
          /\ replaced' = IF exchange[x].row = 0 THEN replaced \cup ({cookie} \ {0}) ELSE replaced
          /\ tab' = [tab EXCEPT ![t] =
                [page |-> "app", access |-> [version |-> exchange[x].version, live |-> TRUE]]]
          /\ exchange' = [exchange EXCEPT ![x] = NoExchange]
          /\ request' = [q \in Requests |->
                IF x[2] = "refresh" /\ q \in Waiting(t)
                THEN [request[q] EXCEPT !.pc = "again"] ELSE request[q]]
          /\ UNCHANGED <<undisturbed, lossless>>
       \/ /\ IF exchange[x].row = 0
             THEN exchange' = [exchange EXCEPT ![x] = NoExchange] /\ UNCHANGED <<tab, request>>
             ELSE Fail(x)
          /\ undisturbed' = FALSE /\ lossless' = FALSE
          /\ UNCHANGED <<cookie, chosen, replaced>>
    /\ UNCHANGED version

\* logout on the server: the row presented is revoked and the cookie cleared.
EndSession(x) ==
    /\ exchange[x].pc = "logout"
    /\ token' = IF exchange[x].row = 0 THEN token ELSE [token EXCEPT ![exchange[x].row].active = FALSE]
    /\ cookie' = 0
    /\ exchange' = [exchange EXCEPT ![x] = NoExchange]
    /\ UNCHANGED <<version, chosen, replaced, undisturbed, lossless, tab, request>>

-----------------------------------------------------------------------------
SessionsWork ==
    \/ \E x \in Tabs \X Lanes :
          ReadToken(x) \/ RevokeToken(x) \/ BumpVersion(x) \/ RevokeAll(x) \/ IssuePair(x) \/ EndSession(x)
    \/ \E t \in Tabs : SendRefresh(t)
    \/ \E q \in Requests : SendAgain(q)

SessionsNext ==
    \/ SessionsWork
    \/ \E t \in Tabs : Expire(t) \/ Load(t) \/ Logout(t)
    \/ \E t \in Tabs, o \in Orgs : Login(t, o) \/ Switch(t, o)
    \/ \E q \in Requests, t \in Tabs : Send(q, t)
    \/ GraceRunsOut

-----------------------------------------------------------------------------
(* Properties *)

\* With one auth call at a time and no answer lost, the browser's cookie is active and
\* bound to the organization last chosen there, and no other refresh token is active but
\* those a later sign-in replaced: a refresh does not flip the organization, and no token
\* outlives its rotation, a sign-out or a change of organization.
\* Calls that cross leave more: a rotation that read its row before a revocation issues
\* its pair after it (auth.service.ts, rotateActiveRow and revokeUserTokens).
ActiveTokenIsTheCookies ==
    serving = 1 /\ lossless /\ InFlight = {} =>
        /\ {i \in DOMAIN token : token[i].active} \subseteq {cookie} \cup replaced
        /\ cookie # 0 => token[cookie].active /\ token[cookie].org = chosen

\* A request refused for its token is answered in the end: sent again, or given up with
\* the session; it never waits on a refresh that waits on it (api.ts, refreshSession).
RequestsAreSettled ==
    \A q \in Requests : request[q].pc = "parked" ~> request[q].pc \in Answered

\* Tabs of one session do not end each other's (secrets-rotation.md): as long as nobody
\* signs out or changes organization, no answer is lost and no grace runs out, no tab is
\* sent to the login.
TabsDoNotEndEachOther ==
    undisturbed => \A t \in Tabs : tab[t].page # "login"
=============================================================================
