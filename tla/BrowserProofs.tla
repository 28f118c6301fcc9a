----------------------------- MODULE BrowserProofs -----------------------------
(***************************************************************************)
(* The pages that keep a state of their own, proved for any number of      *)
(* tabs, organizations, requests, rows and calls.                          *)
(***************************************************************************)
EXTENDS Browser, Sums

-----------------------------------------------------------------------------
(* AuthService and the tabs *)

\* The rows and the calls, but for the bounds of a run.
SessionRows ==
    /\ token \in Seq(Token)
    /\ cookie \in 0..Len(token)
    /\ chosen \in Orgs
    /\ exchange \in [Tabs \X Lanes ->
          [pc : {"none", "read", "revoke", "issue", "bump", "revokeAll", "logout"},
           row : 0..Len(token), org : Orgs, version : Nat]]
    /\ version \in Nat

ActiveTokens == {i \in DOMAIN token : token[i].active}

CookieIsCurrent == cookie # 0 => token[cookie].active /\ token[cookie].org = chosen

\* What a call knows when it is the only one: a refresh and a sign-out were given the
\* cookie there is; a rotation has revoked its row, and keeps the organization.
KnowsSession(x) ==
    LET call == exchange[x] IN
    /\ call.pc \in {"read", "logout"} => call.row = cookie
    /\ call.pc = "revoke" => call.row = cookie /\ cookie # 0 /\ call.org = chosen
    /\ call.pc = "issue" /\ call.row # 0 =>
          cookie # 0 /\ ~token[cookie].active /\ call.org = chosen
    /\ call.pc \in {"bump", "revokeAll"} => call.row = 0

\* One auth call at a time: what is active is the cookie's or was replaced by a later
\* sign-in, at any moment of any call.
OneExchange ==
    /\ \A x, y \in InFlight : x = y
    /\ ActiveTokens \subseteq {cookie} \cup replaced
    /\ \A x \in InFlight : KnowsSession(x)
    /\ (\A x \in InFlight : exchange[x].pc # "issue") => CookieIsCurrent

SessionsInv == SessionRows /\ (serving = 1 /\ lossless => OneExchange)

\* Rows that change in place stay as many.
LEMMA RowsInPlace ==
    ASSUME NEW s \in Seq(Token), NEW t, t \in [DOMAIN s -> Token]
    PROVE  t \in Seq(Token) /\ Len(t) = Len(s) /\ DOMAIN t = DOMAIN s
  <1>1. DOMAIN s = 1..Len(s) /\ Len(s) \in Nat
    OBVIOUS
  <1> QED BY <1>1

\* With one call at a time, a call is made when none is in flight.
LEMMA CallAlone ==
    ASSUME NEW x, MayCall(x), SessionRows, serving = 1
    PROVE  InFlight = {}
  <1>1. IsFiniteSet(Tabs \X Lanes)
    <2>1. IsFiniteSet(Lanes)
      <3>1. IsFiniteSet({"page"}) /\ Lanes = {"page"} \cup {"refresh"}
        BY FS_Singleton DEF Lanes
      <3> QED BY <3>1, FS_AddElement
    <2> QED BY <2>1, FS_Product, SessionsAssumption
  <1>2. IsFiniteSet(InFlight)
    BY <1>1, FS_Subset DEF InFlight, SessionRows
  <1>3. Cardinality(InFlight) \in Nat /\ Cardinality(InFlight) < 1
    BY <1>2, FS_CardinalityType DEF MayCall
  <1>4. Cardinality(InFlight) = 0
    BY <1>3
  <1> QED BY <1>2, <1>4, FS_EmptySet

\* The user signed in; nothing is in flight.
LEMMA SessionsInitInv == DeskInit /\ SessionsInit => SessionsInv
  <1> SUFFICES ASSUME SessionsInit
               PROVE  SessionsInv
    OBVIOUS
  <1>1. NewToken(chosen) \in Token /\ NewToken(chosen).active /\ NewToken(chosen).org = chosen
    BY DEF SessionsInit, NewToken, Token
  <1>2. /\ token \in Seq(Token) /\ Len(token) = 1 /\ DOMAIN token = {1}
        /\ token[1].active /\ token[1].org = chosen
    BY <1>1 DEF SessionsInit
  <1>3. SessionRows
    BY <1>2, SessionsAssumption DEF SessionsInit, SessionRows, NoExchange
  <1>4. InFlight = {}
    BY DEF SessionsInit, InFlight, NoExchange
  <1> QED BY <1>2, <1>3, <1>4 DEF SessionsInit, SessionsInv, OneExchange, ActiveTokens, CookieIsCurrent

\* A call that starts, with the rows as they are.
LEMMA CallStarts ==
    ASSUME SessionsInv, UNCHANGED <<serving, token, version, cookie, chosen, replaced, lossless>>,
           NEW x \in Tabs \X Lanes, MayCall(x),
           NEW new \in [pc : {"none", "read", "revoke", "issue", "bump", "revokeAll", "logout"},
                        row : 0..Len(token), org : Orgs, version : Nat],
           exchange' = [exchange EXCEPT ![x] = new],
           new.pc = "read" \/ new.pc = "logout" \/ new.pc = "bump" \/ new.pc = "issue",
           new.pc = "read" => new.row = cookie, new.pc = "logout" => new.row = cookie,
           new.pc = "bump" => new.row = 0, new.pc = "issue" => new.row = 0
    PROVE  SessionsInv'
  <1>1. SessionRows'
    BY DEF SessionsInv, SessionRows
  <1>2. exchange'[x] = new /\ DOMAIN exchange = Tabs \X Lanes /\ DOMAIN exchange' = Tabs \X Lanes
           /\ \A y \in Tabs \X Lanes : y # x => exchange'[y] = exchange[y]
    BY DEF SessionsInv, SessionRows
  <1>3. ASSUME serving = 1, lossless
        PROVE  OneExchange'
    <2>1. InFlight = {}
      BY <1>3, CallAlone DEF SessionsInv
    <2>2. InFlight' \subseteq {x}
      BY <1>2, <2>1 DEF InFlight
    <2>3. OneExchange /\ CookieIsCurrent
      BY <1>3, <2>1 DEF SessionsInv, OneExchange
    <2>4. KnowsSession(x)'
      BY <1>2, <2>3 DEF KnowsSession
    <2>5. ActiveTokens' = ActiveTokens /\ CookieIsCurrent'
      BY <2>3 DEF ActiveTokens, CookieIsCurrent
    <2> QED BY <2>2, <2>3, <2>4, <2>5 DEF OneExchange
  <1> QED BY <1>1, <1>3 DEF SessionsInv

\* A statement of a call in flight.
LEMMA CallGoesOn ==
    ASSUME SessionsInv, serving' = serving, NEW x \in InFlight,
           NEW new \in [pc : {"none", "read", "revoke", "issue", "bump", "revokeAll", "logout"},
                        row : 0..Len(token'), org : Orgs, version : Nat],
           exchange' = [exchange EXCEPT ![x] = new],
           token' \in Seq(Token), Len(token) <= Len(token'), cookie' \in 0..Len(token'), chosen' \in Orgs, version' \in Nat,
           lossless' => lossless,
           serving = 1 /\ lossless' /\ OneExchange /\ KnowsSession(x) =>
              /\ ActiveTokens' \subseteq {cookie'} \cup replaced'
              /\ new.pc # "none" => KnowsSession(x)'
              /\ new.pc # "issue" => CookieIsCurrent'
    PROVE  SessionsInv'
  <1>1. SessionRows'
    <2>1. Len(token) \in Nat /\ Len(token') \in Nat /\ 0..Len(token) \subseteq 0..Len(token')
      BY DEF SessionsInv, SessionRows
    <2> QED BY <2>1 DEF SessionsInv, SessionRows
  <1>2. /\ x \in Tabs \X Lanes /\ exchange'[x] = new
        /\ DOMAIN exchange = Tabs \X Lanes /\ DOMAIN exchange' = Tabs \X Lanes
        /\ \A y \in Tabs \X Lanes : y # x => exchange'[y] = exchange[y]
    BY DEF SessionsInv, SessionRows, InFlight
  <1>3. ASSUME serving = 1, lossless'
        PROVE  OneExchange'
    <2>1. OneExchange /\ KnowsSession(x)
      BY <1>3 DEF SessionsInv, OneExchange
    <2>2. InFlight \subseteq {x}
      BY <2>1 DEF OneExchange
    <2>3. InFlight' \subseteq {x} /\ (x \in InFlight' <=> new.pc # "none")
      BY <1>2, <2>2 DEF InFlight
    <2>4. new.pc = "issue" => x \in InFlight'
      BY <2>3
    <2> QED BY <1>2, <1>3, <2>1, <2>3, <2>4 DEF OneExchange
  <1> QED BY <1>1, <1>3 DEF SessionsInv

\* A row that is revoked in place, or none when there is none.
LEMMA OneRowRevoked ==
    ASSUME NEW s \in Seq(Token), NEW row \in 0..Len(s), NEW t,
           t = [s EXCEPT ![row].active = FALSE] \/ (row = 0 /\ t = s)
    PROVE  /\ t \in Seq(Token) /\ Len(t) = Len(s) /\ DOMAIN t = DOMAIN s
           /\ \A i \in DOMAIN s : i # row => t[i] = s[i]
           /\ row \in DOMAIN s => ~t[row].active
  <1>1. DOMAIN s = 1..Len(s) /\ Len(s) \in Nat
    OBVIOUS
  <1>2. CASE row = 0
    BY <1>1, <1>2
  <1>3. CASE row # 0
    <2>1. row \in DOMAIN s /\ s[row] \in Token
      BY <1>1, <1>3
    <2>2. [s[row] EXCEPT !.active = FALSE] \in Token /\ ~[s[row] EXCEPT !.active = FALSE].active
      BY <2>1 DEF Token
    <2>3. t = [s EXCEPT ![row] = [s[row] EXCEPT !.active = FALSE]]
      BY <1>3
    <2> HIDE DEF Token
    <2>4. t \in [DOMAIN s -> Token]
      <3>1. s \in [DOMAIN s -> Token]
        BY <1>1
      <3> QED BY <2>1, <2>2, <2>3, <3>1
    <2> QED BY <2>1, <2>2, <2>3, <2>4, RowsInPlace
  <1> QED BY <1>2, <1>3

\* The newest replacement is one of them.
LEMMA NewestIsOne ==
    ASSUME token \in Seq(Token), Replacements # {}
    PROVE  Newest(Replacements) \in Replacements
  <1>1. Len(token) \in Nat /\ Replacements \in SUBSET (0..Len(token))
    BY DEF Replacements
  <1>2. \E i \in Replacements : \A j \in Replacements : j <= i
    BY <1>1, Greatest
  <1> QED BY <1>2 DEF Newest

\* Every step keeps it.
LEMMA SessionsNextInv ==
    SessionsInv /\ [SessionsNext /\ UNCHANGED serving]_<<serving, sessionsVars>> => SessionsInv'
  <1> SUFFICES ASSUME SessionsInv,
                      [SessionsNext /\ UNCHANGED serving]_<<serving, sessionsVars>>
               PROVE  SessionsInv'
    OBVIOUS
  <1> DEFINE Call == [pc : {"none", "read", "revoke", "issue", "bump", "revokeAll", "logout"},
                      row : 0..Len(token), org : Orgs, version : Nat]
  <1>0. /\ serving' = serving
        /\ token \in Seq(Token) /\ cookie \in 0..Len(token) /\ chosen \in Orgs /\ version \in Nat
        /\ exchange \in [Tabs \X Lanes -> Call]
        /\ \A x \in Tabs \X Lanes : exchange[x].pc # "none" => x \in InFlight
        /\ DOMAIN token = 1..Len(token) /\ Len(token) \in Nat
        /\ FirstOrg \in Orgs /\ NoExchange \in Call /\ NoExchange.pc = "none"
        /\ cookie \in Nat
    BY SessionsAssumption DEF sessionsVars, SessionsInv, SessionRows, InFlight, NoExchange
  <1>1. ASSUME UNCHANGED <<serving, token, version, cookie, chosen, replaced, lossless, exchange>>
        PROVE  SessionsInv'
    BY <1>1 DEF SessionsInv, SessionRows, OneExchange, InFlight, ActiveTokens, KnowsSession,
                CookieIsCurrent
  <1>2. ASSUME NEW t \in Tabs, Expire(t)
        PROVE  SessionsInv'
    BY <1>0, <1>1, <1>2 DEF Expire
  <1>3. ASSUME NEW q \in Requests, SendAgain(q) \/ \E t \in Tabs : Send(q, t)
        PROVE  SessionsInv'
    BY <1>0, <1>1, <1>3 DEF SendAgain, Send
  <1>4. CASE GraceRunsOut
    <2>1. token' = [i \in DOMAIN token |-> [token[i] EXCEPT !.recent = FALSE]]
             /\ UNCHANGED <<version, cookie, chosen, replaced, lossless, exchange>>
      BY <1>4 DEF GraceRunsOut
    <2>2. \A i \in DOMAIN token : /\ [token[i] EXCEPT !.recent = FALSE] \in Token
                                  /\ [token[i] EXCEPT !.recent = FALSE].active <=> token[i].active
                                  /\ [token[i] EXCEPT !.recent = FALSE].org = token[i].org
      <3> SUFFICES ASSUME NEW i \in DOMAIN token
                   PROVE  /\ [token[i] EXCEPT !.recent = FALSE] \in Token
                          /\ [token[i] EXCEPT !.recent = FALSE].active <=> token[i].active
                          /\ [token[i] EXCEPT !.recent = FALSE].org = token[i].org
        OBVIOUS
      <3>1. token[i] \in Token
        BY <1>0
      <3> QED BY <3>1 DEF Token
    <2>3. /\ token' \in Seq(Token) /\ Len(token') = Len(token) /\ DOMAIN token' = DOMAIN token
          /\ \A i \in DOMAIN token : /\ token'[i].active <=> token[i].active
                                     /\ token'[i].org = token[i].org
      <3>1. token' \in [DOMAIN token -> Token]
        BY <2>1, <2>2
      <3> QED BY <1>0, <2>1, <2>2, <3>1, RowsInPlace
    <2>4. SessionRows' /\ ActiveTokens' = ActiveTokens
      BY <1>0, <2>1, <2>3 DEF SessionsInv, SessionRows, ActiveTokens
    <2>5. cookie # 0 => cookie \in DOMAIN token
      BY <1>0
    <2>6. \A x \in InFlight : KnowsSession(x) => KnowsSession(x)'
      BY <2>1, <2>3, <2>5 DEF KnowsSession
    <2>7. InFlight' = InFlight /\ (CookieIsCurrent => CookieIsCurrent')
      BY <2>1, <2>3, <2>5 DEF InFlight, CookieIsCurrent
    <2> QED BY <1>0, <2>1, <2>4, <2>6, <2>7 DEF SessionsInv, OneExchange
  <1>5. ASSUME NEW x \in Tabs \X Lanes, MayCall(x), Presenting(x),
               UNCHANGED <<token, version, cookie, chosen, replaced, lossless>>
        PROVE  SessionsInv'
    <2> DEFINE new == [NoExchange EXCEPT !.pc = "read", !.row = cookie]
    <2>1. new \in Call /\ new.pc = "read" /\ new.row = cookie
      BY <1>0
    <2>2. exchange' = [exchange EXCEPT ![x] = new]
      BY <1>5 DEF Presenting
    <2> HIDE DEF new
    <2> QED BY <1>0, <1>5, <2>1, <2>2, CallStarts
  <1>6. ASSUME NEW t \in Tabs, SendRefresh(t) \/ Load(t)
        PROVE  SessionsInv'
    BY <1>5, <1>6 DEF SendRefresh, Load, Lanes
  <1>7. ASSUME NEW t \in Tabs, NEW o \in Orgs, Login(t, o) \/ Switch(t, o)
        PROVE  SessionsInv'
    <2>1. <<t, "page">> \in Tabs \X Lanes /\ MayCall(<<t, "page">>)
             /\ UNCHANGED <<token, version, cookie, chosen, replaced, lossless>>
      BY <1>7 DEF Lanes, Login, Switch
    <2>2. CASE Login(t, o)
      <3> DEFINE new == [pc |-> "issue", row |-> 0, org |-> o, version |-> version]
      <3>1. new \in Call /\ new.pc = "issue" /\ new.row = 0
        BY <1>0
      <3>2. exchange' = [exchange EXCEPT ![<<t, "page">>] = new]
        BY <2>2 DEF Login
      <3> HIDE DEF new
      <3> QED BY <1>0, <2>1, <3>1, <3>2, CallStarts
    <2>3. CASE Switch(t, o)
      <3> DEFINE new == [NoExchange EXCEPT !.pc = "bump", !.org = o]
      <3>1. new \in Call /\ new.pc = "bump" /\ new.row = 0
        <4>1. NoExchange.row = 0
          BY DEF NoExchange
        <4> QED BY <1>0, <4>1
      <3>2. exchange' = [exchange EXCEPT ![<<t, "page">>] = new]
        BY <2>3 DEF Switch
      <3> HIDE DEF new
      <3> QED BY <1>0, <2>1, <3>1, <3>2, CallStarts
    <2> QED BY <1>7, <2>2, <2>3
  <1>8. ASSUME NEW t \in Tabs, Logout(t)
        PROVE  SessionsInv'
    <2> DEFINE new == [NoExchange EXCEPT !.pc = "logout", !.row = cookie]
    <2>1. new \in Call /\ new.pc = "logout" /\ new.row = cookie
      BY <1>0
    <2>2. exchange' = [exchange EXCEPT ![<<t, "page">>] = new]
      BY <1>8 DEF Logout
    <2>3. <<t, "page">> \in Tabs \X Lanes /\ MayCall(<<t, "page">>)
             /\ UNCHANGED <<token, version, cookie, chosen, replaced, lossless>>
      BY <1>8 DEF Logout, Lanes
    <2> HIDE DEF new
    <2> QED BY <1>0, <2>1, <2>2, <2>3, CallStarts
  <1>9. ASSUME NEW x \in Tabs \X Lanes, ReadToken(x)
        PROVE  SessionsInv'
    <2> DEFINE row == Rotated(exchange[x].row)
    <2>1. /\ x \in InFlight /\ exchange[x].pc = "read" /\ exchange[x] \in Call
          /\ UNCHANGED <<token, version, cookie, chosen, replaced, lossless>>
      BY <1>0, <1>9 DEF ReadToken
    <2>2. CASE row = 0
      <3>1. exchange' = [exchange EXCEPT ![x] = NoExchange]
        BY <1>9, <2>2 DEF ReadToken, Fail
      <3>2. serving = 1 /\ lossless' /\ OneExchange /\ KnowsSession(x) =>
               ActiveTokens' \subseteq {cookie'} \cup replaced' /\ CookieIsCurrent'
        <4>1. ASSUME OneExchange
              PROVE  CookieIsCurrent
          BY <2>1, <4>1 DEF OneExchange
        <4> QED BY <2>1, <4>1 DEF OneExchange, ActiveTokens, CookieIsCurrent
      <3>3. NoExchange \in [pc : {"none", "read", "revoke", "issue", "bump", "revokeAll", "logout"},
                            row : 0..Len(token'), org : Orgs, version : Nat]
        BY <1>0, <2>1
      <3>4. token' \in Seq(Token) /\ Len(token) <= Len(token') /\ cookie' \in 0..Len(token')
        BY <1>0, <2>1
      <3> HIDE DEF row
      <3> QED BY <1>0, <2>1, <3>1, <3>2, <3>3, <3>4, CallGoesOn
    <2>3. CASE row # 0
      <3>1. row \in DOMAIN token
        <4>1. CASE exchange[x].row # 0 /\ token[exchange[x].row].active
          BY <1>0, <2>1, <4>1 DEF Rotated
        <4>2. CASE ~(exchange[x].row # 0 /\ token[exchange[x].row].active)
          <5>1. Replacements # {} /\ row = Newest(Replacements)
            BY <2>3, <4>2 DEF Rotated
          <5> QED BY <1>0, <5>1, NewestIsOne DEF Replacements
        <4> QED BY <4>1, <4>2
      <3>2. token[row] \in Token /\ row \in 0..Len(token)
        BY <1>0, <3>1
      <3> DEFINE new == [pc |-> "revoke", row |-> row, org |-> token[row].org, version |-> version]
      <3>3. new \in [pc : {"none", "read", "revoke", "issue", "bump", "revokeAll", "logout"},
                      row : 0..Len(token'), org : Orgs, version : Nat]
        BY <1>0, <2>1, <3>2 DEF Token
      <3>4. exchange' = [exchange EXCEPT ![x] = new]
        BY <1>9, <2>3 DEF ReadToken, BoundOrg
      <3>5. ASSUME OneExchange, KnowsSession(x)
            PROVE  /\ ActiveTokens' \subseteq {cookie'} \cup replaced'
                   /\ KnowsSession(x)'
                   /\ CookieIsCurrent'
        <4>1. CookieIsCurrent /\ exchange[x].row = cookie
          BY <2>1, <3>5 DEF OneExchange, KnowsSession
        <4>2. row = cookie
          <5>1. exchange[x].row # 0
            BY <2>3 DEF Rotated
          <5> QED BY <4>1, <5>1 DEF Rotated, CookieIsCurrent
        <4>3. exchange'[x] = new
          BY <1>0, <3>4
        <4>4. KnowsSession(x)'
          BY <2>1, <2>3, <4>1, <4>2, <4>3 DEF KnowsSession, CookieIsCurrent
        <4> HIDE DEF row
        <4> QED BY <2>1, <3>5, <4>1, <4>4 DEF OneExchange, ActiveTokens, CookieIsCurrent
      <3>6. token' \in Seq(Token) /\ Len(token) <= Len(token') /\ cookie' \in 0..Len(token')
        BY <1>0, <2>1
      <3>7. new.pc = "revoke"
        OBVIOUS
      <3> HIDE DEF row, new
      <3> QED BY <1>0, <2>1, <3>3, <3>4, <3>5, <3>6, <3>7, CallGoesOn
    <2> QED BY <2>2, <2>3
  <1>10. ASSUME NEW x \in Tabs \X Lanes, RevokeToken(x)
         PROVE  SessionsInv'
    <2> DEFINE row == exchange[x].row
               new == [exchange[x] EXCEPT !.pc = "issue"]
    <2>1. /\ x \in InFlight /\ exchange[x].pc = "revoke" /\ exchange[x] \in Call
          /\ UNCHANGED <<version, cookie, chosen, replaced, lossless>>
          /\ token' = [token EXCEPT ![row].active = FALSE]
          /\ exchange' = [exchange EXCEPT ![x] = new]
      BY <1>0, <1>10 DEF RevokeToken
    <2>2. /\ token' \in Seq(Token) /\ Len(token') = Len(token) /\ DOMAIN token' = DOMAIN token
          /\ \A i \in DOMAIN token : i # row => token'[i] = token[i]
          /\ row \in DOMAIN token => ~token'[row].active
      <3>1. row \in 0..Len(token)
        BY <2>1
      <3>2. token' = [token EXCEPT ![row].active = FALSE] \/ (row = 0 /\ token' = token)
        BY <2>1
      <3> HIDE DEF row
      <3> QED BY <1>0, <3>1, <3>2, OneRowRevoked
    <2>3. new \in [pc : {"none", "read", "revoke", "issue", "bump", "revokeAll", "logout"},
                   row : 0..Len(token'), org : Orgs, version : Nat]
             /\ new.pc = "issue" /\ new.row = row /\ new.org = exchange[x].org
      BY <2>1, <2>2
    <2>4. ASSUME OneExchange, KnowsSession(x)
          PROVE  ActiveTokens' \subseteq {cookie'} \cup replaced' /\ KnowsSession(x)'
      <3>1. row = cookie /\ cookie # 0 /\ exchange[x].org = chosen
        BY <2>1, <2>4 DEF KnowsSession
      <3>2. exchange'[x] = new
        BY <1>0, <2>1
      <3>3. cookie \in DOMAIN token
        BY <1>0, <3>1
      <3>4. KnowsSession(x)'
        BY <2>1, <2>2, <2>3, <3>1, <3>2, <3>3 DEF KnowsSession
      <3>5. ActiveTokens' \subseteq ActiveTokens
        BY <2>2, <3>1, <3>3 DEF ActiveTokens
      <3> QED BY <2>1, <2>4, <3>4, <3>5 DEF OneExchange
    <2>5. Len(token) <= Len(token') /\ cookie' \in 0..Len(token')
      BY <1>0, <2>1, <2>2
    <2> HIDE DEF row, new
    <2> QED BY <1>0, <2>1, <2>2, <2>3, <2>4, <2>5, CallGoesOn
  <1>11. ASSUME NEW x \in Tabs \X Lanes, BumpVersion(x)
         PROVE  SessionsInv'
    <2> DEFINE new == [exchange[x] EXCEPT !.pc = "revokeAll", !.version = version + 1]
    <2>1. /\ x \in InFlight /\ exchange[x].pc = "bump" /\ exchange[x] \in Call
          /\ UNCHANGED <<token, cookie, chosen, replaced, lossless>>
          /\ version' = version + 1
          /\ exchange' = [exchange EXCEPT ![x] = new]
      BY <1>0, <1>11 DEF BumpVersion
    <2>2. new \in [pc : {"none", "read", "revoke", "issue", "bump", "revokeAll", "logout"},
                   row : 0..Len(token'), org : Orgs, version : Nat]
             /\ new.pc = "revokeAll" /\ new.row = exchange[x].row
      <3>1. version + 1 \in Nat /\ Len(token') = Len(token)
        BY <1>0, <2>1
      <3> QED BY <2>1, <3>1
    <2>3. ASSUME OneExchange, KnowsSession(x)
          PROVE  /\ ActiveTokens' \subseteq {cookie'} \cup replaced' /\ KnowsSession(x)'
                 /\ CookieIsCurrent'
      <3>1. exchange'[x] = new /\ exchange[x].row = 0
        BY <1>0, <2>1, <2>3 DEF KnowsSession
      <3>2. KnowsSession(x)'
        BY <2>2, <3>1 DEF KnowsSession
      <3>3. CookieIsCurrent
        BY <2>1, <2>3 DEF OneExchange
      <3> QED BY <2>1, <2>3, <3>2, <3>3 DEF OneExchange, ActiveTokens, CookieIsCurrent
    <2>4. token' \in Seq(Token) /\ Len(token) <= Len(token') /\ cookie' \in 0..Len(token')
             /\ version' \in Nat
      BY <1>0, <2>1
    <2> HIDE DEF new
    <2> QED BY <1>0, <2>1, <2>2, <2>3, <2>4, CallGoesOn
  <1>12. ASSUME NEW x \in Tabs \X Lanes, RevokeAll(x)
         PROVE  SessionsInv'
    <2> DEFINE new == [exchange[x] EXCEPT !.pc = "issue"]
    <2>1. /\ x \in InFlight /\ exchange[x].pc = "revokeAll" /\ exchange[x] \in Call
          /\ UNCHANGED <<version, cookie, chosen, replaced, lossless>>
          /\ token' = [i \in DOMAIN token |-> [token[i] EXCEPT !.active = FALSE]]
          /\ exchange' = [exchange EXCEPT ![x] = new]
      BY <1>0, <1>12 DEF RevokeAll
    <2>2. \A i \in DOMAIN token : [token[i] EXCEPT !.active = FALSE] \in Token
                                 /\ ~[token[i] EXCEPT !.active = FALSE].active
      <3> SUFFICES ASSUME NEW i \in DOMAIN token
                   PROVE  [token[i] EXCEPT !.active = FALSE] \in Token
                             /\ ~[token[i] EXCEPT !.active = FALSE].active
        OBVIOUS
      <3>1. token[i] \in Token
        BY <1>0
      <3> QED BY <3>1 DEF Token
    <2>3. /\ token' \in Seq(Token) /\ Len(token') = Len(token) /\ DOMAIN token' = DOMAIN token
          /\ \A i \in DOMAIN token : ~token'[i].active
      <3>1. token' \in [DOMAIN token -> Token]
        BY <2>1, <2>2
      <3> QED BY <1>0, <2>1, <2>2, <3>1, RowsInPlace
    <2>4. new \in [pc : {"none", "read", "revoke", "issue", "bump", "revokeAll", "logout"},
                   row : 0..Len(token'), org : Orgs, version : Nat]
             /\ new.pc = "issue" /\ new.row = exchange[x].row
      BY <1>0, <2>1, <2>3
    <2>5. ASSUME OneExchange, KnowsSession(x)
          PROVE  ActiveTokens' \subseteq {cookie'} \cup replaced' /\ KnowsSession(x)'
      <3>1. exchange'[x] = new /\ exchange[x].row = 0
        BY <1>0, <2>1, <2>5 DEF KnowsSession
      <3> QED BY <2>3, <2>4, <3>1 DEF KnowsSession, ActiveTokens
    <2>6. Len(token) <= Len(token') /\ cookie' \in 0..Len(token')
      BY <1>0, <2>1, <2>3
    <2> HIDE DEF new
    <2> QED BY <1>0, <2>1, <2>3, <2>4, <2>5, <2>6, CallGoesOn
  <1>13. ASSUME NEW x \in Tabs \X Lanes, IssuePair(x)
         PROVE  SessionsInv'
    <2> DEFINE n == Len(token) + 1
    <2>1. /\ x \in InFlight /\ exchange[x].pc = "issue" /\ exchange[x] \in Call
          /\ token' = Append(token, NewToken(exchange[x].org)) /\ version' = version
          /\ exchange' = [exchange EXCEPT ![x] = NoExchange]
      BY <1>0, <1>13 DEF IssuePair, Fail
    <2>2. NewToken(exchange[x].org) \in Token /\ NewToken(exchange[x].org).active
             /\ NewToken(exchange[x].org).org = exchange[x].org
      BY <2>1 DEF NewToken, Token
    <2>3. /\ token' \in Seq(Token) /\ Len(token') = n /\ n \in Nat
          /\ DOMAIN token' = DOMAIN token \cup {n} /\ n \notin DOMAIN token
          /\ \A i \in DOMAIN token : token'[i] = token[i]
          /\ token'[n].active /\ token'[n].org = exchange[x].org
      BY <1>0, <2>1, <2>2
    <2>4. NoExchange \in [pc : {"none", "read", "revoke", "issue", "bump", "revokeAll", "logout"},
                          row : 0..Len(token'), org : Orgs, version : Nat]
      BY <1>0, <2>3 DEF NoExchange
    <2>5. CASE /\ cookie' = Len(token) + 1
               /\ chosen' = IF exchange[x].row = 0 THEN exchange[x].org ELSE chosen
               /\ replaced' = IF exchange[x].row = 0 THEN replaced \cup ({cookie} \ {0}) ELSE replaced
               /\ UNCHANGED lossless
      <3>1. ASSUME OneExchange, KnowsSession(x)
            PROVE  ActiveTokens' \subseteq {cookie'} \cup replaced' /\ CookieIsCurrent'
        <4>1. CookieIsCurrent'
          BY <2>1, <2>3, <2>5, <3>1 DEF CookieIsCurrent, KnowsSession
        <4>2. ActiveTokens' \subseteq ActiveTokens \cup {cookie'}
          BY <2>3, <2>5 DEF ActiveTokens
        <4>3. exchange[x].row # 0 => cookie \notin ActiveTokens
          BY <2>1, <3>1 DEF KnowsSession, ActiveTokens
        <4>4. 0 \notin ActiveTokens
          BY <1>0 DEF ActiveTokens
        <4>5. ActiveTokens \subseteq replaced'
          BY <2>5, <3>1, <4>3, <4>4 DEF OneExchange
        <4> QED BY <4>1, <4>2, <4>5
      <3>2. cookie' \in 0..Len(token') /\ chosen' \in Orgs /\ Len(token) <= Len(token')
        BY <1>0, <2>1, <2>3, <2>5
      <3> HIDE DEF n
      <3> QED BY <1>0, <2>1, <2>3, <2>4, <2>5, <3>1, <3>2, CallGoesOn
    <2>6. CASE ~lossless' /\ UNCHANGED <<cookie, chosen>>
      <3>1. cookie' \in 0..Len(token') /\ chosen' \in Orgs /\ Len(token) <= Len(token')
        BY <1>0, <2>3, <2>6
      <3> HIDE DEF n
      <3> QED BY <1>0, <2>1, <2>3, <2>4, <2>6, <3>1, CallGoesOn
    <2> QED BY <1>13, <2>5, <2>6 DEF IssuePair
  <1>14. ASSUME NEW x \in Tabs \X Lanes, EndSession(x)
         PROVE  SessionsInv'
    <2> DEFINE row == exchange[x].row
    <2>1. /\ x \in InFlight /\ exchange[x].pc = "logout" /\ exchange[x] \in Call
          /\ UNCHANGED <<version, chosen, replaced, lossless>> /\ cookie' = 0
          /\ token' = IF row = 0 THEN token ELSE [token EXCEPT ![row].active = FALSE]
          /\ exchange' = [exchange EXCEPT ![x] = NoExchange]
      BY <1>0, <1>14 DEF EndSession
    <2>2. /\ token' \in Seq(Token) /\ Len(token') = Len(token) /\ DOMAIN token' = DOMAIN token
          /\ \A i \in DOMAIN token : i # row => token'[i] = token[i]
          /\ row \in DOMAIN token => ~token'[row].active
      <3>1. row \in 0..Len(token)
        BY <2>1
      <3>2. token' = [token EXCEPT ![row].active = FALSE] \/ (row = 0 /\ token' = token)
        BY <2>1
      <3> HIDE DEF row
      <3> QED BY <1>0, <3>1, <3>2, OneRowRevoked
    <2>3. ASSUME OneExchange, KnowsSession(x)
          PROVE  ActiveTokens' \subseteq {cookie'} \cup replaced' /\ CookieIsCurrent'
      <3>1. row = cookie
        BY <2>1, <2>3 DEF KnowsSession
      <3>2. ActiveTokens' \subseteq ActiveTokens \ {cookie}
        BY <2>2, <3>1 DEF ActiveTokens
      <3> QED BY <2>1, <2>3, <3>2 DEF OneExchange, CookieIsCurrent
    <2>4. NoExchange \in [pc : {"none", "read", "revoke", "issue", "bump", "revokeAll", "logout"},
                          row : 0..Len(token'), org : Orgs, version : Nat]
             /\ cookie' \in 0..Len(token') /\ Len(token) <= Len(token')
      BY <1>0, <2>1, <2>2
    <2> HIDE DEF row
    <2> QED BY <1>0, <2>1, <2>2, <2>3, <2>4, CallGoesOn
  <1>15. CASE UNCHANGED <<serving, sessionsVars>>
    BY <1>1, <1>15 DEF sessionsVars
  <1> QED BY <1>2, <1>3, <1>4, <1>6, <1>7, <1>8, <1>9, <1>10, <1>11, <1>12, <1>13, <1>14, <1>15
          DEF SessionsNext, SessionsWork

-----------------------------------------------------------------------------
(* The pages together *)

\* A step of the browser is a step of the sessions, or leaves them alone.
LEMMA SessionsStep ==
    [BrowserNext]_browserVars => [SessionsNext /\ UNCHANGED serving]_<<serving, sessionsVars>>
  BY DEF BrowserNext, browserVars

\* ActiveTokenIsTheCookies for any number of tabs, organizations, requests and tokens:
\* with one auth call at a time and no answer lost, whatever the user and the tabs do,
\* the only tokens that are active are the cookie's and those a sign-in replaced, and the
\* cookie's is bound to the organization chosen (auth.service.ts, rotateActiveRow).
THEOREM CookieIsKept == BrowserSpec => []ActiveTokenIsTheCookies
  <1>1. BrowserInit => SessionsInv
    BY SessionsInitInv DEF BrowserInit
  <1>2. SessionsInv /\ [BrowserNext]_browserVars => SessionsInv'
    BY SessionsStep, SessionsNextInv
  <1>3. SessionsInv => ActiveTokenIsTheCookies
    BY DEF SessionsInv, OneExchange, ActiveTokens, CookieIsCurrent, ActiveTokenIsTheCookies
  <1> QED BY <1>1, <1>2, <1>3, PTL DEF BrowserSpec
-----------------------------------------------------------------------------
(* The imports *)

\* A row has a key when it parses.
ParsedRow == {r \in FileRow : (r.form = "good") <=> (r.code # None)}

\* The job, whatever its steps: its counts are numbers, its list has one entry per row.
JobRecord ==
    [kind : {"none", "products", "full"}, file : Seq(ParsedRow),
     status : {"PARSING", "PROCESSING", "COMPLETED", "FAILED"}, kept : BOOLEAN,
     pc : {"none", "row", "create", "ended", "dead"}, sheet : Sheets \cup {None}, row : Nat \ {0},
     seen : SUBSET Codes, known : SUBSET Codes, entry : Seq(Entry),
     imported : Nat, skipped : Nat, errors : Nat, processed : Nat]

\* The rows counted as processed that have their outcome.
RowsSettled(j) == j.processed - CountedAhead(j)

RetryRecord == [pc : {"idle", "check", "create"}, row : 0..MaxRows, code : Codes \cup {None}]

\* Who made the record of a sheet and a key.
Cells == Sheets \X Codes

Maker(x) == made[x[1]][x[2]]

PendingRows(entry) == {i \in DOMAIN entry : entry[i] = "pending"}

Retrying == {c \in Calls : retryCall[c].pc # "idle"}

\* The job creates a record for a row it has, and a retry one for a row and a key.
ImportState ==
    /\ job \in JobRecord
    /\ Len(job.entry) = Len(job.file) /\ Len(job.file) <= MaxRows
    /\ job.kind = "none" => job = NoJob
    /\ job.kind # "none" => job.pc # "none"
    /\ job.pc = "dead" => job.file = <<>> /\ ~job.kept
    /\ job.pc = "create" => job.row \in DOMAIN job.file /\ job.sheet \in Sheets /\ TheRow.code \in Codes
    /\ made \in [Sheets -> [Codes -> 0..MaxRows \cup {None}]]
    /\ lost \subseteq {x \in Cells : Maker(x) \in 1..MaxRows}
    /\ retryCall \in [Calls -> RetryRecord]
    /\ \A c \in Retrying : retryCall[c].row \in DOMAIN job.file /\ retryCall[c].code \in Codes

\* One retry at a time: the rows ahead of the job are untouched, the retry's row is
\* listed as pending, and the counts add up.
CountsAddUp ==
    /\ \A c \in Retrying : job.entry[retryCall[c].row] = "pending"
    /\ \A i \in DOMAIN job.entry : job.entry[i] # "none" => i < job.row
    /\ job.errors = Cardinality(PendingRows(job.entry))
    /\ IsFiniteSet(Told) /\ job.imported = Cardinality(Told)
    /\ RowsSettled(job) = job.imported + job.skipped + job.errors

\* No creation answered with an error: a row that made a record is behind the job and
\* not listed as pending, so that it cannot be retried.
MadeAreSettled ==
    \A x \in Cells : Maker(x) \in 1..MaxRows =>
        /\ Maker(x) \in DOMAIN job.entry /\ Maker(x) < job.row
        /\ job.entry[Maker(x)] # "pending"

MakersDiffer == \A x, y \in Cells : Maker(x) \in 1..MaxRows /\ Maker(x) = Maker(y) => x = y

ImportsInv ==
    /\ ImportState
    /\ serving = 1 =>
          /\ \A c, d \in Retrying : c = d
          /\ job.pc # "dead" => CountsAddUp
          /\ lost = {} => MakersDiffer /\ (job.pc # "dead" => MadeAreSettled)

\* With one retry at a time, a retry is made when none is in flight.
LEMMA RetryAlone ==
    ASSUME NEW c \in Calls, Admitted(retryCall, c), serving = 1, retryCall \in [Calls -> RetryRecord]
    PROVE  Retrying = {}
  <1>1. IsFiniteSet(InService(retryCall))
    BY FS_Subset, DeskAssumption DEF InService
  <1>2. Cardinality(InService(retryCall)) \in Nat /\ Cardinality(InService(retryCall)) < 1
    BY <1>1, FS_CardinalityType DEF Admitted
  <1>3. Cardinality(InService(retryCall)) = 0
    BY <1>2
  <1>4. InService(retryCall) = {}
    BY <1>1, <1>3, FS_EmptySet
  <1> QED BY <1>4 DEF InService, Retrying, Answered, RetryRecord

\* The rows listed as pending are finitely many.
LEMMA PendingRowsFinite ==
    ASSUME NEW n \in Nat, NEW entry \in [1..n -> Entry]
    PROVE  IsFiniteSet(PendingRows(entry)) /\ Cardinality(PendingRows(entry)) \in Nat
  <1>1. IsFiniteSet(1..n) /\ PendingRows(entry) \subseteq 1..n
    BY FS_Interval DEF PendingRows
  <1> QED BY <1>1, FS_Subset, FS_CardinalityType

\* One more row is listed.
LEMMA RowIsListed ==
    ASSUME NEW n \in Nat, NEW entry \in [1..n -> Entry], NEW i \in 1..n, entry[i] # "pending",
           NEW after, after = [entry EXCEPT ![i] = "pending"]
    PROVE  Cardinality(PendingRows(after)) = Cardinality(PendingRows(entry)) + 1
  <1>1. IsFiniteSet(PendingRows(entry))
    BY PendingRowsFinite
  <1>2. PendingRows(after) = PendingRows(entry) \cup {i} /\ i \notin PendingRows(entry)
    BY DEF PendingRows
  <1>3. Cardinality(PendingRows(entry) \cup {i}) =
           IF i \in PendingRows(entry) THEN Cardinality(PendingRows(entry))
           ELSE Cardinality(PendingRows(entry)) + 1
    BY <1>1, FS_AddElement
  <1> QED BY <1>2, <1>3

\* A row that was listed is resolved.
LEMMA RowIsResolved ==
    ASSUME NEW n \in Nat, NEW entry \in [1..n -> Entry], NEW i \in 1..n, entry[i] = "pending",
           NEW after, after = [entry EXCEPT ![i] = "resolved"]
    PROVE  /\ Cardinality(PendingRows(after)) = Cardinality(PendingRows(entry)) - 1
           /\ Cardinality(PendingRows(entry)) > 0
  <1>1. IsFiniteSet(PendingRows(entry)) /\ Cardinality(PendingRows(entry)) \in Nat
    BY PendingRowsFinite
  <1>2. PendingRows(after) = PendingRows(entry) \ {i} /\ i \in PendingRows(entry)
    BY DEF PendingRows
  <1>3. /\ IsFiniteSet(PendingRows(entry) \ {i})
        /\ Cardinality(PendingRows(entry) \ {i}) =
           IF i \in PendingRows(entry) THEN Cardinality(PendingRows(entry)) - 1
           ELSE Cardinality(PendingRows(entry))
    BY <1>1, FS_RemoveElement
  <1>4. Cardinality(PendingRows(entry) \ {i}) \in Nat
    BY <1>3, FS_CardinalityType
  <1>5. Cardinality(PendingRows(after)) = Cardinality(PendingRows(entry)) - 1
    BY <1>2, <1>3
  <1>6. Cardinality(PendingRows(after)) \in Nat
    BY <1>2, <1>4
  <1> QED BY <1>1, <1>5, <1>6

\* What a creation does to the records and their makers.
LEMMA CreateMakes ==
    ASSUME ImportState, NEW sheet \in Sheets, NEW k \in Codes, NEW i \in 1..MaxRows,
           NEW outcome \in Outcomes(sheet, k), Create(sheet, k, i, outcome)
    PROVE  /\ made' \in [Sheets -> [Codes -> 0..MaxRows \cup {None}]]
           /\ lost' \subseteq {x \in Cells : Maker(x)' \in 1..MaxRows}
           /\ outcome \in {"refused", "created", "lost"}
           /\ outcome = "refused" => made' = made /\ lost' = lost
           /\ outcome # "refused" =>
                 /\ Maker(<<sheet, k>>) \notin 1..MaxRows /\ Maker(<<sheet, k>>)' = i
                 /\ \A x \in Cells : x # <<sheet, k>> => Maker(x)' = Maker(x)
           /\ outcome = "created" => lost' = lost
           /\ outcome = "lost" => lost' # {}
           /\ outcome # "created" => Told' = Told
           /\ outcome = "created" => <<sheet, k>> \notin Told /\ Told' = Told \cup {<<sheet, k>>}
  <1>0. /\ made \in [Sheets -> [Codes -> 0..MaxRows \cup {None}]] /\ MaxRows \in Nat /\ None \notin Nat
        /\ lost \subseteq {x \in Cells : Maker(x) \in 1..MaxRows}
        /\ <<sheet, k>> \in Cells /\ <<sheet, k>>[1] = sheet /\ <<sheet, k>>[2] = k
        /\ \A x \in Cells : x = <<x[1], x[2]>> /\ x[1] \in Sheets /\ x[2] \in Codes
    BY ImportsAssumption DEF ImportState, Cells
  <1>1. CASE outcome = "refused"
    <2>1. made' = made /\ lost' = lost
      BY <1>1 DEF Create
    <2> QED BY <1>0, <1>1, <2>1 DEF Maker, Told
  <1>2. CASE outcome # "refused"
    <2>1. k \notin Taken(sheet) /\ outcome \in {"created", "lost"}
      BY <1>2 DEF Outcomes
    <2>2. Maker(<<sheet, k>>) = None
      BY <1>0, <2>1 DEF Taken, Maker
    <2>3. made' = [made EXCEPT ![sheet][k] = i]
      BY <1>2 DEF Create
    <2>4. made' \in [Sheets -> [Codes -> 0..MaxRows \cup {None}]]
      <3>1. [made[sheet] EXCEPT ![k] = i] \in [Codes -> 0..MaxRows \cup {None}]
        BY <1>0
      <3> QED BY <1>0, <2>3, <3>1
    <2>5. /\ Maker(<<sheet, k>>)' = i
          /\ \A x \in Cells : x # <<sheet, k>> => Maker(x)' = Maker(x)
      BY <1>0, <2>3 DEF Maker
    <2>6. outcome = "created" => lost' = lost
      BY DEF Create
    <2>7. outcome = "lost" => lost' = lost \cup {<<sheet, k>>}
      BY DEF Create
    <2>8. \A x \in Cells : x \in Told <=> Maker(x) \in 1..MaxRows /\ x \notin lost
      BY DEF Told, Maker, Cells
    <2>9. \A x \in Cells : x \in Told' <=> Maker(x)' \in 1..MaxRows /\ x \notin lost'
      BY DEF Told, Maker, Cells
    <2>10. Told \subseteq Cells /\ Told' \subseteq Cells
      BY DEF Told, Cells
    <2>11. <<sheet, k>> \notin lost
      BY <1>0, <2>2
    <2>12. lost' \subseteq {x \in Cells : Maker(x)' \in 1..MaxRows}
      BY <1>0, <2>1, <2>2, <2>5, <2>6, <2>7
    <2>13. outcome = "lost" => Told' = Told
      <3> SUFFICES ASSUME outcome = "lost", NEW x \in Cells
                   PROVE  x \in Told' <=> x \in Told
        BY <2>10
      <3>1. CASE x = <<sheet, k>>
        BY <1>0, <2>2, <2>7, <2>8, <2>9, <3>1
      <3>2. CASE x # <<sheet, k>>
        BY <2>5, <2>7, <2>8, <2>9, <3>2
      <3> QED BY <3>1, <3>2
    <2>14. outcome = "created" => <<sheet, k>> \notin Told /\ Told' = Told \cup {<<sheet, k>>}
      BY <1>0, <2>2, <2>5, <2>6, <2>8, <2>9, <2>10, <2>11
    <2> QED BY <1>0, <1>2, <2>1, <2>2, <2>4, <2>5, <2>6, <2>7, <2>12, <2>13, <2>14
  <1> QED BY <1>1, <1>2

\* One more record is told of.
LEMMA OneMoreTold ==
    ASSUME IsFiniteSet(Told), NEW z, z \notin Told, Told' = Told \cup {z}
    PROVE  /\ IsFiniteSet(Told') /\ Cardinality(Told) \in Nat
           /\ Cardinality(Told') = Cardinality(Told) + 1
  <1>1. Cardinality(Told \cup {z}) =
           IF z \in Told THEN Cardinality(Told) ELSE Cardinality(Told) + 1
    BY FS_AddElement
  <1>2. IsFiniteSet(Told \cup {z}) /\ Cardinality(Told) \in Nat
    BY FS_AddElement, FS_CardinalityType
  <1> QED BY <1>1, <1>2

\* The records are as they were, or one was made by row i and told of.
Unmade == made' = made /\ lost' = lost

MadeNow(i) ==
    \E z \in Cells :
        /\ lost' = lost
        /\ z \notin Told /\ Told' = Told \cup {z}
        /\ Maker(z) \notin 1..MaxRows /\ Maker(z)' = i
        /\ \A x \in Cells : x # z => Maker(x)' = Maker(x)

\* A creation that was not answered as made: nothing is told of, and nothing was made
\* unless the answer was an error.
NotTold == Told' = Told /\ (lost' = {} => Unmade)

\* The job goes on to the next row: its row was skipped, refused or made a record.
LEMMA RowEnds ==
    ASSUME ImportsInv, UNCHANGED <<serving, retryCall>>,
           job.pc \in {"row", "create"}, job.row \in DOMAIN job.file,
           made' \in [Sheets -> [Codes -> 0..MaxRows \cup {None}]],
           lost' \subseteq {x \in Cells : Maker(x)' \in 1..MaxRows},
           NEW after \in JobRecord, job' = after,
           after.file = job.file, after.kind = job.kind, after.pc = "row",
           after.row = job.row + 1, RowsSettled(after) = RowsSettled(job) + 1,
           \/ /\ NotTold /\ after.entry = job.entry /\ after.errors = job.errors
              /\ after.imported = job.imported /\ after.skipped = job.skipped + 1
           \/ /\ NotTold /\ after.entry = [job.entry EXCEPT ![job.row] = "pending"]
              /\ after.errors = job.errors + 1
              /\ after.imported = job.imported /\ after.skipped = job.skipped
           \/ /\ MadeNow(job.row) /\ after.entry = job.entry /\ after.errors = job.errors
              /\ after.imported = job.imported + 1 /\ after.skipped = job.skipped
    PROVE  ImportsInv'
  <1> DEFINE n == Len(job.file)
  <1>0. /\ job \in JobRecord /\ n \in Nat /\ Len(job.entry) = n /\ job.entry \in [1..n -> Entry]
        /\ DOMAIN job.file = 1..n /\ DOMAIN job.entry = 1..n /\ job.row \in 1..n /\ n <= MaxRows
        /\ job.kind # "none" /\ MaxRows \in Nat
        /\ job.imported \in Nat /\ job.skipped \in Nat /\ job.errors \in Nat /\ job.processed \in Nat
    <2>1. job.kind # "none"
      <3>1. NoJob.pc = "none"
        BY DEF NoJob
      <3> QED BY <3>1 DEF ImportsInv, ImportState
    <2>2. job \in JobRecord /\ Len(job.entry) = n /\ n <= MaxRows /\ MaxRows \in Nat
      BY ImportsAssumption DEF ImportsInv, ImportState
    <2>3. /\ job.file \in Seq(ParsedRow) /\ job.entry \in Seq(Entry)
          /\ job.imported \in Nat /\ job.skipped \in Nat /\ job.errors \in Nat /\ job.processed \in Nat
      BY <2>2 DEF JobRecord
    <2>4. n \in Nat /\ DOMAIN job.file = 1..n /\ job.entry \in [1..n -> Entry] /\ DOMAIN job.entry = 1..n
      BY ONLY <2>2, <2>3
    <2> QED BY <2>1, <2>2, <2>3, <2>4
  <1>5. n \in Nat /\ job.entry \in [1..n -> Entry] /\ DOMAIN job.entry = 1..n /\ job.row \in 1..n
    BY ONLY <1>0
  <1>1. after.entry \in [1..n -> Entry] /\ Len(after.entry) = n /\ DOMAIN after.entry = 1..n
    <2>1. /\ "pending" \in Entry
          /\ after.entry = job.entry \/ after.entry = [job.entry EXCEPT ![job.row] = "pending"]
      BY DEF Entry
    <2>2. after.entry \in [1..n -> Entry] /\ after.entry \in Seq(Entry)
      <3>1. after.entry \in [1..n -> Entry]
        BY ONLY <1>5, <2>1
      <3> QED BY ONLY <1>5, <3>1
    <2> QED BY ONLY <1>5, <2>2
  <1>2. ImportState'
    <2>1. Retrying' = Retrying
      BY DEF Retrying
    <2>2. /\ job' \in JobRecord /\ Len(job'.entry) = Len(job'.file) /\ Len(job'.file) <= MaxRows
          /\ job'.kind # "none" /\ job'.pc = "row" /\ DOMAIN job'.file = DOMAIN job.file
      BY <1>0, <1>1
    <2>3. /\ retryCall' \in [Calls -> RetryRecord]
          /\ \A c \in Retrying' : retryCall'[c].row \in DOMAIN job'.file /\ retryCall'[c].code \in Codes
      <3>1. /\ retryCall' = retryCall /\ retryCall \in [Calls -> RetryRecord]
            /\ \A c \in Retrying : retryCall[c].row \in DOMAIN job.file /\ retryCall[c].code \in Codes
        BY DEF ImportsInv, ImportState
      <3> QED BY ONLY <2>1, <2>2, <3>1
    <2> QED BY <2>2, <2>3 DEF ImportState
  <1>3. ASSUME serving = 1, CountsAddUp
        PROVE  CountsAddUp'
    <2>1. \A i \in 1..n : i >= job.row => job.entry[i] = "none"
      <3>1. \A i \in DOMAIN job.entry : job.entry[i] # "none" => i < job.row
        BY <1>3 DEF CountsAddUp
      <3> QED BY ONLY <1>5, <3>1
    <2>2. /\ IsFiniteSet(PendingRows(job.entry)) /\ Cardinality(PendingRows(job.entry)) \in Nat
          /\ after.entry = [job.entry EXCEPT ![job.row] = "pending"] =>
                Cardinality(PendingRows(after.entry)) = Cardinality(PendingRows(job.entry)) + 1
      <3>1. job.entry[job.row] # "pending"
        BY ONLY <1>5, <2>1
      <3> HIDE DEF n
      <3>2. IsFiniteSet(PendingRows(job.entry)) /\ Cardinality(PendingRows(job.entry)) \in Nat
        BY ONLY <1>5, PendingRowsFinite
      <3>3. after.entry = [job.entry EXCEPT ![job.row] = "pending"] =>
               Cardinality(PendingRows(after.entry)) = Cardinality(PendingRows(job.entry)) + 1
        BY ONLY <1>5, <3>1, RowIsListed
      <3> QED BY <3>2, <3>3
    <2>3. \A c \in Retrying' : after.entry[retryCall'[c].row] = "pending"
      <3>1. \A c \in Retrying : job.entry[retryCall[c].row] = "pending"
        BY <1>3 DEF CountsAddUp
      <3>2. \A c \in Retrying : retryCall[c].row \in DOMAIN job.file
        BY DEF ImportsInv, ImportState
      <3>3. \A c \in Retrying : retryCall[c].row \in 1..n
        BY ONLY <1>0, <3>2
      <3>4. Retrying' = Retrying /\ retryCall' = retryCall
        BY DEF Retrying
      <3>5. after.entry = job.entry \/ after.entry = [job.entry EXCEPT ![job.row] = "pending"]
        OBVIOUS
      <3> QED BY ONLY <1>5, <3>1, <3>3, <3>4, <3>5
    <2>4. \A i \in 1..n : after.entry[i] # "none" => i < job.row + 1
      <3>1. after.entry = job.entry \/ after.entry = [job.entry EXCEPT ![job.row] = "pending"]
        OBVIOUS
      <3> QED BY ONLY <1>5, <2>1, <3>1
    <2>5. /\ IsFiniteSet(Told) /\ Cardinality(Told) = job.imported
          /\ job.errors = Cardinality(PendingRows(job.entry))
          /\ RowsSettled(job) = job.imported + job.skipped + job.errors
      BY <1>3 DEF CountsAddUp
    <2>6. MadeNow(job.row) => IsFiniteSet(Told') /\ Cardinality(Told') = Cardinality(Told) + 1
      BY <2>5, OneMoreTold DEF MadeNow
    <2>7. IsFiniteSet(Told') /\ after.imported = Cardinality(Told')
      BY <2>5, <2>6 DEF NotTold
    <2>8. after.errors = Cardinality(PendingRows(after.entry))
      <3>1. \/ after.entry = job.entry /\ after.errors = job.errors
            \/ /\ after.entry = [job.entry EXCEPT ![job.row] = "pending"]
               /\ after.errors = job.errors + 1
        OBVIOUS
      <3> QED BY ONLY <2>2, <2>5, <3>1
    <2>9. RowsSettled(after) = after.imported + after.skipped + after.errors
      <3>1. RowsSettled(job) = job.imported + job.skipped + job.errors
        BY <2>5
      <3>2. \/ /\ after.imported = job.imported /\ after.skipped = job.skipped + 1
               /\ after.errors = job.errors
            \/ /\ after.imported = job.imported /\ after.skipped = job.skipped
               /\ after.errors = job.errors + 1
            \/ /\ after.imported = job.imported + 1 /\ after.skipped = job.skipped
               /\ after.errors = job.errors
        OBVIOUS
      <3>3. RowsSettled(after) = RowsSettled(job) + 1
        OBVIOUS
      <3>4. job.imported \in Nat /\ job.skipped \in Nat /\ job.errors \in Nat
        BY <1>0
      <3> QED BY ONLY <3>1, <3>2, <3>3, <3>4
    <2>10. /\ \A i \in DOMAIN after.entry : after.entry[i] # "none" => i < after.row
           /\ job' = after
      BY <1>1, <2>4
    <2> QED BY ONLY <2>3, <2>7, <2>8, <2>9, <2>10 DEF CountsAddUp, PendingRows, Told, Retrying, Maker
  <1>4. ASSUME serving = 1, lost' = {}, CountsAddUp, MakersDiffer, MadeAreSettled
        PROVE  MakersDiffer' /\ MadeAreSettled'
    <2>1. CASE Unmade
      <3>1. \A x \in Cells : Maker(x)' = Maker(x)
        BY <2>1 DEF Unmade, Maker
      <3>2. /\ after.entry = job.entry \/ after.entry = [job.entry EXCEPT ![job.row] = "pending"]
            /\ after.row = job.row + 1 /\ job.row \in Nat
        BY <1>0
      <3>3. MakersDiffer'
        BY <1>4, <3>1 DEF MakersDiffer
      <3>4. MadeAreSettled'
        <4> SUFFICES ASSUME NEW x \in Cells, Maker(x)' \in 1..MaxRows
                     PROVE  /\ Maker(x)' \in DOMAIN after.entry /\ Maker(x)' < after.row
                            /\ after.entry[Maker(x)'] # "pending"
          BY DEF MadeAreSettled
        <4>1. /\ Maker(x)' = Maker(x) /\ Maker(x) \in DOMAIN job.entry /\ Maker(x) < job.row
              /\ job.entry[Maker(x)] # "pending"
          BY <1>4, <3>1 DEF MadeAreSettled
        <4>2. Maker(x) \in Nat /\ DOMAIN after.entry = DOMAIN job.entry
          BY <1>0, <1>1, <4>1
        <4> QED BY ONLY <3>2, <4>1, <4>2
      <3> QED BY <3>3, <3>4
    <2>2. CASE MadeNow(job.row) /\ after.entry = job.entry
      <3>1. PICK z \in Cells : /\ Maker(z) \notin 1..MaxRows /\ Maker(z)' = job.row
                               /\ \A x \in Cells : x # z => Maker(x)' = Maker(x)
        BY <2>2 DEF MadeNow
      <3>2. job.entry[job.row] # "pending"
        <4>1. job.entry[job.row] # "none" => job.row < job.row
          BY <1>0, <1>4 DEF CountsAddUp
        <4>2. job.row \in Nat
          BY <1>0
        <4> QED BY <4>1, <4>2
      <3>3. \A x \in Cells : Maker(x) \in 1..MaxRows =>
               Maker(x) \in DOMAIN job.entry /\ Maker(x) < job.row /\ job.entry[Maker(x)] # "pending"
        BY <1>4 DEF MadeAreSettled
      <3>4. MadeAreSettled'
        <4> SUFFICES ASSUME NEW x \in Cells, Maker(x)' \in 1..MaxRows
                     PROVE  /\ Maker(x)' \in DOMAIN after.entry /\ Maker(x)' < after.row
                            /\ after.entry[Maker(x)'] # "pending"
          BY DEF MadeAreSettled
        <4>1. CASE x = z
          BY <1>0, <2>2, <3>1, <3>2, <4>1
        <4>2. CASE x # z
          BY <1>0, <2>2, <3>1, <3>3, <4>2
        <4> QED BY <4>1, <4>2
      <3>5. MakersDiffer'
        <4> SUFFICES ASSUME NEW x \in Cells, NEW y \in Cells, Maker(x)' \in 1..MaxRows,
                            Maker(x)' = Maker(y)'
                     PROVE  x = y
          BY DEF MakersDiffer
        <4>1. \A w \in Cells : w # z /\ Maker(w)' \in 1..MaxRows => Maker(w)' # job.row
          BY <1>0, <3>1, <3>3
        <4>2. CASE x = z \/ y = z
          BY <3>1, <4>1, <4>2
        <4>3. CASE x # z /\ y # z
          <5>1. Maker(x) = Maker(y) /\ Maker(x) \in 1..MaxRows
            BY <3>1, <4>3
          <5> QED BY <1>4, <5>1 DEF MakersDiffer
        <4> QED BY <4>2, <4>3
      <3> QED BY <3>4, <3>5
    <2> QED BY <1>4, <2>1, <2>2 DEF NotTold
  <1>6. job.pc # "dead" /\ serving' = serving /\ Retrying' = Retrying /\ job'.pc # "dead"
    BY DEF Retrying
  <1>7. serving = 1 /\ lost' = {} => lost = {}
    BY DEF NotTold, Unmade, MadeNow
  <1> QED BY <1>2, <1>3, <1>4, <1>6, <1>7 DEF ImportsInv

\* A retry leaves the job where it was, and tells of its row.
SameCourse(after) ==
    /\ after.file = job.file /\ after.kind = job.kind /\ after.kept = job.kept /\ after.pc = job.pc
    /\ after.row = job.row /\ after.sheet = job.sheet
    /\ RowsSettled(after) = RowsSettled(job) /\ after.skipped = job.skipped

RetryTells(i, after) ==
    \/ /\ NotTold /\ after.entry = [job.entry EXCEPT ![i] = "pending"]
       /\ after.errors = job.errors /\ after.imported = job.imported
    \/ /\ MadeNow(i) /\ after.entry = [job.entry EXCEPT ![i] = "resolved"]
       /\ after.errors = (IF job.errors > 0 THEN job.errors - 1 ELSE 0)
       /\ after.imported = job.imported + 1

\* A row that moves from the errors to the records made leaves the total as it was.
LEMMA OneFromErrorsToImported ==
    ASSUME NEW made0 \in Int, NEW skipped0 \in Int, NEW errors0 \in Int
    PROVE  made0 + skipped0 + errors0 = (made0 + 1) + skipped0 + (errors0 - 1)
  OBVIOUS

\* A retry is answered: its row stays listed as pending, or made a record.
LEMMA RetryEnds ==
    ASSUME ImportsInv, UNCHANGED serving,
           NEW c \in Retrying, retryCall' = [retryCall EXCEPT ![c] = NoRetry],
           made' \in [Sheets -> [Codes -> 0..MaxRows \cup {None}]],
           lost' \subseteq {x \in Cells : Maker(x)' \in 1..MaxRows},
           NEW i, i = retryCall[c].row,
           NEW after \in JobRecord, job' = after, SameCourse(after), RetryTells(i, after)
    PROVE  ImportsInv'
  <1> USE DEF SameCourse, RetryTells
  <1> DEFINE n == Len(job.file)
  <1>0. /\ job \in JobRecord /\ n \in Nat /\ Len(job.entry) = n /\ job.entry \in [1..n -> Entry]
        /\ DOMAIN job.file = 1..n /\ DOMAIN job.entry = 1..n /\ i \in 1..n /\ n <= MaxRows
        /\ job.kind # "none" /\ job.pc # "dead" /\ MaxRows \in Nat /\ c \in Calls
        /\ job.imported \in Nat /\ job.skipped \in Nat /\ job.errors \in Nat /\ job.processed \in Nat
        /\ retryCall \in [Calls -> RetryRecord] /\ NoRetry \in RetryRecord /\ NoRetry.pc = "idle"
    <2>1. i \in DOMAIN job.file
      BY DEF ImportsInv, ImportState
    <2>2. job.kind # "none" /\ job.pc # "dead"
      BY <2>1 DEF ImportsInv, ImportState, NoJob
    <2>3. NoRetry \in RetryRecord /\ NoRetry.pc = "idle"
      BY ImportsAssumption DEF NoRetry, RetryRecord
    <2> QED BY <2>1, <2>2, <2>3, ImportsAssumption DEF ImportsInv, ImportState, JobRecord, Retrying
  <1>1. /\ Retrying' = Retrying \ {c}
        /\ \A d \in Retrying' : retryCall'[d] = retryCall[d]
    BY <1>0 DEF Retrying
  <1>2. after.entry \in [1..n -> Entry] /\ Len(after.entry) = n /\ DOMAIN after.entry = 1..n
    BY <1>0 DEF Entry, JobRecord
  <1>3. ImportState'
    <2>1. retryCall' \in [Calls -> RetryRecord]
      BY <1>0
    <2>2. \A d \in Retrying' : retryCall'[d].row \in DOMAIN job.file /\ retryCall'[d].code \in Codes
      BY <1>1 DEF ImportsInv, ImportState
    <2> QED BY <1>0, <1>2, <2>1, <2>2 DEF ImportsInv, ImportState, TheRow
  <1>4. ASSUME serving = 1
        PROVE  CountsAddUp /\ Retrying' = {} /\ job.entry[i] = "pending"
    <2>1. CountsAddUp /\ Retrying = {c}
      BY <1>0, <1>4 DEF ImportsInv
    <2> QED BY <1>1, <2>1 DEF CountsAddUp
  <1>5. ASSUME serving = 1
        PROVE  CountsAddUp'
    <2>1. /\ IsFiniteSet(Told) /\ Cardinality(Told) = job.imported
          /\ job.errors = Cardinality(PendingRows(job.entry))
          /\ RowsSettled(job) = job.imported + job.skipped + job.errors
          /\ \A j \in DOMAIN job.entry : job.entry[j] # "none" => j < job.row
      BY <1>4, <1>5 DEF CountsAddUp
    <2>2. /\ IsFiniteSet(Told')
          /\ MadeNow(i) => Cardinality(Told') = Cardinality(Told) + 1
      BY <2>1, OneMoreTold DEF MadeNow, NotTold
    <2>3. \A j \in DOMAIN after.entry : after.entry[j] # "none" => j < after.row
      <3>1. /\ after.row = job.row /\ n \in Nat /\ job.entry \in [1..n -> Entry]
            /\ after.entry = [job.entry EXCEPT ![i] = "pending"]
               \/ after.entry = [job.entry EXCEPT ![i] = "resolved"]
        BY <1>0
      <3>2. job.entry[i] = "pending"
        BY <1>4, <1>5
      <3> QED BY ONLY <2>1, <3>1, <3>2
    <2>4. CASE NotTold /\ after.entry = [job.entry EXCEPT ![i] = "pending"]
               /\ after.errors = job.errors /\ after.imported = job.imported
      <3>1. after.entry = job.entry
        <4>1. job.entry[i] = "pending" /\ job.entry \in [1..n -> Entry]
          BY <1>0, <1>4, <1>5
        <4> QED BY ONLY <2>4, <4>1
      <3> QED BY <1>4, <1>5, <2>1, <2>2, <2>3, <2>4, <3>1 DEF CountsAddUp, NotTold
    <2>5. CASE /\ MadeNow(i) /\ after.entry = [job.entry EXCEPT ![i] = "resolved"]
               /\ after.errors = (IF job.errors > 0 THEN job.errors - 1 ELSE 0)
               /\ after.imported = job.imported + 1
      <3>1. /\ Cardinality(PendingRows(after.entry)) = Cardinality(PendingRows(job.entry)) - 1
            /\ Cardinality(PendingRows(job.entry)) > 0
        <4> HIDE DEF n
        <4>1. job.entry[i] = "pending" /\ after.entry = [job.entry EXCEPT ![i] = "resolved"]
          BY <1>4, <1>5, <2>5
        <4>2. n \in Nat /\ job.entry \in [1..n -> Entry] /\ i \in 1..n
          BY <1>0
        <4> QED BY ONLY <4>1, <4>2, RowIsResolved
      <3>2. job.errors > 0 /\ after.errors = job.errors - 1
        BY <2>1, <2>5, <3>1
      <3>3. after.errors = Cardinality(PendingRows(after.entry))
        BY <2>1, <3>1, <3>2
      <3>4. after.imported = Cardinality(Told')
        BY <2>1, <2>2, <2>5
      <3>5. RowsSettled(after) = after.imported + after.skipped + after.errors
        <4>1. RowsSettled(job) = job.imported + job.skipped + job.errors
          BY <2>1
        <4>2. /\ after.errors = job.errors - 1 /\ after.imported = job.imported + 1
              /\ after.skipped = job.skipped /\ RowsSettled(after) = RowsSettled(job)
          BY <2>5, <3>2
        <4>3. /\ job.imported \in Int /\ job.skipped \in Int /\ job.errors \in Int
          BY <1>0
        <4>4. job.imported + job.skipped + job.errors
                 = (job.imported + 1) + job.skipped + (job.errors - 1)
          BY ONLY <4>3, OneFromErrorsToImported
        <4> QED BY ONLY <4>1, <4>2, <4>4
      <3> QED BY <1>4, <1>5, <2>2, <2>3, <3>3, <3>4, <3>5 DEF CountsAddUp
    <2> QED BY <2>4, <2>5
  <1>6. ASSUME serving = 1, lost' = {}
        PROVE  MakersDiffer' /\ MadeAreSettled'
    <2>1. lost = {} /\ MakersDiffer /\ MadeAreSettled
      BY <1>0, <1>6 DEF ImportsInv, NotTold, Unmade, MadeNow
    <2>2. \A x \in Cells : Maker(x) \in 1..MaxRows =>
             /\ Maker(x) \in DOMAIN job.entry /\ Maker(x) < job.row /\ job.entry[Maker(x)] # "pending"
             /\ Maker(x) # i
      BY <1>4, <1>6, <2>1 DEF MadeAreSettled
    <2>3. i < job.row
      BY <1>0, <1>4, <1>6 DEF CountsAddUp
    <2>4. CASE Unmade /\ after.entry = [job.entry EXCEPT ![i] = "pending"]
      <3>1. \A x \in Cells : Maker(x)' = Maker(x)
        BY <2>4 DEF Unmade, Maker
      <3> QED BY <1>0, <2>1, <2>2, <2>4, <3>1 DEF MakersDiffer, MadeAreSettled
    <2>5. CASE MadeNow(i) /\ after.entry = [job.entry EXCEPT ![i] = "resolved"]
      <3>1. PICK z \in Cells : /\ Maker(z) \notin 1..MaxRows /\ Maker(z)' = i
                               /\ \A x \in Cells : x # z => Maker(x)' = Maker(x)
        BY <2>5 DEF MadeNow
      <3>2. MadeAreSettled'
        <4> SUFFICES ASSUME NEW x \in Cells, Maker(x)' \in 1..MaxRows
                     PROVE  /\ Maker(x)' \in DOMAIN after.entry /\ Maker(x)' < after.row
                            /\ after.entry[Maker(x)'] # "pending"
          BY DEF MadeAreSettled
        <4>1. CASE x = z
          BY <1>0, <1>2, <2>3, <2>5, <3>1, <4>1
        <4>2. CASE x # z
          BY <1>0, <1>2, <2>2, <2>5, <3>1, <4>2
        <4> QED BY <4>1, <4>2
      <3>3. MakersDiffer'
        <4> SUFFICES ASSUME NEW x \in Cells, NEW y \in Cells, Maker(x)' \in 1..MaxRows,
                            Maker(x)' = Maker(y)'
                     PROVE  x = y
          BY DEF MakersDiffer
        <4>1. \A w \in Cells : w # z /\ Maker(w)' \in 1..MaxRows => Maker(w)' # i
          BY <2>2, <3>1
        <4>2. CASE x = z \/ y = z
          BY <3>1, <4>1, <4>2
        <4>3. CASE x # z /\ y # z
          <5>1. Maker(x) = Maker(y) /\ Maker(x) \in 1..MaxRows
            BY <3>1, <4>3
          <5> QED BY <2>1, <5>1 DEF MakersDiffer
        <4> QED BY <4>2, <4>3
      <3> QED BY <3>2, <3>3
    <2> QED BY <1>6, <2>4, <2>5 DEF NotTold
  <1> QED BY <1>3, <1>4, <1>5, <1>6 DEF ImportsInv

\* What the file, its entries, the calls and the records are does not change.
LEMMA ImportGoesOn ==
    ASSUME ImportsInv, UNCHANGED <<serving, made, lost, retryCall>>,
           NEW after \in JobRecord, job' = after,
           after.file = job.file, after.kind = job.kind, after.kept = job.kept \/ ~after.kept,
           after.entry = job.entry, after.errors = job.errors, after.imported = job.imported,
           RowsSettled(after) = RowsSettled(job), after.skipped = job.skipped,
           after.row >= job.row, job.kind # "none", job.pc = "dead" <=> after.pc = "dead",
           after.pc = "none" => job.pc = "none",
           after.pc = "create" =>
              /\ after.row \in DOMAIN job.file /\ after.sheet \in Sheets
              /\ job.file[after.row].code \in Codes
    PROVE  ImportsInv'
  <1>1. Retrying' = Retrying /\ Told' = Told /\ \A x \in Cells : Maker(x)' = Maker(x)
    BY DEF Retrying, Told, Maker
  <1>2. ImportState'
    <2>1. /\ after.pc = "dead" => after.file = <<>> /\ ~after.kept
          /\ after.kind # "none" => after.pc # "none"
      BY DEF ImportsInv, ImportState
    <2>2. {x \in Cells : Maker(x)' \in 1..MaxRows} = {x \in Cells : Maker(x) \in 1..MaxRows}
      BY <1>1
    <2> QED BY <1>1, <2>1, <2>2 DEF ImportsInv, ImportState, TheRow
  <1>3. CountsAddUp => CountsAddUp'
    <2>1. \A i \in DOMAIN job.entry : i < job.row => i < after.row
      BY DEF ImportsInv, ImportState, JobRecord
    <2> QED BY <1>1, <2>1 DEF CountsAddUp
  <1>4. MakersDiffer => MakersDiffer'
    BY <1>1 DEF MakersDiffer
  <1>5. MadeAreSettled => MadeAreSettled'
    <2>1. \A i \in DOMAIN job.entry : i < job.row => i < after.row
      BY DEF ImportsInv, ImportState, JobRecord
    <2> QED BY <1>1, <2>1 DEF MadeAreSettled
  <1> QED BY <1>1, <1>2, <1>3, <1>4, <1>5 DEF ImportsInv

\* There is no job yet.
LEMMA ImportsInitInv == DeskInit /\ ImportsInit => ImportsInv
  <1> SUFFICES ASSUME ImportsInit PROVE ImportsInv
    OBVIOUS
  <1>1. NoJob \in JobRecord /\ NoJob.entry = <<>> /\ NoJob.file = <<>> /\ NoJob.pc = "none"
           /\ NoJob.errors = 0 /\ NoJob.imported = 0 /\ NoJob.skipped = 0 /\ NoJob.processed = 0
    BY DEF NoJob, JobRecord
  <1>2. Retrying = {} /\ retryCall \in [Calls -> RetryRecord]
    <2>1. NoRetry \in RetryRecord /\ NoRetry.pc = "idle"
      BY ImportsAssumption DEF NoRetry, RetryRecord
    <2> QED BY <2>1 DEF ImportsInit, Retrying
  <1>3. /\ made \in [Sheets -> [Codes -> 0..MaxRows \cup {None}]] /\ lost = {}
        /\ \A x \in Cells : Maker(x) \notin 1..MaxRows
    BY ImportsAssumption DEF ImportsInit, Maker, Cells
  <1>4. Told = {}
    BY <1>3 DEF Told, Maker, Cells
  <1>5. /\ job = NoJob /\ job \in JobRecord /\ job.kind = "none" /\ job.pc = "none" /\ Len(job.entry) = 0
        /\ Len(job.file) = 0 /\ DOMAIN job.entry = {} /\ job.errors = 0 /\ job.imported = 0
        /\ job.skipped = 0 /\ job.processed = 0
    <2>1. job = NoJob /\ NoJob.kind = "none"
      BY DEF ImportsInit, NoJob
    <2> QED BY <1>1, <2>1
  <1>6. ImportState
    BY <1>5, <1>2, <1>3, ImportsAssumption DEF ImportState
  <1>7. CountsAddUp
    <2>1. PendingRows(job.entry) = {}
      BY <1>5 DEF PendingRows
    <2>2. IsFiniteSet(Told) /\ Cardinality(Told) = 0 /\ Cardinality(PendingRows(job.entry)) = 0
      BY <1>4, <2>1, FS_EmptySet
    <2>3. RowsSettled(job) = 0
      BY <1>5 DEF RowsSettled, CountedAhead
    <2> QED BY <1>5, <1>2, <2>2, <2>3 DEF CountsAddUp
  <1> QED BY <1>2, <1>3, <1>6, <1>7 DEF ImportsInv, MakersDiffer, MadeAreSettled

\* A file has rows, and at most as many as a file may have.
LEMMA FileRows ==
    ASSUME NEW kind, NEW file \in Files(kind)
    PROVE  file \in Seq(ParsedRow) /\ Len(file) \in 1..MaxRows
  <1>1. PICK n \in 1..MaxRows : file \in [1..n -> ParsedRow]
    <2>1. ProductRows \subseteq ParsedRow /\ \A sheet : SheetRows(sheet) \subseteq ParsedRow
      BY DEF ProductRows, SheetRows, ParsedRow
    <2> QED BY <2>1 DEF Files
  <1> QED BY <1>1, ImportsAssumption

\* A job that has rows is one.
LEMMA RowsAreAJobs ==
    ASSUME ImportState, job.pc \in {"row", "create", "ended"} \/ job.file # <<>>
    PROVE  job.kind # "none"
  BY DEF ImportState, NoJob

\* The import starts: nothing is told of, and no row was looked at.
LEMMA StartKeepsImports ==
    ASSUME ImportsInv, UNCHANGED serving, NEW kind \in {"products", "full"}, StartImport(kind)
    PROVE  ImportsInv'
  <1>1. PICK file \in Files(kind) :
           job' = [NoJob EXCEPT !.kind = kind, !.file = file, !.status = "PROCESSING", !.kept = TRUE,
                                !.pc = "row", !.entry = [i \in DOMAIN file |-> "none"],
                                !.sheet = IF kind = "products" THEN "productos" ELSE None,
                                !.known = IF kind = "products" THEN Taken("productos") ELSE {}]
    BY DEF StartImport
  <1>2. file \in Seq(ParsedRow) /\ Len(file) \in 1..MaxRows /\ DOMAIN file = 1..Len(file) /\ Len(file) \in Nat
    BY <1>1, FileRows
  <1> DEFINE entry == [i \in DOMAIN file |-> "none"]
  <1>3. /\ entry \in Seq(Entry) /\ Len(entry) = Len(file) /\ DOMAIN entry = DOMAIN file
        /\ \A i \in DOMAIN entry : entry[i] = "none"
    BY <1>2 DEF Entry
  <1>4. /\ job = NoJob /\ UNCHANGED <<made, lost, retryCall>> /\ Taken("productos") \subseteq Codes
    BY DEF StartImport, ImportsInv, ImportState, Taken
  <1>5. /\ job' \in JobRecord /\ job'.kind = kind /\ job'.file = file /\ job'.pc = "row"
        /\ job'.entry = entry /\ job'.row = 1 /\ job'.errors = 0 /\ job'.imported = 0
        /\ job'.skipped = 0 /\ job'.processed = 0
    <2> HIDE DEF entry
    <2>1. job' = [kind |-> kind, file |-> file, status |-> "PROCESSING", kept |-> TRUE, pc |-> "row",
                  sheet |-> IF kind = "products" THEN "productos" ELSE None, row |-> 1, seen |-> {},
                  known |-> IF kind = "products" THEN Taken("productos") ELSE {}, entry |-> entry,
                  imported |-> 0, skipped |-> 0, errors |-> 0, processed |-> 0]
      BY <1>1 DEF NoJob, entry
    <2>2. "productos" \in Sheets
      BY DEF Sheets
    <2> QED BY <1>2, <1>3, <1>4, <2>1, <2>2 DEF JobRecord
  <1>6. Retrying = {} /\ Retrying' = {}
    <2>1. Retrying = {}
      BY <1>4 DEF ImportsInv, ImportState, NoJob
    <2> QED BY <1>4, <2>1 DEF Retrying
  <1>7. Told' = Told /\ \A x \in Cells : Maker(x)' = Maker(x)
    BY <1>4 DEF Told, Maker
  <1>8. ImportState'
    <2>1. {x \in Cells : Maker(x)' \in 1..MaxRows} = {x \in Cells : Maker(x) \in 1..MaxRows}
      BY <1>7
    <2>2. kind # "none"
      OBVIOUS
    <2> HIDE DEF entry
    <2> QED BY <1>2, <1>3, <1>4, <1>5, <1>6, <2>1, <2>2 DEF ImportsInv, ImportState
  <1>9. job.imported = 0 /\ job.pc # "dead" /\ DOMAIN job.entry = {}
    BY <1>4 DEF NoJob
  <1>10. CountsAddUp => CountsAddUp'
    <2> HIDE DEF entry
    <2>1. PendingRows(entry) = {}
      BY <1>3 DEF PendingRows
    <2>2. ASSUME CountsAddUp PROVE Told = {}
      BY <1>9, <2>2, FS_EmptySet DEF CountsAddUp
    <2>3. RowsSettled(job') = 0
      BY <1>5 DEF RowsSettled, CountedAhead
    <2> QED BY <1>3, <1>5, <1>6, <1>7, <2>1, <2>2, <2>3, FS_EmptySet DEF CountsAddUp
  <1>11. MakersDiffer /\ MadeAreSettled => MakersDiffer' /\ MadeAreSettled'
    BY <1>7, <1>9 DEF MakersDiffer, MadeAreSettled
  <1> QED BY <1>4, <1>6, <1>8, <1>9, <1>10, <1>11 DEF ImportsInv

\* The server restarts: there is nothing left to count.
LEMMA RestartKeepsImports ==
    ASSUME ImportsInv, UNCHANGED serving, Restart
    PROVE  ImportsInv'
  <1>1. /\ job' \in JobRecord /\ job'.pc = "dead" /\ job'.file = <<>> /\ job'.entry = <<>>
        /\ job'.kind # "none" /\ ~job'.kept
    <2>1. job' = [kind |-> job.kind, file |-> <<>>, status |-> "PARSING", kept |-> FALSE, pc |-> "dead",
                  sheet |-> None, row |-> 1, seen |-> {}, known |-> {}, entry |-> <<>>,
                  imported |-> 0, skipped |-> 0, errors |-> 0, processed |-> 0]
      BY DEF Restart, NoJob
    <2>2. job.kind \in {"none", "products", "full"} /\ job.kind # "none"
      BY DEF Restart, ImportsInv, ImportState, JobRecord
    <2> QED BY <2>1, <2>2 DEF JobRecord
  <1>2. Retrying' = {} /\ retryCall' \in [Calls -> RetryRecord]
    <2>1. NoRetry \in RetryRecord /\ NoRetry.pc = "idle"
      BY ImportsAssumption DEF NoRetry, RetryRecord
    <2> QED BY <2>1 DEF Restart, Retrying
  <1>3. made' = made /\ lost' = lost /\ \A x \in Cells : Maker(x)' = Maker(x)
    BY DEF Restart, Maker
  <1>4. ImportState'
    <2>1. {x \in Cells : Maker(x)' \in 1..MaxRows} = {x \in Cells : Maker(x) \in 1..MaxRows}
      BY <1>3
    <2> QED BY <1>1, <1>2, <1>3, <2>1, ImportsAssumption DEF ImportsInv, ImportState
  <1> QED BY <1>1, <1>2, <1>3, <1>4 DEF ImportsInv, MakersDiffer

\* Someone else's record is no row's.
LEMMA SomeoneKeepsImports ==
    ASSUME ImportsInv, UNCHANGED serving, NEW sheet \in Sheets, NEW k \in Codes, SomeoneCreates(sheet, k)
    PROVE  ImportsInv'
  <1>1. UNCHANGED <<job, lost, retryCall>> /\ made' = [made EXCEPT ![sheet][k] = 0]
           /\ made[sheet][k] = None
    BY DEF SomeoneCreates, Someone
  <1>2. made \in [Sheets -> [Codes -> 0..MaxRows \cup {None}]] /\ MaxRows \in Nat /\ None \notin Nat
    BY ImportsAssumption DEF ImportsInv, ImportState
  <1>3. made' \in [Sheets -> [Codes -> 0..MaxRows \cup {None}]]
    <2>1. [made[sheet] EXCEPT ![k] = 0] \in [Codes -> 0..MaxRows \cup {None}]
      BY <1>2
    <2> QED BY <1>1, <1>2, <2>1
  <1>4. \A x \in Cells :
           /\ (Maker(x)' \in 1..MaxRows <=> Maker(x) \in 1..MaxRows)
           /\ Maker(x) \in 1..MaxRows => Maker(x)' = Maker(x)
    BY <1>1, <1>2 DEF Maker, Cells
  <1>5. Told' = Told
    <2>1. /\ \A x \in Cells : x \in Told <=> Maker(x) \in 1..MaxRows /\ x \notin lost
          /\ \A x \in Cells : x \in Told' <=> Maker(x)' \in 1..MaxRows /\ x \notin lost'
          /\ Told \subseteq Cells /\ Told' \subseteq Cells
      BY DEF Told, Maker, Cells
    <2> QED BY <1>1, <1>4, <2>1
  <1>6. Retrying' = Retrying
    BY <1>1 DEF Retrying
  <1>7. ImportState'
    BY <1>1, <1>3, <1>4, <1>6 DEF ImportsInv, ImportState, TheRow
  <1>8. CountsAddUp => CountsAddUp'
    BY <1>1, <1>5, <1>6 DEF CountsAddUp
  <1>9. MakersDiffer => MakersDiffer'
    BY <1>4 DEF MakersDiffer
  <1>10. MadeAreSettled => MadeAreSettled'
    BY <1>1, <1>4 DEF MadeAreSettled
  <1> QED BY <1>1, <1>6, <1>7, <1>8, <1>9, <1>10 DEF ImportsInv

\* Nothing is made.
LEMMA NothingMade ==
    ASSUME ImportState, UNCHANGED <<made, lost>>
    PROVE  /\ made' \in [Sheets -> [Codes -> 0..MaxRows \cup {None}]]
           /\ lost' \subseteq {x \in Cells : Maker(x)' \in 1..MaxRows}
           /\ NotTold
  <1>1. Told' = Told /\ \A x \in Cells : Maker(x)' = Maker(x)
    BY DEF Told, Maker
  <1>2. {x \in Cells : Maker(x)' \in 1..MaxRows} = {x \in Cells : Maker(x) \in 1..MaxRows}
    BY <1>1
  <1> QED BY <1>1, <1>2 DEF ImportState, NotTold, Unmade

\* A row at work is a row of the file, of a sheet the job has opened.
LEMMA RowAtWork ==
    ASSUME ImportsInv, AtARow \/ job.pc = "create"
    PROVE  /\ job \in JobRecord /\ job.row \in DOMAIN job.file /\ TheRow \in ParsedRow /\ job.sheet \in Sheets
           /\ job.row \in 1..MaxRows /\ job.kind # "none"
           /\ job.pc = "create" => TheRow.code \in Codes
           /\ UNCHANGED <<made, lost>> =>
                 /\ made' \in [Sheets -> [Codes -> 0..MaxRows \cup {None}]]
                 /\ lost' \subseteq {x \in Cells : Maker(x)' \in 1..MaxRows}
                 /\ NotTold
  <1>1. job \in JobRecord /\ job.row \in DOMAIN job.file
    BY DEF ImportsInv, ImportState, JobRecord, AtARow
  <1>2. TheRow \in ParsedRow
    BY <1>1 DEF TheRow, JobRecord
  <1>3. job.sheet \in Sheets
    BY <1>2 DEF AtARow, ParsedRow, FileRow, ImportsInv, ImportState
  <1>4. job.row \in 1..MaxRows /\ job.kind # "none"
    BY <1>1, ImportsAssumption, RowsAreAJobs DEF AtARow, ImportsInv, ImportState, JobRecord
  <1>5. job.pc = "create" => TheRow.code \in Codes
    BY DEF ImportsInv, ImportState
  <1>6. UNCHANGED <<made, lost>> =>
           /\ made' \in [Sheets -> [Codes -> 0..MaxRows \cup {None}]]
           /\ lost' \subseteq {x \in Cells : Maker(x)' \in 1..MaxRows}
           /\ NotTold
    BY NothingMade DEF ImportsInv
  <1> QED BY <1>1, <1>2, <1>3, <1>4, <1>5, <1>6

\* A row's end moves the job on, and its counts stay.
RowEnded(j, after) ==
    /\ after \in JobRecord /\ after.pc = "row"
    /\ after.row = j.row + 1 /\ RowsSettled(after) = RowsSettled(j) + 1
    /\ after.file = j.file /\ after.kind = j.kind /\ after.entry = j.entry
    /\ after.errors = j.errors /\ after.imported = j.imported /\ after.skipped = j.skipped

LEMMA RowEndFields ==
    ASSUME NEW j \in JobRecord, NEW after, after = EndRow(j)
    PROVE  RowEnded(j, after)
  <1>1. PICK processed \in Nat : processed = j.processed + 1 - CountedAhead(j)
    BY DEF JobRecord, CountedAhead
  <1>2. after = [j EXCEPT !.processed = processed, !.row = j.row + 1, !.pc = "row"]
    <2>1. after = [j EXCEPT !.processed = j.processed + 1 - CountedAhead(j), !.row = j.row + 1, !.pc = "row"]
      BY DEF EndRow, JobRecord
    <2> QED BY ONLY <1>1, <2>1
  <1>3. after \in JobRecord
    <2>1. PICK row \in Nat \ {0} : row = j.row + 1
      BY DEF JobRecord
    <2>2. after = [j EXCEPT !.processed = processed, !.row = row, !.pc = "row"]
      BY ONLY <1>2, <2>1
    <2>3. j \in JobRecord
      OBVIOUS
    <2> QED BY ONLY <2>2, <2>3 DEF JobRecord
  <1>4. after.processed = processed /\ after.pc = "row"
    BY <1>2 DEF JobRecord
  <1>5. CountedAhead(after) = 0 /\ CountedAhead(j) \in Nat /\ j.processed \in Nat
    BY <1>4 DEF CountedAhead, JobRecord
  <1>6. RowsSettled(after) = RowsSettled(j) + 1
    BY <1>1, <1>4, <1>5 DEF RowsSettled
  <1> QED BY <1>2, <1>3, <1>6 DEF JobRecord, RowEnded

\* What skipping a row, listing it and making its record change of the job.
CountFields(j) ==
    /\ j \in JobRecord
    /\ j.row = job.row /\ RowsSettled(j) = RowsSettled(job) /\ j.file = job.file /\ j.kind = job.kind

\* A row that is empty.
LEMMA SkipFields ==
    ASSUME job \in JobRecord, NEW j, j = [job EXCEPT !.skipped = @ + 1]
    PROVE  /\ CountFields(j) /\ j.entry = job.entry
           /\ j.errors = job.errors /\ j.imported = job.imported /\ j.skipped = job.skipped + 1
  <1>1. job.skipped + 1 \in Nat
    BY DEF JobRecord
  <1>2. j \in JobRecord
    BY <1>1 DEF JobRecord
  <1> QED BY <1>2 DEF JobRecord, CountFields, RowsSettled, CountedAhead

\* A row that is refused, or whose creation failed.
LEMMA ErrorFields ==
    ASSUME job \in JobRecord, job.row \in DOMAIN job.file, Len(job.entry) = Len(job.file),
           NEW j, j = AddError(job)
    PROVE  /\ CountFields(j) /\ j.entry = [job.entry EXCEPT ![job.row] = "pending"]
           /\ j.errors = job.errors + 1 /\ j.imported = job.imported /\ j.skipped = job.skipped
  <1>1. [job.entry EXCEPT ![job.row] = "pending"] \in Seq(Entry)
    <2>1. job.entry \in [1..Len(job.entry) -> Entry] /\ Len(job.entry) \in Nat /\ "pending" \in Entry
      BY DEF JobRecord, Entry
    <2> QED BY <2>1
  <1>2. job.errors + 1 \in Nat
    BY DEF JobRecord
  <1>3. j = [job EXCEPT !.errors = job.errors + 1, !.entry = [job.entry EXCEPT ![job.row] = "pending"]]
    BY DEF AddError, JobRecord
  <1>4. j \in JobRecord
    BY <1>1, <1>2, <1>3 DEF JobRecord
  <1> QED BY <1>3, <1>4 DEF JobRecord, CountFields, RowsSettled, CountedAhead

\* A record that was made.
LEMMA MadeFields ==
    ASSUME job \in JobRecord, NEW k \in Codes, NEW j, j = [job EXCEPT !.imported = @ + 1, !.known = @ \cup {k}]
    PROVE  /\ CountFields(j) /\ j.entry = job.entry
           /\ j.errors = job.errors /\ j.imported = job.imported + 1 /\ j.skipped = job.skipped
  <1>1. job.imported + 1 \in Nat /\ job.known \cup {k} \subseteq Codes
    BY DEF JobRecord
  <1>2. j \in JobRecord
    BY <1>1 DEF JobRecord
  <1> QED BY <1>2 DEF JobRecord, CountFields, RowsSettled, CountedAhead

\* A retry that failed.
LEMMA PendFields ==
    ASSUME job \in JobRecord, NEW i \in DOMAIN job.file, Len(job.entry) = Len(job.file),
           NEW j, j = Pending(i)
    PROVE  /\ CountFields(j) /\ j.kept = job.kept /\ j.pc = job.pc /\ j.sheet = job.sheet
           /\ j.entry = [job.entry EXCEPT ![i] = "pending"]
           /\ j.errors = job.errors /\ j.imported = job.imported /\ j.skipped = job.skipped
  <1>1. [job.entry EXCEPT ![i] = "pending"] \in Seq(Entry)
    <2>1. job.entry \in [1..Len(job.entry) -> Entry] /\ Len(job.entry) \in Nat /\ "pending" \in Entry
      BY DEF JobRecord, Entry
    <2> QED BY <2>1
  <1>3. j = [job EXCEPT !.entry = [job.entry EXCEPT ![i] = "pending"]]
    BY DEF Pending, JobRecord
  <1>4. j \in JobRecord
    BY <1>1, <1>3 DEF JobRecord
  <1> QED BY <1>3, <1>4 DEF JobRecord, CountFields, RowsSettled, CountedAhead

\* A retry that made its record.
LEMMA ResolveFields ==
    ASSUME job \in JobRecord, NEW i \in DOMAIN job.file, NEW k \in Codes, Len(job.entry) = Len(job.file),
           NEW j, j = Resolve(job, i, k)
    PROVE  /\ CountFields(j) /\ j.kept = job.kept /\ j.pc = job.pc /\ j.sheet = job.sheet
           /\ j.entry = [job.entry EXCEPT ![i] = "resolved"]
           /\ j.errors = (IF job.errors > 0 THEN job.errors - 1 ELSE 0)
           /\ j.imported = job.imported + 1 /\ j.skipped = job.skipped
  <1> DEFINE known == IF job.kind = "products" THEN job.known \cup {k} ELSE job.known
             errors == IF job.errors > 0 THEN job.errors - 1 ELSE 0
             entry == [job.entry EXCEPT ![i] = "resolved"]
  <1>1. entry \in Seq(Entry)
    <2>1. job.entry \in [1..Len(job.entry) -> Entry] /\ Len(job.entry) \in Nat /\ "resolved" \in Entry
      BY DEF JobRecord, Entry
    <2> QED BY <2>1
  <1>2. job.imported + 1 \in Nat /\ known \subseteq Codes /\ errors \in Nat
    BY DEF JobRecord
  <1>3. j = [job EXCEPT !.imported = job.imported + 1, !.errors = errors, !.known = known, !.entry = entry]
    BY DEF Resolve, JobRecord
  <1> HIDE DEF entry, known, errors
  <1>4. j \in JobRecord
    <2>1. job \in JobRecord
      OBVIOUS
    <2> QED BY ONLY <1>1, <1>2, <1>3, <2>1 DEF JobRecord
  <1> QED BY <1>3, <1>4 DEF JobRecord, CountFields, entry, errors, RowsSettled, CountedAhead

\* What a step of the job that ends no row and starts no file leaves alone.
SameCounts(after) ==
    /\ after \in JobRecord /\ after.file = job.file /\ after.kind = job.kind
    /\ after.entry = job.entry /\ after.errors = job.errors /\ after.imported = job.imported
    /\ RowsSettled(after) = RowsSettled(job) /\ after.skipped = job.skipped

\* The import ends, or fails.
LEMMA EndFields ==
    ASSUME job \in JobRecord, job.pc = "row", NEW status \in {"COMPLETED", "FAILED"},
           NEW after, after = [job EXCEPT !.status = status, !.pc = "ended"]
    PROVE  SameCounts(after) /\ after.kept = job.kept /\ after.row = job.row /\ after.pc = "ended"
  BY DEF JobRecord, SameCounts, RowsSettled, CountedAhead

\* A sheet is opened.
LEMMA OpenFields ==
    ASSUME job \in JobRecord, NEW sheet \in Sheets, NEW known \in SUBSET Codes,
           NEW after, after = [job EXCEPT !.sheet = sheet, !.known = known, !.seen = {}]
    PROVE  SameCounts(after) /\ after.kept = job.kept /\ after.row = job.row /\ after.pc = job.pc
  <1>1. after \in JobRecord
    BY DEF JobRecord
  <1> QED BY <1>1 DEF JobRecord, SameCounts, RowsSettled, CountedAhead

\* A sheet is passed over.
LEMMA PassFields ==
    ASSUME job \in JobRecord, NEW row \in Nat \ {0}, NEW after, after = [job EXCEPT !.row = row]
    PROVE  SameCounts(after) /\ after.kept = job.kept /\ after.row = row /\ after.pc = job.pc
  <1>1. after \in JobRecord
    BY DEF JobRecord
  <1> QED BY <1>1 DEF JobRecord, SameCounts, RowsSettled, CountedAhead

\* A row is begun.
LEMMA BeginFields ==
    ASSUME job \in JobRecord, job.pc = "row", NEW k \in Codes,
           NEW after, after = [job EXCEPT !.seen = @ \cup {k}, !.pc = "create",
                                          !.processed = IF job.kind = "full" THEN @ + 1 ELSE @]
    PROVE  /\ SameCounts(after) /\ after.kept = job.kept /\ after.row = job.row
           /\ after.sheet = job.sheet /\ after.pc = "create" /\ after.status = job.status
  <1>1. PICK processed \in Nat : processed = IF job.kind = "full" THEN job.processed + 1 ELSE job.processed
    BY DEF JobRecord
  <1>2. after = [job EXCEPT !.seen = job.seen \cup {k}, !.pc = "create", !.processed = processed]
    <2>1. after = [job EXCEPT !.seen = job.seen \cup {k}, !.pc = "create",
                              !.processed = IF job.kind = "full" THEN job.processed + 1 ELSE job.processed]
      BY DEF JobRecord
    <2> QED BY ONLY <1>1, <2>1
  <1>3. after \in JobRecord
    <2>1. PICK seen \in SUBSET Codes : seen = job.seen \cup {k}
      BY DEF JobRecord
    <2>2. after = [job EXCEPT !.seen = seen, !.pc = "create", !.processed = processed]
      BY ONLY <1>2, <2>1
    <2>3. job \in JobRecord
      OBVIOUS
    <2> QED BY ONLY <2>2, <2>3 DEF JobRecord
  <1>4. after.processed = processed /\ after.pc = "create" /\ after.kind = job.kind
    BY <1>2 DEF JobRecord
  <1>5. RowsSettled(after) = RowsSettled(job)
    BY <1>1, <1>4 DEF RowsSettled, CountedAhead, JobRecord
  <1> QED BY <1>2, <1>3, <1>5 DEF JobRecord, SameCounts

\* The job is forgotten.
LEMMA ForgetFields ==
    ASSUME job \in JobRecord, NEW after, after = [job EXCEPT !.kept = FALSE]
    PROVE  /\ SameCounts(after) /\ ~after.kept /\ after.row = job.row
           /\ after.sheet = job.sheet /\ after.pc = job.pc
  <1>1. after \in JobRecord
    BY DEF JobRecord
  <1> QED BY <1>1 DEF JobRecord, SameCounts, RowsSettled, CountedAhead

\* A creation is made and told of, or it is not told of.
LEMMA CreateIs ==
    ASSUME ImportState, NEW sheet \in Sheets, NEW k \in Codes, NEW i \in 1..MaxRows,
           NEW outcome \in Outcomes(sheet, k), Create(sheet, k, i, outcome)
    PROVE  /\ made' \in [Sheets -> [Codes -> 0..MaxRows \cup {None}]]
           /\ lost' \subseteq {x \in Cells : Maker(x)' \in 1..MaxRows}
           /\ outcome = "created" => MadeNow(i)
           /\ outcome # "created" => NotTold
  <1>1. /\ made' \in [Sheets -> [Codes -> 0..MaxRows \cup {None}]]
        /\ lost' \subseteq {x \in Cells : Maker(x)' \in 1..MaxRows}
        /\ outcome \in {"refused", "created", "lost"}
        /\ outcome = "refused" => made' = made /\ lost' = lost
        /\ outcome # "refused" =>
              /\ Maker(<<sheet, k>>) \notin 1..MaxRows /\ Maker(<<sheet, k>>)' = i
              /\ \A x \in Cells : x # <<sheet, k>> => Maker(x)' = Maker(x)
        /\ outcome = "created" => lost' = lost
        /\ outcome = "lost" => lost' # {}
        /\ outcome # "created" => Told' = Told
        /\ outcome = "created" => <<sheet, k>> \notin Told /\ Told' = Told \cup {<<sheet, k>>}
    BY CreateMakes
  <1>2. <<sheet, k>> \in Cells
    BY DEF Cells
  <1>3. ASSUME outcome = "created" PROVE MadeNow(i)
    BY <1>1, <1>2, <1>3 DEF MadeNow
  <1>4. ASSUME outcome # "created" PROVE NotTold
    BY <1>1, <1>4 DEF NotTold, Unmade
  <1> QED BY <1>1, <1>3, <1>4

\* The page learns something, or nothing happens.
LEMMA CallsKeepImports ==
    ASSUME ImportsInv, UNCHANGED <<serving, job, made, lost, retryCall>>
    PROVE  ImportsInv'
  <1>1. Retrying' = Retrying /\ Told' = Told /\ \A x \in Cells : Maker(x)' = Maker(x)
    BY DEF Retrying, Told, Maker
  <1>2. {x \in Cells : Maker(x)' \in 1..MaxRows} = {x \in Cells : Maker(x) \in 1..MaxRows}
    BY <1>1
  <1>3. ImportState'
    BY <1>1, <1>2 DEF ImportsInv, ImportState, TheRow
  <1>4. CountsAddUp => CountsAddUp'
    BY <1>1 DEF CountsAddUp
  <1>5. (MakersDiffer => MakersDiffer') /\ (MadeAreSettled => MadeAreSettled')
    BY <1>1 DEF MakersDiffer, MadeAreSettled
  <1> QED BY <1>1, <1>3, <1>4, <1>5 DEF ImportsInv

\* A retry is made of a row that is listed as pending.
LEMMA RetryKeepsImports ==
    ASSUME ImportsInv, UNCHANGED <<serving, job, made, lost>>, NEW c \in Calls,
           NEW i \in 1..MaxRows, NEW k \in Codes \cup {None}, Retry(c, i, k), retryCall' # retryCall
    PROVE  ImportsInv'
  <1> DEFINE new == [pc |-> "check", row |-> i, code |-> k]
  <1>1. /\ Admitted(retryCall, c) /\ i \in DOMAIN job.file /\ job.entry[i] = "pending" /\ k \in Codes
        /\ retryCall' = [retryCall EXCEPT ![c] = new]
    BY DEF Retry, Retryable
  <1>2. /\ retryCall \in [Calls -> RetryRecord] /\ new \in RetryRecord /\ new.pc = "check"
        /\ new.row = i /\ new.code = k
    BY ImportsAssumption DEF ImportsInv, ImportState, RetryRecord
  <1> HIDE DEF new
  <1>3. /\ Retrying' = Retrying \cup {c} /\ retryCall'[c] = new
        /\ \A d \in Calls : d # c => retryCall'[d] = retryCall[d]
        /\ c \notin Retrying
    BY <1>1, <1>2 DEF Retrying, Admitted
  <1>4. Told' = Told /\ \A x \in Cells : Maker(x)' = Maker(x)
    BY DEF Told, Maker
  <1>5. ImportState'
    <2>1. {x \in Cells : Maker(x)' \in 1..MaxRows} = {x \in Cells : Maker(x) \in 1..MaxRows}
      BY <1>4
    <2>2. retryCall' \in [Calls -> RetryRecord]
      BY <1>1, <1>2
    <2>3. \A d \in Retrying' : retryCall'[d].row \in DOMAIN job.file /\ retryCall'[d].code \in Codes
      <3>1. \A d \in Retrying : d \in Calls /\ retryCall[d].row \in DOMAIN job.file /\ retryCall[d].code \in Codes
        BY DEF ImportsInv, ImportState, Retrying
      <3> QED BY <1>1, <1>2, <1>3, <3>1
    <2> QED BY <2>1, <2>2, <2>3 DEF ImportsInv, ImportState, TheRow
  <1>6. serving = 1 => Retrying = {}
    BY <1>1, <1>2, RetryAlone
  <1>7. serving = 1 /\ CountsAddUp => CountsAddUp'
    BY <1>1, <1>2, <1>3, <1>4, <1>6 DEF CountsAddUp
  <1>8. (MakersDiffer => MakersDiffer') /\ (MadeAreSettled => MadeAreSettled')
    BY <1>4 DEF MakersDiffer, MadeAreSettled
  <1> QED BY <1>3, <1>5, <1>6, <1>7, <1>8 DEF ImportsInv

\* A retry finds its key in the table, or goes on.
LEMMA CheckKeepsImports ==
    ASSUME ImportsInv, UNCHANGED serving, NEW c \in Calls, CheckRetry(c)
    PROVE  ImportsInv'
  <1>0. PICK i : i = retryCall[c].row
    OBVIOUS
  <1>1. /\ c \in Retrying /\ retryCall[c].pc = "check" /\ UNCHANGED <<made, lost>>
        /\ retryCall \in [Calls -> RetryRecord]
    BY DEF CheckRetry, Retrying, ImportsInv, ImportState
  <1>2. /\ job \in JobRecord /\ Len(job.entry) = Len(job.file) /\ i \in DOMAIN job.file
    BY <1>0, <1>1 DEF ImportsInv, ImportState
  <1>3. CASE retryCall[c].code \in Taken(job.file[i].sheet)
    <2>1. job' = Pending(i) /\ retryCall' = [retryCall EXCEPT ![c] = NoRetry]
      BY <1>0, <1>3 DEF CheckRetry, AnswerRetry
    <2>2. /\ CountFields(job') /\ job'.kept = job.kept /\ job'.pc = job.pc /\ job'.sheet = job.sheet
          /\ job'.entry = [job.entry EXCEPT ![i] = "pending"]
          /\ job'.errors = job.errors /\ job'.imported = job.imported /\ job'.skipped = job.skipped
      BY <1>2, <2>1, PendFields
    <2>3. /\ made' \in [Sheets -> [Codes -> 0..MaxRows \cup {None}]]
          /\ lost' \subseteq {x \in Cells : Maker(x)' \in 1..MaxRows}
          /\ NotTold
      <3>1. ImportState
        BY DEF ImportsInv
      <3>2. UNCHANGED <<made, lost>>
        BY <1>1
      <3> QED BY <3>1, <3>2, NothingMade
    <2>4. c \in Retrying
      BY <1>1
    <2>5. job' \in JobRecord /\ SameCourse(job')
      BY <2>2 DEF CountFields, SameCourse
    <2>6. retryCall' = [retryCall EXCEPT ![c] = NoRetry]
      BY <2>1
    <2>7. RetryTells(i, job')
      BY <2>2, <2>3 DEF RetryTells
    <2>8. /\ made' \in [Sheets -> [Codes -> 0..MaxRows \cup {None}]]
          /\ lost' \subseteq {x \in Cells : Maker(x)' \in 1..MaxRows}
      BY <2>3
    <2> QED BY ONLY ImportsInv, serving' = serving, <1>0, <2>4, <2>5, <2>6, <2>7, <2>8, RetryEnds
  <1>4. CASE retryCall[c].code \notin Taken(job.file[i].sheet)
    <2> DEFINE new == [retryCall[c] EXCEPT !.pc = "create"]
    <2>1. retryCall' = [retryCall EXCEPT ![c] = new] /\ job' = job
      BY <1>0, <1>4 DEF CheckRetry
    <2>2. new \in RetryRecord /\ new.pc = "create" /\ new.row = i /\ new.code = retryCall[c].code
      BY <1>0, <1>1 DEF RetryRecord
    <2> HIDE DEF new
    <2>3. /\ retryCall' \in [Calls -> RetryRecord]
          /\ \A d \in Calls : /\ retryCall'[d].row = retryCall[d].row
                              /\ retryCall'[d].code = retryCall[d].code
                              /\ retryCall'[d].pc # "idle" <=> retryCall[d].pc # "idle"
      BY <1>0, <1>1, <2>1, <2>2
    <2>4. Retrying' = Retrying /\ Told' = Told /\ \A x \in Cells : Maker(x)' = Maker(x)
      BY <1>1, <2>3 DEF Retrying, Told, Maker
    <2>5. {x \in Cells : Maker(x)' \in 1..MaxRows} = {x \in Cells : Maker(x) \in 1..MaxRows}
      BY <2>4
    <2>6. \A d \in Retrying : d \in Calls
      BY DEF Retrying
    <2>7. ImportState'
      BY <1>1, <2>1, <2>3, <2>4, <2>5, <2>6 DEF ImportsInv, ImportState, TheRow
    <2>8. CountsAddUp => CountsAddUp'
      BY <2>1, <2>3, <2>4, <2>6 DEF CountsAddUp
    <2>9. (MakersDiffer => MakersDiffer') /\ (MadeAreSettled => MadeAreSettled')
      BY <2>1, <2>4 DEF MakersDiffer, MadeAreSettled
    <2> QED BY <1>1, <2>1, <2>4, <2>7, <2>8, <2>9 DEF ImportsInv
  <1> QED BY <1>3, <1>4

\* A retry makes its record, or does not.
LEMMA FinishKeepsImports ==
    ASSUME ImportsInv, UNCHANGED serving, NEW c \in Calls, FinishRetry(c)
    PROVE  ImportsInv'
  <1> DEFINE i == retryCall[c].row
             k == retryCall[c].code
  <1>1. /\ c \in Retrying /\ retryCall[c].pc = "create"
        /\ retryCall \in [Calls -> RetryRecord]
    BY DEF FinishRetry, Retrying, ImportsInv, ImportState
  <1>2. /\ job \in JobRecord /\ Len(job.entry) = Len(job.file) /\ i \in DOMAIN job.file /\ k \in Codes
        /\ i \in 1..MaxRows /\ job.file[i].sheet \in Sheets
    <2>1. /\ job \in JobRecord /\ Len(job.entry) = Len(job.file) /\ i \in DOMAIN job.file /\ k \in Codes
          /\ Len(job.file) <= MaxRows
      BY <1>1 DEF ImportsInv, ImportState
    <2>2. job.file \in Seq(ParsedRow)
      BY <2>1 DEF JobRecord
    <2>3. i \in 1..MaxRows /\ job.file[i] \in ParsedRow
      BY <2>1, <2>2, ImportsAssumption
    <2> QED BY <2>1, <2>3 DEF ParsedRow, FileRow
  <1>3. PICK outcome \in Outcomes(job.file[i].sheet, k) :
           /\ Create(job.file[i].sheet, k, i, outcome)
           /\ job' = IF outcome = "created" THEN Resolve(job, i, k) ELSE Pending(i)
    BY DEF FinishRetry, AnswerRetry
  <1>4. retryCall' = [retryCall EXCEPT ![c] = NoRetry]
    BY DEF FinishRetry, AnswerRetry
  <1>5. /\ made' \in [Sheets -> [Codes -> 0..MaxRows \cup {None}]]
        /\ lost' \subseteq {x \in Cells : Maker(x)' \in 1..MaxRows}
        /\ outcome = "created" => MadeNow(i)
        /\ outcome # "created" => NotTold
    BY <1>2, <1>3, CreateIs DEF ImportsInv
  <1>6. CASE outcome = "created"
    <2>1. /\ CountFields(job') /\ job'.kept = job.kept /\ job'.pc = job.pc /\ job'.sheet = job.sheet
          /\ job'.entry = [job.entry EXCEPT ![i] = "resolved"]
          /\ job'.errors = (IF job.errors > 0 THEN job.errors - 1 ELSE 0)
          /\ job'.imported = job.imported + 1 /\ job'.skipped = job.skipped
      BY <1>2, <1>3, <1>6, ResolveFields
    <2>2. job' \in JobRecord /\ SameCourse(job') /\ RetryTells(i, job')
      BY <1>5, <1>6, <2>1 DEF CountFields, SameCourse, RetryTells
    <2> QED BY <1>1, <1>4, <1>5, <2>2, RetryEnds
  <1>7. CASE outcome # "created"
    <2>1. /\ CountFields(job') /\ job'.kept = job.kept /\ job'.pc = job.pc /\ job'.sheet = job.sheet
          /\ job'.entry = [job.entry EXCEPT ![i] = "pending"]
          /\ job'.errors = job.errors /\ job'.imported = job.imported /\ job'.skipped = job.skipped
      BY <1>2, <1>3, <1>7, PendFields
    <2>2. job' \in JobRecord /\ SameCourse(job') /\ RetryTells(i, job')
      BY <1>5, <1>7, <2>1 DEF CountFields, SameCourse, RetryTells
    <2> QED BY <1>1, <1>4, <1>5, <2>2, RetryEnds
  <1> QED BY <1>6, <1>7

\* Every step keeps it.
LEMMA ImportsNextInv ==
    ImportsInv /\ [ImportsNext /\ UNCHANGED serving]_<<serving, importsVars>> => ImportsInv'
  <1> SUFFICES ASSUME ImportsInv,
                      [ImportsNext /\ UNCHANGED serving]_<<serving, importsVars>>
               PROVE  ImportsInv'
    OBVIOUS
  <1>0. serving' = serving /\ job \in JobRecord /\ Len(job.entry) = Len(job.file) /\ MaxRows \in Nat
    BY ImportsAssumption DEF importsVars, ImportsInv, ImportState
  <1>1. ASSUME NEW kind \in {"products", "full"}, StartImport(kind)
        PROVE  ImportsInv'
    BY <1>0, <1>1, StartKeepsImports
  <1>2. CASE OpenSheet
    <2>1. /\ UNCHANGED <<serving, made, lost, retryCall>> /\ job.pc = "row" /\ job.kind # "none"
          /\ TheRow \in ParsedRow /\ Taken(TheRow.sheet) \in SUBSET Codes
      <3>1. job.row \in DOMAIN job.file
        BY <1>0, <1>2 DEF OpenSheet, JobRecord
      <3>2. job.kind # "none"
        BY <1>2, RowsAreAJobs DEF OpenSheet, ImportsInv
      <3> QED BY <1>0, <1>2, <3>1, <3>2 DEF OpenSheet, TheRow, JobRecord, Taken
    <2>2. TheRow.sheet \in Sheets /\ job.row \in Nat \ {0}
      BY <1>0, <2>1 DEF ParsedRow, FileRow, JobRecord
    <2>3. SameCounts(job') /\ job'.kept = job.kept /\ job'.row >= job.row /\ job'.pc \in {"row", "ended"}
      <3> DEFINE opened == job' = [job EXCEPT !.sheet = TheRow.sheet, !.known = Taken(TheRow.sheet),
                                              !.seen = {}]
                 passed == job' = [job EXCEPT !.row = job.row + FirstAfter(TheRow.sheet)]
                 failed == job' = [job EXCEPT !.status = "FAILED", !.pc = "ended"]
      <3>1. CASE opened
        <4>1. SameCounts(job') /\ job'.kept = job.kept /\ job'.row = job.row /\ job'.pc = job.pc
          BY <1>0, <2>1, <2>2, <3>1, OpenFields
        <4> QED BY <2>1, <2>2, <4>1
      <3>2. CASE passed
        <4>1. FirstAfter(TheRow.sheet) \in Nat
          <5>1. IsFiniteSet(1..Len(job.file)) /\ DOMAIN job.file = 1..Len(job.file)
            BY <1>0, FS_Interval DEF JobRecord
          <5>2. IsFiniteSet({i \in DOMAIN job.file : job.file[i].sheet = TheRow.sheet})
            BY <5>1, FS_Subset
          <5> QED BY <5>2, FS_CardinalityType DEF FirstAfter
        <4>2. PICK row \in Nat \ {0} : row = job.row + FirstAfter(TheRow.sheet) /\ row >= job.row
          BY <2>2, <4>1
        <4>3. SameCounts(job') /\ job'.kept = job.kept /\ job'.row = row /\ job'.pc = job.pc
          BY <1>0, <3>2, <4>2, PassFields
        <4> QED BY <2>1, <4>2, <4>3
      <3>3. CASE failed
        <4>1. SameCounts(job') /\ job'.kept = job.kept /\ job'.row = job.row /\ job'.pc = "ended"
          BY <1>0, <1>2, <3>3, EndFields DEF OpenSheet
        <4> QED BY <2>2, <4>1
      <3>4. opened \/ passed \/ failed
        BY <1>2 DEF OpenSheet
      <3> HIDE DEF opened, passed, failed
      <3> QED BY ONLY <3>1, <3>2, <3>3, <3>4
    <2> QED BY <2>1, <2>3, ImportGoesOn DEF SameCounts
  <1>3. CASE SkipRow
    <2>1. AtARow /\ UNCHANGED <<serving, made, lost, retryCall>> /\ job.pc = "row"
      BY <1>0, <1>3 DEF SkipRow, AtARow
    <2>2. PICK j : j = [job EXCEPT !.skipped = @ + 1] /\ job' = EndRow(j)
      BY <1>3 DEF SkipRow
    <2>3. /\ CountFields(j) /\ j.entry = job.entry
          /\ j.errors = job.errors /\ j.imported = job.imported /\ j.skipped = job.skipped + 1
      BY <1>0, <2>2, SkipFields
    <2>4. RowEnded(j, job')
      BY ONLY <2>2, <2>3, RowEndFields DEF CountFields
    <2>5. /\ job.row \in DOMAIN job.file /\ NotTold
          /\ made' \in [Sheets -> [Codes -> 0..MaxRows \cup {None}]]
          /\ lost' \subseteq {x \in Cells : Maker(x)' \in 1..MaxRows}
      BY <2>1, RowAtWork
    <2> QED BY <2>1, <2>3, <2>4, <2>5, RowEnds DEF CountFields, RowEnded
  <1>4. CASE RefuseRow
    <2>1. AtARow /\ UNCHANGED <<serving, made, lost, retryCall>> /\ job.pc = "row"
      BY <1>0, <1>4 DEF RefuseRow, AtARow
    <2>2. PICK j : j = AddError(job) /\ job' = EndRow(j)
      BY <1>4 DEF RefuseRow
    <2>3. /\ job.row \in DOMAIN job.file /\ NotTold
          /\ made' \in [Sheets -> [Codes -> 0..MaxRows \cup {None}]]
          /\ lost' \subseteq {x \in Cells : Maker(x)' \in 1..MaxRows}
      BY <2>1, RowAtWork
    <2>4. /\ CountFields(j) /\ j.entry = [job.entry EXCEPT ![job.row] = "pending"]
          /\ j.errors = job.errors + 1 /\ j.imported = job.imported /\ j.skipped = job.skipped
      BY <1>0, <2>2, <2>3, ErrorFields
    <2>5. RowEnded(j, job')
      BY ONLY <2>2, <2>4, RowEndFields DEF CountFields
    <2> QED BY <2>1, <2>3, <2>4, <2>5, RowEnds DEF CountFields, RowEnded
  <1>5. CASE BeginRow
    <2>1. /\ AtARow /\ UNCHANGED <<serving, made, lost, retryCall>> /\ job.pc = "row"
          /\ TheRow.form = "good"
          /\ job' = [job EXCEPT !.seen = @ \cup {TheRow.code}, !.pc = "create",
                                !.processed = IF job.kind = "full" THEN @ + 1 ELSE @]
      BY <1>0, <1>5 DEF BeginRow, AtARow
    <2>2. job.row \in DOMAIN job.file /\ TheRow \in ParsedRow /\ job.sheet \in Sheets /\ job.kind # "none"
      BY <2>1, RowAtWork
    <2>3. TheRow.code \in Codes
      BY <2>1, <2>2 DEF ParsedRow, FileRow
    <2>4. /\ SameCounts(job') /\ job'.kept = job.kept /\ job'.row = job.row
          /\ job'.sheet = job.sheet /\ job'.pc = "create"
      <3>1. PICK k \in Codes : k = TheRow.code
        BY <2>3
      <3>2. job' = [job EXCEPT !.seen = @ \cup {k}, !.pc = "create",
                               !.processed = IF job.kind = "full" THEN @ + 1 ELSE @]
        BY <2>1, <3>1
      <3> QED BY <1>0, <2>1, <3>2, BeginFields
    <2>5. job.row >= job.row
      BY <1>0 DEF JobRecord
    <2> QED BY <2>1, <2>2, <2>3, <2>4, <2>5, ImportGoesOn DEF TheRow, SameCounts
  <1>6. CASE FinishRow
    <2>1. PICK outcome \in Outcomes(job.sheet, TheRow.code) :
             /\ Create(job.sheet, TheRow.code, job.row, outcome)
             /\ job' = IF outcome = "created"
                       THEN EndRow([job EXCEPT !.imported = @ + 1, !.known = @ \cup {TheRow.code}])
                       ELSE EndRow(AddError(job))
      BY <1>6 DEF FinishRow
    <2>2. job.pc = "create" /\ UNCHANGED <<serving, retryCall>>
      BY <1>0, <1>6 DEF FinishRow
    <2>3. /\ job.row \in DOMAIN job.file /\ job.sheet \in Sheets /\ TheRow.code \in Codes
          /\ job.row \in 1..MaxRows
      BY <2>2, RowAtWork
    <2>4. /\ made' \in [Sheets -> [Codes -> 0..MaxRows \cup {None}]]
          /\ lost' \subseteq {x \in Cells : Maker(x)' \in 1..MaxRows}
          /\ outcome = "created" => MadeNow(job.row)
          /\ outcome # "created" => NotTold
      BY <2>1, <2>3, CreateIs DEF ImportsInv
    <2>5. CASE outcome = "created"
      <3>1. PICK j : j = [job EXCEPT !.imported = @ + 1, !.known = @ \cup {TheRow.code}] /\ job' = EndRow(j)
        BY <2>1, <2>5
      <3>2. /\ CountFields(j) /\ j.entry = job.entry
            /\ j.errors = job.errors /\ j.imported = job.imported + 1 /\ j.skipped = job.skipped
        <4>1. PICK k \in Codes : k = TheRow.code
          BY <2>3
        <4>2. job \in JobRecord /\ j = [job EXCEPT !.imported = @ + 1, !.known = @ \cup {k}]
          BY <1>0, <3>1, <4>1
        <4> QED BY ONLY <4>2, MadeFields
      <3>3. RowEnded(j, job')
        BY ONLY <3>1, <3>2, RowEndFields DEF CountFields
      <3> QED BY <2>2, <2>3, <2>4, <2>5, <3>2, <3>3, RowEnds DEF CountFields, RowEnded
    <2>6. CASE outcome # "created"
      <3>1. PICK j : j = AddError(job) /\ job' = EndRow(j)
        BY <2>1, <2>6
      <3>2. /\ CountFields(j) /\ j.entry = [job.entry EXCEPT ![job.row] = "pending"]
            /\ j.errors = job.errors + 1 /\ j.imported = job.imported /\ j.skipped = job.skipped
        BY <1>0, <2>3, <3>1, ErrorFields
      <3>3. RowEnded(j, job')
        BY ONLY <3>1, <3>2, RowEndFields DEF CountFields
      <3> QED BY <2>2, <2>3, <2>4, <2>6, <3>2, <3>3, RowEnds DEF CountFields, RowEnded
    <2> QED BY <2>5, <2>6
  <1>7. CASE CompleteImport
    <2>1. /\ UNCHANGED <<serving, made, lost, retryCall>> /\ job.pc = "row" /\ job.kind # "none"
          /\ job' = [job EXCEPT !.status = "COMPLETED", !.pc = "ended"]
      BY <1>0, <1>7, RowsAreAJobs DEF CompleteImport, ImportsInv
    <2>2. SameCounts(job') /\ job'.kept = job.kept /\ job'.row = job.row /\ job'.pc = "ended"
      BY <1>0, <2>1, EndFields
    <2>3. job.row >= job.row
      BY <1>0 DEF JobRecord
    <2> QED BY <2>1, <2>2, <2>3, ImportGoesOn DEF SameCounts
  <1>8. CASE Cleanup
    <2>1. /\ UNCHANGED <<serving, made, lost, retryCall>> /\ job' = [job EXCEPT !.kept = FALSE]
          /\ job.kept
      BY <1>0, <1>8 DEF Cleanup
    <2>2. job.kind # "none"
      <3>1. ~NoJob.kept
        BY DEF NoJob
      <3> QED BY <2>1, <3>1 DEF ImportsInv, ImportState
    <2>3. /\ SameCounts(job') /\ ~job'.kept /\ job'.row = job.row
          /\ job'.sheet = job.sheet /\ job'.pc = job.pc
      BY <1>0, <2>1, ForgetFields
    <2>4. job.row >= job.row
      BY <1>0 DEF JobRecord
    <2>5. job.pc = "create" =>
             job.row \in DOMAIN job.file /\ job.sheet \in Sheets /\ job.file[job.row].code \in Codes
      BY DEF ImportsInv, ImportState, TheRow
    <2> QED BY <2>1, <2>2, <2>3, <2>4, <2>5, ImportGoesOn DEF SameCounts
  <1>9. ASSUME NEW c \in Calls, NEW i \in 1..MaxRows, NEW k \in Codes \cup {None}, Retry(c, i, k)
        PROVE  ImportsInv'
    BY <1>0, <1>9, RetryKeepsImports, CallsKeepImports DEF Retry
  <1>10. ASSUME NEW c \in Calls, CheckRetry(c)
         PROVE  ImportsInv'
    BY <1>0, <1>10, CheckKeepsImports
  <1>11. ASSUME NEW c \in Calls, FinishRetry(c)
         PROVE  ImportsInv'
    BY <1>0, <1>11, FinishKeepsImports
  <1>12. CASE FirstPoll \/ Poll
    BY <1>0, <1>12, CallsKeepImports DEF FirstPoll, Poll
  <1>13. CASE Restart
    BY <1>0, <1>13, RestartKeepsImports
  <1>14. ASSUME NEW sheet \in Sheets, NEW k \in Codes, SomeoneCreates(sheet, k)
         PROVE  ImportsInv'
    BY <1>0, <1>14, SomeoneKeepsImports
  <1>15. CASE UNCHANGED <<serving, importsVars>>
    BY <1>15, CallsKeepImports DEF importsVars
  <1> QED BY <1>1, <1>2, <1>3, <1>4, <1>5, <1>6, <1>7, <1>8, <1>9, <1>10, <1>11, <1>12, <1>13, <1>14, <1>15
          DEF ImportsNext, ImportsWork

\* A step of the browser is a step of the imports, or leaves them alone.
LEMMA ImportsStep ==
    [BrowserNext]_browserVars => [ImportsNext /\ UNCHANGED serving]_<<serving, importsVars>>
  BY DEF BrowserNext, browserVars

\* ReportTellsTheRows for any file, any keys and any number of calls: with one retry at
\* a time, whatever fails and whoever else writes, the counts of an import are those of
\* its list and of the records made (imports.service.ts, retryImportRow and addError).
THEOREM ImportReportsItsRows == BrowserSpec => []ReportTellsTheRows
  <1>1. BrowserInit => ImportsInv
    BY ImportsInitInv DEF BrowserInit
  <1>2. ImportsInv /\ [BrowserNext]_browserVars => ImportsInv'
    BY ImportsStep, ImportsNextInv
  <1>3. ImportsInv => ReportTellsTheRows
    <2> SUFFICES ASSUME ImportsInv, serving = 1, job.pc # "dead"
                 PROVE  /\ job.errors = Cardinality({i \in DOMAIN job.entry : job.entry[i] = "pending"})
                        /\ job.imported = Cardinality(Told)
                        /\ job.processed = job.imported + job.skipped + job.errors + CountedAhead(job)
      BY DEF ReportTellsTheRows
    <2>1. CountsAddUp
      BY DEF ImportsInv
    <2>2. /\ job.processed \in Nat /\ job.imported \in Nat /\ job.skipped \in Nat /\ job.errors \in Nat
          /\ CountedAhead(job) \in Nat
      BY DEF ImportsInv, ImportState, JobRecord, CountedAhead
    <2> QED BY <2>1, <2>2 DEF CountsAddUp, PendingRows, RowsSettled
  <1> QED BY <1>1, <1>2, <1>3, PTL DEF BrowserSpec

\* RowsAreMadeOnce likewise: no row makes two records, however often it is retried.
THEOREM ImportMakesRowsOnce == BrowserSpec => []RowsAreMadeOnce
  <1>1. BrowserInit => ImportsInv
    BY ImportsInitInv DEF BrowserInit
  <1>2. ImportsInv /\ [BrowserNext]_browserVars => ImportsInv'
    BY ImportsStep, ImportsNextInv
  <1>3. ImportsInv => RowsAreMadeOnce
    <2> SUFFICES ASSUME ImportsInv, serving = 1, lost = {}, NEW i \in 1..MaxRows
                 PROVE  Cardinality({x \in Sheets \X Codes : made[x[1]][x[2]] = i}) <= 1
      BY DEF RowsAreMadeOnce
    <2> DEFINE mine == {x \in Sheets \X Codes : made[x[1]][x[2]] = i}
    <2>1. \A x, y \in mine : x = y
      BY DEF ImportsInv, MakersDiffer, Maker, Cells
    <2> HIDE DEF mine
    <2>2. mine = {} \/ \E x \in mine : mine = {x}
      BY <2>1
    <2>3. Cardinality(mine) = 0 \/ Cardinality(mine) = 1
      BY <2>2, FS_EmptySet, FS_Singleton
    <2> QED BY <2>3 DEF mine
  <1> QED BY <1>1, <1>2, <1>3, PTL DEF BrowserSpec
-----------------------------------------------------------------------------
(* The point of sale *)

\* The units of each line, of each paused sale, and of the requests at one point.
QtyOf(lines) == [p \in DOMAIN lines |-> lines[p].qty]

UnitsOf(sales) == [lines \in sales |-> Units(lines)]

CallUnits(h) == [c \in Calls |-> Units(h[c].lines)]

UnitsAt(h, pc) == SumFunctionOnSet(CallUnits(h), {c \in Calls : h[c].pc = pc})

\* The page's folds are sums.
LEMMA UnitsAreASum ==
    ASSUME NEW lines
    PROVE  Units(lines) = SumFunctionOnSet(QtyOf(lines), DOMAIN lines)
  <1> DEFINE S == DOMAIN lines
             f == QtyOf(lines)
             One(iter, s) == IF s = {} THEN 0
                             ELSE LET x == CHOOSE x \in s : TRUE IN lines[x].qty + iter[s \ {x}]
             F == CHOOSE iter : iter = [s \in SUBSET S |-> One(iter, s)]
  <1>1. Units(lines) = F[S]
    BY DEF Units, FoldFunction, FoldFunctionOnSet, MapThenFoldSet
  <1>2. ASSUME NEW iter
        PROVE  (iter = [s \in SUBSET S |-> One(iter, s)]) <=> IsFold(f, S, iter)
    <2>1. \A s \in SUBSET S : One(iter, s) = Folded(f, iter, s)
      <3> SUFFICES ASSUME NEW s \in SUBSET S PROVE One(iter, s) = Folded(f, iter, s)
        OBVIOUS
      <3>1. s # {} => (CHOOSE x \in s : TRUE) \in S
        OBVIOUS
      <3> QED BY <3>1 DEF Folded, QtyOf
    <2> HIDE DEF One
    <2>2. [s \in SUBSET S |-> One(iter, s)] = [s \in SUBSET S |-> Folded(f, iter, s)]
      BY <2>1
    <2> QED BY <2>2 DEF IsFold
  <1>3. F = Fold(f, S)
    <2> HIDE DEF One, f, S
    <2> QED BY <1>2 DEF Fold
  <1> QED BY <1>1, <1>3, SumIsFold

\* So are the paused sales.
LEMMA PausedUnitsAreASum ==
    ASSUME NEW sales
    PROVE  FoldSet(LAMBDA lines, sum : Units(lines) + sum, 0, sales) = SumFunctionOnSet(UnitsOf(sales), sales)
  <1> DEFINE f == UnitsOf(sales)
             One(iter, s) == IF s = {} THEN 0
                             ELSE LET x == CHOOSE x \in s : TRUE IN Units(x) + iter[s \ {x}]
             F == CHOOSE iter : iter = [s \in SUBSET sales |-> One(iter, s)]
  <1>1. FoldSet(LAMBDA lines, sum : Units(lines) + sum, 0, sales) = F[sales]
    BY DEF FoldSet, MapThenFoldSet
  <1>2. ASSUME NEW iter
        PROVE  (iter = [s \in SUBSET sales |-> One(iter, s)]) <=> IsFold(f, sales, iter)
    <2>1. \A s \in SUBSET sales : One(iter, s) = Folded(f, iter, s)
      <3> SUFFICES ASSUME NEW s \in SUBSET sales PROVE One(iter, s) = Folded(f, iter, s)
        OBVIOUS
      <3>1. s # {} => (CHOOSE x \in s : TRUE) \in sales
        OBVIOUS
      <3> QED BY <3>1 DEF Folded, UnitsOf
    <2> HIDE DEF One
    <2>2. [s \in SUBSET sales |-> One(iter, s)] = [s \in SUBSET sales |-> Folded(f, iter, s)]
      BY <2>1
    <2> QED BY <2>2 DEF IsFold
  <1>3. F = Fold(f, sales)
    <2> HIDE DEF One, f
    <2> QED BY <1>2 DEF Fold
  <1> QED BY <1>1, <1>3, SumIsFold

\* So are the sales that are being resumed.
LEMMA ResumingIsASum == Resuming = UnitsAt(handler, "fetch")
  <1> DEFINE S == {c \in Calls : handler[c].pc = "fetch"}
             f == CallUnits(handler)
             One(iter, s) == IF s = {} THEN 0
                             ELSE LET x == CHOOSE x \in s : TRUE IN Units(handler[x].lines) + iter[s \ {x}]
             F == CHOOSE iter : iter = [s \in SUBSET S |-> One(iter, s)]
  <1>1. Resuming = F[S]
    BY DEF Resuming, FoldSet, MapThenFoldSet
  <1>2. ASSUME NEW iter
        PROVE  (iter = [s \in SUBSET S |-> One(iter, s)]) <=> IsFold(f, S, iter)
    <2>1. \A s \in SUBSET S : One(iter, s) = Folded(f, iter, s)
      <3> SUFFICES ASSUME NEW s \in SUBSET S PROVE One(iter, s) = Folded(f, iter, s)
        OBVIOUS
      <3>1. s # {} => (CHOOSE x \in s : TRUE) \in S
        OBVIOUS
      <3> QED BY <3>1 DEF Folded, CallUnits
    <2> HIDE DEF One
    <2>2. [s \in SUBSET S |-> One(iter, s)] = [s \in SUBSET S |-> Folded(f, iter, s)]
      BY <2>1
    <2> QED BY <2>2 DEF IsFold
  <1>3. F = Fold(f, S)
    <2> HIDE DEF One, f, S
    <2> QED BY <1>2 DEF Fold
  <1> QED BY <1>1, <1>3, SumIsFold DEF UnitsAt

\* What a checkout comes to, charged at one price or another.
AmountsAt(lines, unit) == [p \in DOMAIN lines |-> unit[p] * lines[p].qty - lines[p].off]

\* The page's total and the server's are sums of such amounts.
LEMMA TotalsAreSums ==
    ASSUME NEW lines
    PROVE  /\ Total(lines, LAMBDA p : lines[p].unit) =
                SumFunctionOnSet(AmountsAt(lines, [p \in DOMAIN lines |-> lines[p].unit]), DOMAIN lines)
           /\ Total(lines, LAMBDA p : Charged(p, lines[p])) =
                SumFunctionOnSet(AmountsAt(lines, [p \in DOMAIN lines |-> Charged(p, lines[p])]), DOMAIN lines)
  <1>1. [p \in DOMAIN lines |-> lines[p].unit * lines[p].qty - lines[p].off]
           = AmountsAt(lines, [p \in DOMAIN lines |-> lines[p].unit])
    BY DEF AmountsAt
  <1>2. [p \in DOMAIN lines |-> Charged(p, lines[p]) * lines[p].qty - lines[p].off]
           = AmountsAt(lines, [p \in DOMAIN lines |-> Charged(p, lines[p])])
    BY DEF AmountsAt
  <1>3. Total(lines, LAMBDA p : lines[p].unit) =
          SumFunctionOnSet([p \in DOMAIN lines |-> lines[p].unit * lines[p].qty - lines[p].off], DOMAIN lines)
    BY DEF Total, SumFunctionOnSet, FoldFunctionOnSet, MapThenFoldSet
  <1>4. Total(lines, LAMBDA p : Charged(p, lines[p])) =
          SumFunctionOnSet([p \in DOMAIN lines |-> Charged(p, lines[p]) * lines[p].qty - lines[p].off], DOMAIN lines)
    BY DEF Total, SumFunctionOnSet, FoldFunctionOnSet, MapThenFoldSet
  <1> QED BY <1>1, <1>2, <1>3, <1>4

LineRecord ==
    [qty : Nat, seen : Prices, unit : Prices, off : Nat, percent : BOOLEAN, avail : Nat]

\* A line of units there can be.
OnAShelf(line) == line.qty <= MaxStock /\ line.avail <= MaxStock

\* A cart has finitely many lines, none of which is discounted by more than it comes to.
Carts ==
    {lines \in UNION {[S -> LineRecord] : S \in SUBSET Products} :
        /\ IsFiniteSet(DOMAIN lines)
        /\ \A p \in DOMAIN lines : lines[p].off <= lines[p].unit * lines[p].qty
        /\ \A p \in DOMAIN lines : OnAShelf(lines[p])}

\* A cart, line by line.
LEMMA CartIs ==
    ASSUME NEW lines
    PROVE  lines \in Carts <=>
              /\ lines \in [DOMAIN lines -> LineRecord] /\ DOMAIN lines \subseteq Products
              /\ IsFiniteSet(DOMAIN lines)
              /\ \A p \in DOMAIN lines : lines[p].off <= lines[p].unit * lines[p].qty
              /\ \A p \in DOMAIN lines : OnAShelf(lines[p])
  BY DEF Carts

\* The lesser of two numbers.
LEMMA MinOfTwo ==
    ASSUME NEW a \in Nat, NEW b \in Nat
    PROVE  Min({a, b}) \in {a, b} /\ Min({a, b}) <= a /\ Min({a, b}) <= b
  <1>1. \E x \in {a, b} : \A y \in {a, b} : x =< y
    <2>1. CASE a <= b
      BY <2>1
    <2>2. CASE ~(a <= b)
      BY <2>2
    <2> QED BY <2>1, <2>2
  <1> QED BY <1>1 DEF Min

\* A discount is at most what its line comes to.
LEMMA DiscountFits ==
    ASSUME NEW line \in LineRecord, NEW unit \in Prices, NEW qty \in Nat
    PROVE  Discount(line, unit, qty) \in Nat /\ Discount(line, unit, qty) <= unit * qty
  <1>1. unit \in Nat /\ line.off \in Nat
    BY CounterAssumption DEF LineRecord
  <1>2. PICK gross \in Nat : gross = unit * qty
    BY <1>1
  <1>3. Min({line.off, gross}) \in Nat /\ Min({line.off, gross}) <= gross
    BY <1>1, MinOfTwo
  <1>4. gross \div 2 \in Nat /\ gross \div 2 <= gross
    OBVIOUS
  <1> QED BY <1>2, <1>3, <1>4 DEF Discount

\* A line that changes in place.
LEMMA LineInPlace ==
    ASSUME NEW lines \in Carts, NEW p \in DOMAIN lines, NEW line \in LineRecord,
           line.off <= line.unit * line.qty, OnAShelf(line)
    PROVE  [lines EXCEPT ![p] = line] \in Carts
  <1> DEFINE after == [lines EXCEPT ![p] = line]
  <1>1. /\ lines \in [DOMAIN lines -> LineRecord] /\ DOMAIN lines \subseteq Products
        /\ IsFiniteSet(DOMAIN lines)
        /\ \A q \in DOMAIN lines : lines[q].off <= lines[q].unit * lines[q].qty
        /\ \A q \in DOMAIN lines : OnAShelf(lines[q])
    BY CartIs
  <1>2. /\ DOMAIN after = DOMAIN lines /\ after[p] = line
        /\ \A q \in DOMAIN lines : q # p => after[q] = lines[q]
    OBVIOUS
  <1>3. after \in [DOMAIN lines -> LineRecord]
    BY <1>1
  <1> HIDE DEF after
  <1>4. \A q \in DOMAIN after : after[q].off <= after[q].unit * after[q].qty
    BY <1>1, <1>2
  <1>5. \A q \in DOMAIN after : OnAShelf(after[q])
    BY <1>1, <1>2
  <1>6. after \in Carts
    BY <1>1, <1>2, <1>3, <1>4, <1>5, CartIs
  <1> QED BY <1>6 DEF after

\* The fields of a line that is written again.
LEMMA LineFields ==
    ASSUME NEW line \in LineRecord, NEW qty \in Nat, NEW unit \in Prices, NEW off \in Nat,
           NEW percent \in BOOLEAN, NEW new,
           new = [line EXCEPT !.qty = qty, !.unit = unit, !.off = off, !.percent = percent]
    PROVE  /\ new \in LineRecord
           /\ new.qty = qty /\ new.unit = unit /\ new.off = off
  BY DEF LineRecord

\* One more unit of a product.
LEMMA OneMoreIsACart ==
    ASSUME NEW lines \in Carts, NEW p \in Products, NEW product \in Product
    PROVE  WithOneMore(lines, p, product) \in Carts
  <1>0. /\ product.price \in Prices /\ product.price \in Nat /\ product.stock \in Nat
        /\ product.stock <= MaxStock
    <2>1. product.price \in Prices /\ product.stock \in 0..MaxStock
      BY DEF Product
    <2>2. Prices \subseteq Nat /\ MaxStock \in Nat
      BY CounterAssumption
    <2>3. product.price \in Nat
      BY <2>1, <2>2
    <2>4. \A n \in 0..MaxStock : n \in Nat /\ n <= MaxStock
      BY <2>2
    <2> QED BY <2>1, <2>3, <2>4
  <1>1. /\ lines \in [DOMAIN lines -> LineRecord] /\ DOMAIN lines \subseteq Products
        /\ IsFiniteSet(DOMAIN lines)
        /\ \A q \in DOMAIN lines : lines[q].off <= lines[q].unit * lines[q].qty
        /\ \A q \in DOMAIN lines : OnAShelf(lines[q])
    BY CartIs
  <1>2. CASE p \in DOMAIN lines /\ ~(product.stock <= 0 \/ lines[p].qty >= product.stock)
    <2> DEFINE off == Discount(lines[p], lines[p].unit, lines[p].qty + 1)
               new == [lines[p] EXCEPT !.qty = lines[p].qty + 1, !.off = off]
    <2>1. lines[p] \in LineRecord /\ lines[p].qty + 1 \in Nat /\ lines[p].unit \in Prices
      BY <1>1, <1>2 DEF LineRecord
    <2>2. off \in Nat /\ off <= lines[p].unit * (lines[p].qty + 1)
      BY <2>1, DiscountFits
    <2> HIDE DEF off
    <2>3. /\ new \in LineRecord /\ new.off = off /\ new.unit = lines[p].unit /\ new.qty = lines[p].qty + 1
          /\ new.avail = lines[p].avail
      BY <2>1, <2>2 DEF LineRecord
    <2>4. [lines EXCEPT ![p] = new] \in Carts
      <3> HIDE DEF new
      <3>1. lines[p].qty + 1 <= MaxStock /\ lines[p].avail <= MaxStock
        <4>1. MaxStock \in Nat /\ lines[p].qty \in Nat /\ lines[p].avail <= MaxStock
          BY <1>1, <1>2, <2>1, CounterAssumption DEF OnAShelf, LineRecord
        <4> QED BY <1>0, <1>2, <4>1
      <3>2. OnAShelf(new)
        BY <2>3, <3>1 DEF OnAShelf
      <3> QED BY <1>2, <2>2, <2>3, <3>2, LineInPlace
    <2>5. [lines EXCEPT ![p].qty = lines[p].qty + 1, ![p].off = off] = [lines EXCEPT ![p] = new]
      BY <1>1, <1>2
    <2> QED BY <1>2, <2>4, <2>5 DEF WithOneMore, off
  <1>3. CASE p \notin DOMAIN lines /\ ~(product.stock <= 0)
    <2> DEFINE line == [qty |-> 1, seen |-> product.price, unit |-> product.price, off |-> 0,
                        percent |-> FALSE, avail |-> product.stock]
               after == [q \in DOMAIN lines \cup {p} |-> IF q = p THEN line ELSE lines[q]]
    <2>1. line \in LineRecord /\ line.off <= line.unit * line.qty /\ OnAShelf(line)
      <3>1. MaxStock \in Nat /\ 1 <= MaxStock
        BY <1>0, <1>3, CounterAssumption
      <3>2. line \in LineRecord /\ line.off = 0 /\ line.unit = product.price /\ line.qty = 1
            /\ line.avail = product.stock
        BY <1>0 DEF LineRecord
      <3> HIDE DEF line
      <3>3. line.off <= line.unit * line.qty
        BY <1>0, <3>2
      <3> QED BY <1>0, <3>1, <3>2, <3>3 DEF OnAShelf
    <2> HIDE DEF line
    <2>2. /\ DOMAIN after = DOMAIN lines \cup {p} /\ after[p] = line
          /\ \A q \in DOMAIN lines : after[q] = lines[q]
          /\ after = [q \in DOMAIN after |-> after[q]]
      BY <1>3
    <2>3. IsFiniteSet(DOMAIN lines \cup {p})
      BY <1>1, FS_AddElement
    <2> HIDE DEF after
    <2>4. after \in [DOMAIN after -> LineRecord]
      BY <1>1, <2>1, <2>2
    <2>5. \A q \in DOMAIN after : after[q].off <= after[q].unit * after[q].qty
      BY <1>1, <2>1, <2>2
    <2>6. DOMAIN after \subseteq Products
      BY <1>1, <2>2
    <2>7. \A q \in DOMAIN after : OnAShelf(after[q])
      BY <1>1, <2>1, <2>2
    <2>8. after \in Carts
      BY <2>2, <2>3, <2>4, <2>5, <2>6, <2>7, CartIs
    <2> QED BY <1>3, <2>8 DEF WithOneMore, after, line
  <1>4. CASE product.stock <= 0 \/ (p \in DOMAIN lines /\ lines[p].qty >= product.stock)
    BY <1>4 DEF WithOneMore
  <1> QED BY <1>2, <1>3, <1>4

\* Lines taken out.
LEMMA LinesRemoved ==
    ASSUME NEW lines \in Carts, NEW S \in SUBSET DOMAIN lines
    PROVE  Restrict(lines, S) \in Carts
  <1> DEFINE after == [q \in S |-> lines[q]]
  <1>1. /\ lines \in [DOMAIN lines -> LineRecord] /\ DOMAIN lines \subseteq Products
        /\ IsFiniteSet(DOMAIN lines)
        /\ \A q \in DOMAIN lines : lines[q].off <= lines[q].unit * lines[q].qty
        /\ \A q \in DOMAIN lines : OnAShelf(lines[q])
    BY CartIs
  <1>2. Restrict(lines, S) = after
    BY DEF Restrict
  <1>3. DOMAIN after = S /\ after \in [S -> LineRecord] /\ \A q \in S : after[q] = lines[q]
    BY <1>1
  <1>4. IsFiniteSet(S)
    BY <1>1, FS_Subset
  <1> HIDE DEF after
  <1>5. \A q \in DOMAIN after : after[q].off <= after[q].unit * after[q].qty
    BY <1>1, <1>3
  <1>6. S \subseteq Products
    BY <1>1
  <1>7. \A q \in DOMAIN after : OnAShelf(after[q])
    BY <1>1, <1>3
  <1> QED BY <1>2, <1>3, <1>4, <1>5, <1>6, <1>7, CartIs

\* The quantity of a line changes: the discount follows.
LEMMA QuantityChanged ==
    ASSUME NEW lines \in Carts, NEW p \in DOMAIN lines, NEW quantity \in Nat
    PROVE  LET qty == Min({quantity, lines[p].avail}) IN
           [lines EXCEPT ![p].qty = qty, ![p].off = Discount(lines[p], lines[p].unit, qty)] \in Carts
  <1>1. lines \in [DOMAIN lines -> LineRecord] /\ lines[p] \in LineRecord /\ OnAShelf(lines[p])
    BY CartIs
  <1>2. lines[p].avail \in Nat /\ lines[p].unit \in Prices
    BY <1>1 DEF LineRecord
  <1>3. PICK qty \in Nat : qty = Min({quantity, lines[p].avail}) /\ qty <= lines[p].avail
    BY <1>2, MinOfTwo
  <1>4. PICK off \in Nat : off = Discount(lines[p], lines[p].unit, qty) /\ off <= lines[p].unit * qty
    BY <1>1, <1>2, DiscountFits
  <1>5. PICK new : new = [lines[p] EXCEPT !.qty = qty, !.off = off]
    OBVIOUS
  <1>6. /\ new \in LineRecord /\ new.off = off /\ new.unit = lines[p].unit /\ new.qty = qty
        /\ new.avail = lines[p].avail
    BY <1>1, <1>3, <1>4, <1>5 DEF LineRecord
  <1>7. OnAShelf(new)
    BY <1>1, <1>2, <1>3, <1>6, CounterAssumption DEF OnAShelf
  <1>8. [lines EXCEPT ![p] = new] \in Carts
    BY <1>4, <1>6, <1>7, LineInPlace
  <1>9. [lines EXCEPT ![p].qty = qty, ![p].off = off] = [lines EXCEPT ![p] = new]
    BY <1>1, <1>5
  <1> QED BY <1>3, <1>4, <1>8, <1>9

\* The price of a line changes: the discount follows.
LEMMA PriceChanged ==
    ASSUME NEW lines \in Carts, NEW p \in DOMAIN lines, NEW price \in Prices
    PROVE  [lines EXCEPT ![p].unit = price, ![p].off = Discount(lines[p], price, lines[p].qty)] \in Carts
  <1>1. lines \in [DOMAIN lines -> LineRecord] /\ lines[p] \in LineRecord /\ OnAShelf(lines[p])
    BY CartIs
  <1>2. lines[p].qty \in Nat
    BY <1>1 DEF LineRecord
  <1>4. PICK off \in Nat : off = Discount(lines[p], price, lines[p].qty) /\ off <= price * lines[p].qty
    BY <1>1, <1>2, DiscountFits
  <1>5. PICK new : new = [lines[p] EXCEPT !.unit = price, !.off = off]
    OBVIOUS
  <1>6. /\ new \in LineRecord /\ new.off = off /\ new.unit = price /\ new.qty = lines[p].qty
        /\ new.avail = lines[p].avail
    BY <1>1, <1>4, <1>5 DEF LineRecord
  <1>3. OnAShelf(new)
    BY <1>1, <1>6 DEF OnAShelf
  <1>7. [lines EXCEPT ![p] = new] \in Carts
    BY <1>3, <1>4, <1>6, LineInPlace
  <1>8. [lines EXCEPT ![p].unit = price, ![p].off = off] = [lines EXCEPT ![p] = new]
    BY <1>1, <1>5
  <1> QED BY <1>4, <1>7, <1>8

\* A discount is given: nothing, half the line or all of it.
LEMMA DiscountGiven ==
    ASSUME NEW lines \in Carts, NEW p \in DOMAIN lines, NEW percent \in BOOLEAN,
           NEW off \in Nat, off <= lines[p].unit * lines[p].qty
    PROVE  [lines EXCEPT ![p].percent = percent, ![p].off = off] \in Carts
  <1>1. lines \in [DOMAIN lines -> LineRecord] /\ lines[p] \in LineRecord /\ OnAShelf(lines[p])
    BY CartIs
  <1>5. PICK new : new = [lines[p] EXCEPT !.percent = percent, !.off = off]
    OBVIOUS
  <1>6. /\ new \in LineRecord /\ new.off = off /\ new.unit = lines[p].unit /\ new.qty = lines[p].qty
        /\ new.avail = lines[p].avail
    BY <1>1, <1>5 DEF LineRecord
  <1>2. OnAShelf(new)
    BY <1>1, <1>6 DEF OnAShelf
  <1>7. [lines EXCEPT ![p] = new] \in Carts
    BY <1>2, <1>6, LineInPlace
  <1>8. [lines EXCEPT ![p].percent = percent, ![p].off = off] = [lines EXCEPT ![p] = new]
    BY <1>1, <1>5
  <1> QED BY <1>7, <1>8

\* A line at another price is a line still, of as many units.
LEMMA RepricedFits ==
    ASSUME NEW line \in LineRecord, OnAShelf(line),
           NEW product, product.price \in Prices, product.stock \in 0..MaxStock
    PROVE  LET new == Repriced(line, product) IN
           /\ new \in LineRecord /\ new.qty = line.qty /\ new.off <= new.unit * new.qty
           /\ OnAShelf(new)
  <1>1. /\ line.off \in Nat /\ line.qty \in Nat /\ product.price \in Nat
        /\ product.stock \in Nat /\ product.stock <= MaxStock
    <2>1. line.off \in Nat /\ line.qty \in Nat
      BY DEF LineRecord
    <2>2. MaxStock \in Nat /\ product.price \in Nat
      BY CounterAssumption
    <2>3. \A n \in 0..MaxStock : n \in Nat /\ n <= MaxStock
      BY ONLY <2>2
    <2> QED BY <2>1, <2>2, <2>3
  <1>2. PICK gross \in Nat : gross = product.price * line.qty
    BY <1>1
  <1>3. PICK off \in Nat : off = Min({line.off, gross}) /\ off <= gross
    BY <1>1, MinOfTwo
  <1>4. PICK new : new = [line EXCEPT !.seen = product.price, !.unit = product.price,
                                      !.avail = product.stock, !.off = off]
    OBVIOUS
  <1>5. /\ new \in LineRecord /\ new.qty = line.qty /\ new.off = off /\ new.unit = product.price
        /\ new.avail = product.stock
    <2>1. PICK price \in Prices, stock \in Nat : price = product.price /\ stock = product.stock
      BY <1>1
    <2>2. new = [line EXCEPT !.seen = price, !.unit = price, !.avail = stock, !.off = off]
      BY <1>4, <2>1
    <2>3. /\ new \in LineRecord /\ new.qty = line.qty /\ new.off = off /\ new.unit = price
          /\ new.avail = stock
      BY ONLY <2>2 DEF LineRecord
    <2> QED BY <2>1, <2>3
  <1>6. OnAShelf(new)
    BY <1>1, <1>5 DEF OnAShelf
  <1>7. Repriced(line, product) = new
    BY <1>2, <1>3, <1>4 DEF Repriced
  <1> QED BY <1>2, <1>3, <1>5, <1>6, <1>7

\* The units of a cart are a number; an empty one has none.
LEMMA UnitsAreANumber == \A lines \in Carts : Units(lines) \in Int
  <1> SUFFICES ASSUME NEW lines \in Carts PROVE Units(lines) \in Int
    OBVIOUS
  <1>1. lines \in [DOMAIN lines -> LineRecord] /\ IsFiniteSet(DOMAIN lines)
    BY CartIs
  <1>2. \A p \in DOMAIN lines : QtyOf(lines)[p] \in Int
    BY <1>1 DEF LineRecord, QtyOf
  <1> QED BY <1>1, <1>2, SumInt, UnitsAreASum

\* The empty cart is one, of no units.
LEMMA EmptyIsACart == EmptyCart \in Carts /\ Units(EmptyCart) = 0
  <1>1. DOMAIN EmptyCart = {} /\ EmptyCart \in [{} -> LineRecord]
    BY DEF EmptyCart
  <1>2. EmptyCart \in Carts
    BY <1>1, FS_EmptySet, CartIs
  <1>3. Units(EmptyCart) = 0
    BY <1>1, UnitsAreASum, SumEmpty
  <1> QED BY <1>2, <1>3

\* Carts of as many units of each product hold as many units.
LEMMA SameQuantities ==
    ASSUME NEW lines \in Carts, NEW other, DOMAIN other = DOMAIN lines,
           \A p \in DOMAIN lines : other[p].qty = lines[p].qty
    PROVE  Units(other) = Units(lines)
  <1>1. IsFiniteSet(DOMAIN lines)
    BY CartIs
  <1>2. \A p \in DOMAIN lines : QtyOf(other)[p] = QtyOf(lines)[p]
    BY DEF QtyOf
  <1>3. SumFunctionOnSet(QtyOf(other), DOMAIN lines) = SumFunctionOnSet(QtyOf(lines), DOMAIN lines)
    BY <1>1, <1>2, SumSame
  <1> QED BY <1>3, UnitsAreASum

\* The units of paused sales.
PausedUnits(sales) == SumFunctionOnSet(UnitsOf(sales), sales)

\* The units of finitely many paused sales are a number.
LEMMA PausedUnitsNumber ==
    ASSUME NEW sales \in SUBSET Carts, IsFiniteSet(sales)
    PROVE  PausedUnits(sales) \in Int
  <1>1. \A lines \in sales : UnitsOf(sales)[lines] \in Int
    BY UnitsAreANumber DEF UnitsOf
  <1> QED BY <1>1, SumInt DEF PausedUnits

\* A sale paused adds its units.
LEMMA OneMorePaused ==
    ASSUME NEW sales \in SUBSET Carts, IsFiniteSet(sales), NEW lines \in Carts, lines \notin sales
    PROVE  PausedUnits(sales \cup {lines}) = PausedUnits(sales) + Units(lines)
  <1> DEFINE f == UnitsOf(sales \cup {lines})
  <1>1. \A x \in sales \cup {lines} : f[x] \in Int
    BY UnitsAreANumber DEF UnitsOf
  <1>2. \A x \in sales : f[x] = UnitsOf(sales)[x]
    BY DEF UnitsOf
  <1>3. f[lines] = Units(lines)
    BY DEF UnitsOf
  <1> HIDE DEF f
  <1>4. SumFunctionOnSet(f, sales \cup {lines}) = SumFunctionOnSet(f, sales) + f[lines]
    BY <1>1, SumAdd
  <1>5. SumFunctionOnSet(f, sales) = SumFunctionOnSet(UnitsOf(sales), sales)
    BY <1>2, SumSame
  <1> QED BY <1>3, <1>4, <1>5 DEF PausedUnits, f

\* A sale that leaves the list takes its units along.
LEMMA OneLessPaused ==
    ASSUME NEW sales \in SUBSET Carts, IsFiniteSet(sales), NEW lines \in sales
    PROVE  PausedUnits(sales \ {lines}) = PausedUnits(sales) - Units(lines)
  <1> DEFINE rest == sales \ {lines}
  <1>1. IsFiniteSet(rest) /\ rest \in SUBSET Carts /\ lines \notin rest /\ lines \in Carts
    BY FS_RemoveElement
  <1>2. rest \cup {lines} = sales
    OBVIOUS
  <1> HIDE DEF rest
  <1>3. PausedUnits(rest \cup {lines}) = PausedUnits(rest) + Units(lines)
    BY <1>1, OneMorePaused
  <1>4. PausedUnits(rest) \in Int /\ Units(lines) \in Int
    BY <1>1, PausedUnitsNumber, UnitsAreANumber
  <1>5. PausedUnits(sales) = PausedUnits(rest) + Units(lines)
    BY <1>2, <1>3
  <1>6. PausedUnits(rest) = PausedUnits(sales) - Units(lines)
    BY <1>4, <1>5
  <1> QED BY <1>6 DEF rest

\* The requests of a page, and the units of one at some point.
CounterCalls == [Calls -> [pc : {"idle", "scan", "sell", "sold", "failed", "fetch"}, lines : Carts]]

UnitsIf(call, pc) == IF call.pc = pc THEN Units(call.lines) ELSE 0

\* The units of one request are set apart.
LEMMA CallSetApart ==
    ASSUME NEW h \in CounterCalls, NEW c \in Calls, NEW pc
    PROVE  /\ UnitsAt(h, pc) =
                SumFunctionOnSet(CallUnits(h), {d \in Calls : h[d].pc = pc} \ {c}) + UnitsIf(h[c], pc)
           /\ SumFunctionOnSet(CallUnits(h), {d \in Calls : h[d].pc = pc} \ {c}) \in Int
           /\ UnitsIf(h[c], pc) \in Int
  <1> DEFINE S == {d \in Calls : h[d].pc = pc}
             f == CallUnits(h)
  <1>1. IsFiniteSet(S)
    BY DeskAssumption, FS_Subset
  <1>2. \A d \in Calls : f[d] \in Int
    BY UnitsAreANumber DEF CallUnits, CounterCalls
  <1>3. IsFiniteSet(S \ {c})
    BY <1>1, FS_Subset
  <1>4. SumFunctionOnSet(f, S \ {c}) \in Int
    <2>1. \A d \in S \ {c} : f[d] \in Int
      BY <1>2
    <2> HIDE DEF S, f
    <2> QED BY <1>3, <2>1, SumInt
  <1>5. f[c] = Units(h[c].lines)
    BY DEF CallUnits
  <1>6. CASE h[c].pc = pc
    <2>1. c \in S /\ \A d \in S : f[d] \in Int
      BY <1>2, <1>6
    <2>2. SumFunctionOnSet(f, S) = SumFunctionOnSet(f, S \ {c}) + f[c]
      <3> HIDE DEF S, f
      <3> QED BY <1>1, <2>1, SumRemove
    <2>3. UnitsIf(h[c], pc) = f[c] /\ f[c] \in Int
      BY <1>2, <1>5, <1>6 DEF UnitsIf
    <2> QED BY <1>4, <2>2, <2>3 DEF UnitsAt
  <1>7. CASE h[c].pc # pc
    <2>1. S \ {c} = S
      BY <1>7
    <2>2. UnitsIf(h[c], pc) = 0
      BY <1>7 DEF UnitsIf
    <2>3. UnitsAt(h, pc) = SumFunctionOnSet(f, S \ {c})
      BY <2>1 DEF UnitsAt
    <2> QED BY <1>4, <2>2, <2>3
  <1> QED BY <1>6, <1>7

\* A request moves on: its units leave where it was and come where it is.
LEMMA OneCallMoves ==
    ASSUME NEW h \in CounterCalls, NEW g \in CounterCalls, NEW c \in Calls, NEW pc,
           \A d \in Calls \ {c} : g[d] = h[d]
    PROVE  /\ UnitsAt(g, pc) = UnitsAt(h, pc) - UnitsIf(h[c], pc) + UnitsIf(g[c], pc)
           /\ UnitsAt(h, pc) \in Int /\ UnitsAt(g, pc) \in Int
           /\ UnitsIf(h[c], pc) \in Int /\ UnitsIf(g[c], pc) \in Int
  <1> DEFINE S == {d \in Calls : h[d].pc = pc} \ {c}
  <1>1. S = {d \in Calls : g[d].pc = pc} \ {c}
    OBVIOUS
  <1>2. \A d \in S : CallUnits(h)[d] = CallUnits(g)[d]
    BY DEF CallUnits
  <1>3. IsFiniteSet(S)
    BY DeskAssumption, FS_Subset
  <1>4. /\ UnitsAt(h, pc) = SumFunctionOnSet(CallUnits(h), S) + UnitsIf(h[c], pc)
        /\ SumFunctionOnSet(CallUnits(h), S) \in Int /\ UnitsIf(h[c], pc) \in Int
    BY CallSetApart
  <1>5. /\ UnitsAt(g, pc) = SumFunctionOnSet(CallUnits(g), {d \in Calls : g[d].pc = pc} \ {c}) + UnitsIf(g[c], pc)
        /\ UnitsIf(g[c], pc) \in Int
    BY CallSetApart
  <1>6. UnitsAt(g, pc) = SumFunctionOnSet(CallUnits(g), S) + UnitsIf(g[c], pc)
    BY <1>1, <1>5
  <1> HIDE DEF S
  <1>7. SumFunctionOnSet(CallUnits(h), S) = SumFunctionOnSet(CallUnits(g), S)
    BY <1>2, <1>3, SumSame
  <1> QED BY <1>4, <1>5, <1>6, <1>7

CounterState ==
    /\ shelf \in [Products -> Product]
    /\ cart \in Carts
    /\ pausedSales \in SUBSET Carts /\ IsFiniteSet(pausedSales)
    /\ handler \in CounterCalls
    /\ owed \in Int /\ excused \in BOOLEAN

\* The units on the page are those owed, with those sold whose answer is on its way.
UnitsKept ==
    ~excused => Units(cart) + PausedUnits(pausedSales) + UnitsAt(handler, "fetch")
                   = owed + UnitsAt(handler, "sold")

CounterInv == CounterState /\ UnitsKept

\* The units of the requests at some point are a number.
LEMMA UnitsAtNumber == \A h \in CounterCalls : \A pc : UnitsAt(h, pc) \in Int
  <1> SUFFICES ASSUME NEW h \in CounterCalls, NEW pc PROVE UnitsAt(h, pc) \in Int
    OBVIOUS
  <1>1. IsFiniteSet({c \in Calls : h[c].pc = pc})
    BY DeskAssumption, FS_Subset
  <1>2. \A c \in {c \in Calls : h[c].pc = pc} : CallUnits(h)[c] \in Int
    BY UnitsAreANumber DEF CallUnits, CounterCalls
  <1> QED BY <1>1, <1>2, SumInt DEF UnitsAt

\* So are the terms of the invariant.
LEMMA UnitsAreNumbers ==
    ASSUME CounterState
    PROVE  /\ Units(cart) \in Int /\ PausedUnits(pausedSales) \in Int
           /\ UnitsAt(handler, "fetch") \in Int /\ UnitsAt(handler, "sold") \in Int
  BY UnitsAreANumber, PausedUnitsNumber, UnitsAtNumber DEF CounterState

\* The page begins empty.
LEMMA CounterInitInv == CounterInit => CounterInv
  <1> SUFFICES ASSUME CounterInit PROVE CounterInv
    OBVIOUS
  <1>1. /\ shelf \in [Products -> Product] /\ cart = EmptyCart /\ pausedSales = {}
        /\ handler = [c \in Calls |-> Idle] /\ owed = 0 /\ excused = FALSE
    BY DEF CounterInit
  <1>2. handler \in CounterCalls
    <2>1. Idle \in [pc : {"idle", "scan", "sell", "sold", "failed", "fetch"}, lines : Carts]
      BY EmptyIsACart DEF Idle
    <2> QED BY <1>1, <2>1 DEF CounterCalls
  <1>3. CounterState
    <2>1. cart \in Carts
      BY <1>1, EmptyIsACart
    <2>2. pausedSales \in SUBSET Carts /\ IsFiniteSet(pausedSales)
      BY <1>1, FS_EmptySet
    <2>3. owed \in Int
      <3>1. owed = 0
        BY <1>1
      <3> QED BY ONLY <3>1
    <2>4. excused \in BOOLEAN
      <3>1. excused = FALSE
        BY <1>1
      <3> QED BY ONLY <3>1
    <2> QED BY <1>1, <1>2, <2>1, <2>2, <2>3, <2>4 DEF CounterState
  <1>4. \A pc \in {"fetch", "sold"} : UnitsAt(handler, pc) = 0
    <2> SUFFICES ASSUME NEW pc \in {"fetch", "sold"} PROVE UnitsAt(handler, pc) = 0
      OBVIOUS
    <2>1. {c \in Calls : handler[c].pc = pc} = {}
      BY <1>1 DEF Idle
    <2> QED BY <2>1, SumEmpty DEF UnitsAt
  <1>5. PausedUnits(pausedSales) = 0
    BY <1>1, SumEmpty DEF PausedUnits
  <1> QED BY <1>1, <1>3, <1>4, <1>5, EmptyIsACart DEF CounterInv, UnitsKept

\* The cashier changes the cart.
LEMMA ChangeKeeps ==
    ASSUME CounterInv, NEW lines \in Carts, Change(lines), handler' \in CounterCalls,
           UnitsAt(handler', "fetch") = UnitsAt(handler, "fetch"),
           UnitsAt(handler', "sold") = UnitsAt(handler, "sold")
    PROVE  CounterInv'
  <1>1. CounterState /\ UnitsKept
    BY DEF CounterInv
  <1>2. /\ cart' = lines /\ UNCHANGED <<shelf, pausedSales, excused>>
        /\ owed' = IF excused THEN 0 ELSE owed + Units(lines) - Units(cart)
    BY DEF Change, Owe
  <1>3. /\ Units(cart) \in Int /\ PausedUnits(pausedSales) \in Int /\ Units(lines) \in Int
        /\ UnitsAt(handler, "fetch") \in Int /\ UnitsAt(handler, "sold") \in Int
    BY <1>1, UnitsAreNumbers, UnitsAreANumber
  <1>4. owed' \in Int
    BY <1>1, <1>2, <1>3 DEF CounterState
  <1>5. CounterState'
    BY <1>1, <1>2, <1>4 DEF CounterState
  <1>6. UnitsKept'
    <2>1. ~excused' => Units(lines) + PausedUnits(pausedSales) + UnitsAt(handler, "fetch")
                          = owed' + UnitsAt(handler, "sold")
      BY <1>1, <1>2, <1>3 DEF UnitsKept, CounterState
    <2> QED BY <1>2, <2>1 DEF UnitsKept
  <1> QED BY <1>5, <1>6 DEF CounterInv

\* One request moves on, from a point to another at which no units are counted.
LEMMA CallKeeps ==
    ASSUME CounterInv, NEW c \in Calls,
           NEW call \in [pc : {"idle", "scan", "sell", "sold", "failed", "fetch"}, lines : Carts],
           handler' = [handler EXCEPT ![c] = call]
    PROVE  /\ handler' \in CounterCalls
           /\ \A pc : /\ UnitsAt(handler', pc) = UnitsAt(handler, pc) - UnitsIf(handler[c], pc) + UnitsIf(call, pc)
                      /\ UnitsAt(handler, pc) \in Int
                      /\ UnitsIf(handler[c], pc) \in Int /\ UnitsIf(call, pc) \in Int
  <1>1. handler \in CounterCalls
    BY DEF CounterInv, CounterState
  <1>2. PICK g : g = [handler EXCEPT ![c] = call]
    OBVIOUS
  <1>3. g \in CounterCalls /\ g[c] = call /\ \A d \in Calls \ {c} : g[d] = handler[d]
    BY <1>1, <1>2 DEF CounterCalls
  <1>4. ASSUME NEW pc
        PROVE  /\ UnitsAt(g, pc) = UnitsAt(handler, pc) - UnitsIf(handler[c], pc) + UnitsIf(g[c], pc)
               /\ UnitsAt(handler, pc) \in Int /\ UnitsIf(handler[c], pc) \in Int /\ UnitsIf(g[c], pc) \in Int
    BY <1>1, <1>3, OneCallMoves
  <1>5. handler' = g
    BY <1>2
  <1> QED BY <1>3, <1>4, <1>5

\* A request moves on and nothing else does, where it holds no units before or after.
LEMMA CallAloneKeeps ==
    ASSUME CounterInv, NEW c \in Calls,
           NEW call \in [pc : {"idle", "scan", "sell", "sold", "failed", "fetch"}, lines : Carts],
           handler' = [handler EXCEPT ![c] = call],
           handler[c].pc \notin {"sold", "fetch"}, call.pc \notin {"sold", "fetch"},
           UNCHANGED <<shelf, cart, pausedSales, excused, owed>>
    PROVE  CounterInv'
  <1>1. CounterState /\ UnitsKept
    BY DEF CounterInv
  <1>2. handler' \in CounterCalls
    BY CallKeeps
  <1>3. \A pc : /\ UnitsAt(handler', pc) = UnitsAt(handler, pc) - UnitsIf(handler[c], pc) + UnitsIf(call, pc)
                /\ UnitsAt(handler, pc) \in Int
    BY CallKeeps
  <1>4. \A pc \in {"sold", "fetch"} : UnitsIf(handler[c], pc) = 0 /\ UnitsIf(call, pc) = 0
    BY DEF UnitsIf
  <1>5. UnitsAt(handler', "sold") = UnitsAt(handler, "sold") /\ UnitsAt(handler', "fetch") = UnitsAt(handler, "fetch")
    <2>1. ASSUME NEW pc \in {"sold", "fetch"} PROVE UnitsAt(handler', pc) = UnitsAt(handler, pc)
      <3>1. /\ UnitsAt(handler', pc) = UnitsAt(handler, pc) - UnitsIf(handler[c], pc) + UnitsIf(call, pc)
            /\ UnitsAt(handler, pc) \in Int
        BY <1>3
      <3>2. UnitsIf(handler[c], pc) = 0 /\ UnitsIf(call, pc) = 0
        BY <1>4
      <3> QED BY <3>1, <3>2
    <2> QED BY <2>1
  <1>6. CounterState'
    BY <1>1, <1>2 DEF CounterState
  <1>7. UnitsKept'
    BY <1>1, <1>5 DEF UnitsKept
  <1> QED BY <1>6, <1>7 DEF CounterInv

\* What a request is on about.
CounterCall == [pc : {"idle", "scan", "sell", "sold", "failed", "fetch"}, lines : Carts]

\* A request is one.
LEMMA CallAt == ASSUME CounterState, NEW c \in Calls PROVE handler[c] \in CounterCall
  BY DEF CounterState, CounterCalls, CounterCall

\* So is one that is over.
LEMMA IdleIsACall == Idle \in CounterCall
  BY EmptyIsACart DEF Idle, CounterCall

\* A product is rung up.
LEMMA RingKeeps ==
    ASSUME CounterInv, NEW p \in Products, NEW product \in Product, Ring(p, product)
    PROVE  CounterInv'
  <1>1. CounterState
    BY DEF CounterInv
  <1>2. WithOneMore(cart, p, product) \in Carts
    BY <1>1, OneMoreIsACart DEF CounterState
  <1>3. Change(WithOneMore(cart, p, product)) /\ handler' = handler
    BY DEF Ring
  <1> QED BY <1>1, <1>2, <1>3, ChangeKeeps DEF CounterState

\* A line is removed.
LEMMA RemoveKeeps ==
    ASSUME CounterInv, NEW p \in Products, RemoveFromCart(p)
    PROVE  CounterInv'
  <1>1. CounterState
    BY DEF CounterInv
  <1>2. Restrict(cart, DOMAIN cart \ {p}) \in Carts
    BY <1>1, LinesRemoved DEF CounterState
  <1>3. Change(Restrict(cart, DOMAIN cart \ {p})) /\ handler' = handler
    BY DEF RemoveFromCart
  <1> QED BY <1>1, <1>2, <1>3, ChangeKeeps DEF CounterState

\* A quantity changes.
LEMMA QuantityKeeps ==
    ASSUME CounterInv, NEW p \in Products, NEW quantity \in 1..MaxStock, UpdateQuantity(p, quantity)
    PROVE  CounterInv'
  <1> DEFINE qty == Min({quantity, cart[p].avail})
             lines == [cart EXCEPT ![p].qty = qty, ![p].off = Discount(cart[p], cart[p].unit, qty)]
  <1>1. CounterState
    BY DEF CounterInv
  <1>2. p \in DOMAIN cart /\ Change(lines) /\ handler' = handler
    BY DEF UpdateQuantity
  <1>3. quantity \in Nat
    BY CounterAssumption
  <1>4. lines \in Carts
    BY <1>1, <1>2, <1>3, QuantityChanged DEF CounterState
  <1> QED BY <1>1, <1>2, <1>4, ChangeKeeps DEF CounterState

\* A discount changes.
LEMMA DiscountKeeps ==
    ASSUME CounterInv, NEW p \in Products, NEW kind \in {"none", "whole", "half"}, UpdateDiscount(p, kind)
    PROVE  CounterInv'
  <1> DEFINE gross == cart[p].unit * cart[p].qty
             off == CASE kind = "none" -> 0
                      [] kind = "whole" -> gross
                      [] kind = "half" -> gross \div 2
             lines == [cart EXCEPT ![p].percent = kind = "half", ![p].off = off]
  <1>1. CounterState
    BY DEF CounterInv
  <1>2. p \in DOMAIN cart /\ Change(lines) /\ handler' = handler
    BY DEF UpdateDiscount
  <1>3. cart[p] \in LineRecord /\ cart \in Carts
    BY <1>1, <1>2, CartIs DEF CounterState
  <1>4. cart[p].unit \in Nat /\ cart[p].qty \in Nat
    BY <1>3, CounterAssumption DEF LineRecord
  <1>5. PICK g \in Nat : g = gross
    BY <1>4
  <1>6. g \div 2 \in Nat /\ g \div 2 <= g
    OBVIOUS
  <1>7. off \in Nat /\ off <= gross
    BY <1>5, <1>6
  <1>8. (kind = "half") \in BOOLEAN
    OBVIOUS
  <1>9. lines \in Carts
    <2> HIDE DEF off
    <2> QED BY <1>2, <1>3, <1>7, <1>8, DiscountGiven
  <1> QED BY <1>1, <1>2, <1>9, ChangeKeeps DEF CounterState

\* A price changes.
LEMMA PriceKeeps ==
    ASSUME CounterInv, NEW p \in Products, NEW price \in Prices, UpdateItemPrice(p, price)
    PROVE  CounterInv'
  <1> DEFINE lines == [cart EXCEPT ![p].unit = price, ![p].off = Discount(cart[p], price, cart[p].qty)]
  <1>1. CounterState
    BY DEF CounterInv
  <1>2. p \in DOMAIN cart /\ Change(lines) /\ handler' = handler
    BY DEF UpdateItemPrice
  <1>3. lines \in Carts
    BY <1>1, <1>2, PriceChanged DEF CounterState
  <1> QED BY <1>1, <1>2, <1>3, ChangeKeeps DEF CounterState

\* The scanner asks for a product.
LEMMA BeginScanKeeps ==
    ASSUME CounterInv, NEW c \in Calls, BeginScan(c)
    PROVE  CounterInv'
  <1>1. CounterState /\ handler[c] \in CounterCall
    BY CallAt DEF CounterInv
  <1>2. handler[c].pc = "idle" /\ UNCHANGED <<shelf, cart, pausedSales, excused, owed>>
    BY DEF BeginScan, Admitted
  <1>3. PICK call : call = [handler[c] EXCEPT !.pc = "scan"]
    OBVIOUS
  <1>4. call \in CounterCall /\ call.pc = "scan"
    BY <1>1, <1>3 DEF CounterCall
  <1>5. handler' = [handler EXCEPT ![c] = call]
    BY <1>3 DEF BeginScan
  <1> QED BY <1>2, <1>4, <1>5, CallAloneKeeps DEF CounterCall

\* The answer of the scanner.
LEMMA EndScanKeeps ==
    ASSUME CounterInv, NEW c \in Calls, NEW p \in Products, EndScan(c, p)
    PROVE  CounterInv'
  <1>1. CounterState /\ handler[c] \in CounterCall /\ Idle \in CounterCall
    BY CallAt, IdleIsACall DEF CounterInv
  <1>2. PICK lines \in {cart} \cup {WithOneMore(cart, p, shelf[p])} : Change(lines)
    BY DEF EndScan
  <1>3. shelf[p] \in Product
    BY <1>1 DEF CounterState
  <1>4. lines \in Carts
    BY <1>1, <1>2, <1>3, OneMoreIsACart DEF CounterState
  <1>5. handler[c].pc = "scan" /\ handler' = [handler EXCEPT ![c] = Idle]
    BY DEF EndScan
  <1>6. /\ handler' \in CounterCalls
        /\ \A pc : /\ UnitsAt(handler', pc) = UnitsAt(handler, pc) - UnitsIf(handler[c], pc) + UnitsIf(Idle, pc)
                   /\ UnitsAt(handler, pc) \in Int
    BY <1>1, <1>5, CallKeeps DEF CounterCall
  <1>7. ASSUME NEW pc \in {"sold", "fetch"} PROVE UnitsAt(handler', pc) = UnitsAt(handler, pc)
    <2>1. UnitsIf(handler[c], pc) = 0 /\ UnitsIf(Idle, pc) = 0
      BY <1>5 DEF UnitsIf, Idle
    <2>2. /\ UnitsAt(handler', pc) = UnitsAt(handler, pc) - UnitsIf(handler[c], pc) + UnitsIf(Idle, pc)
          /\ UnitsAt(handler, pc) \in Int
      BY <1>6
    <2> QED BY <2>1, <2>2
  <1> QED BY <1>2, <1>4, <1>6, <1>7, ChangeKeeps

\* The checkout begins.
LEMMA BeginCheckoutKeeps ==
    ASSUME CounterInv, NEW c \in Calls, BeginCheckout(c)
    PROVE  CounterInv'
  <1>1. CounterState
    BY DEF CounterInv
  <1>2. handler[c].pc = "idle" /\ UNCHANGED <<shelf, cart, pausedSales, excused, owed>>
    BY DEF BeginCheckout, Admitted
  <1>3. PICK call : call = [pc |-> "sell", lines |-> cart]
    OBVIOUS
  <1>4. call \in CounterCall /\ call.pc = "sell"
    BY <1>1, <1>3 DEF CounterCall, CounterState
  <1>5. handler' = [handler EXCEPT ![c] = call]
    BY <1>3 DEF BeginCheckout
  <1> QED BY <1>2, <1>4, <1>5, CallAloneKeeps DEF CounterCall

\* The units of a sale made are owed no more, and counted until its answer comes.
LEMMA SellKeeps ==
    ASSUME CounterInv, NEW c \in Calls, Sell(c)
    PROVE  CounterInv'
  <1> DEFINE lines == handler[c].lines
  <1>1. CounterState /\ UnitsKept /\ handler[c] \in CounterCall
    BY CallAt DEF CounterInv
  <1>2. handler[c].pc = "sell" /\ UNCHANGED <<cart, pausedSales, excused>> /\ lines \in Carts
    BY <1>1 DEF Sell, CounterCall
  <1>3. CASE Accepts(lines)
    <2>1. /\ shelf' = [p \in Products |->
                IF p \in DOMAIN lines THEN [shelf[p] EXCEPT !.stock = shelf[p].stock - lines[p].qty]
                ELSE shelf[p]]
          /\ owed' = Owe(owed - Units(lines))
          /\ handler' = [handler EXCEPT ![c].pc = "sold"]
      BY <1>3 DEF Sell
    <2>2. shelf' \in [Products -> Product]
      <3> SUFFICES ASSUME NEW p \in Products, p \in DOMAIN lines
                   PROVE  [shelf[p] EXCEPT !.stock = shelf[p].stock - lines[p].qty] \in Product
        BY <1>1, <2>1 DEF CounterState
      <3>1. shelf[p] \in Product /\ lines[p].qty \in 1..shelf[p].stock
        BY <1>1, <1>3 DEF CounterState, Accepts
      <3>2. shelf[p].stock \in 0..MaxStock
        BY <3>1 DEF Product
      <3>3. MaxStock \in Nat
        BY CounterAssumption
      <3>4. shelf[p].stock - lines[p].qty \in 0..MaxStock
        BY <3>1, <3>2, <3>3
      <3> QED BY <3>1, <3>4 DEF Product
    <2>3. PICK call : call = [handler[c] EXCEPT !.pc = "sold"]
      OBVIOUS
    <2>4. call \in CounterCall /\ call.pc = "sold" /\ call.lines = lines
      BY <1>1, <2>3 DEF CounterCall
    <2>5. handler' = [handler EXCEPT ![c] = call]
      BY <2>1, <2>3
    <2>6. /\ handler' \in CounterCalls
          /\ \A pc : UnitsAt(handler', pc) = UnitsAt(handler, pc) - UnitsIf(handler[c], pc) + UnitsIf(call, pc)
      BY <2>4, <2>5, CallKeeps DEF CounterCall
    <2>7. /\ UnitsAt(handler', "sold") = UnitsAt(handler, "sold") - 0 + Units(lines)
          /\ UnitsAt(handler', "fetch") = UnitsAt(handler, "fetch") - 0 + 0
      <3>1. /\ UnitsIf(handler[c], "sold") = 0 /\ UnitsIf(call, "sold") = Units(lines)
            /\ UnitsIf(handler[c], "fetch") = 0 /\ UnitsIf(call, "fetch") = 0
        BY <1>2, <2>4 DEF UnitsIf
      <3>2. /\ UnitsAt(handler', "sold") = UnitsAt(handler, "sold") - UnitsIf(handler[c], "sold") + UnitsIf(call, "sold")
            /\ UnitsAt(handler', "fetch") = UnitsAt(handler, "fetch") - UnitsIf(handler[c], "fetch") + UnitsIf(call, "fetch")
        BY <2>6
      <3> QED BY <3>1, <3>2
    <2>8. /\ Units(cart) \in Int /\ PausedUnits(pausedSales) \in Int /\ Units(lines) \in Int
          /\ UnitsAt(handler, "fetch") \in Int /\ UnitsAt(handler, "sold") \in Int
          /\ owed \in Int /\ excused \in BOOLEAN
      BY <1>1, <1>2, UnitsAreNumbers, UnitsAreANumber DEF CounterState
    <2>9. owed' \in Int /\ (~excused => owed' = owed - Units(lines))
      BY <2>1, <2>8 DEF Owe
    <2>10. CounterState'
      BY <1>1, <1>2, <2>2, <2>6, <2>9 DEF CounterState
    <2>11. ~excused => Units(cart) + PausedUnits(pausedSales) + UnitsAt(handler', "fetch")
                          = owed' + UnitsAt(handler', "sold")
      BY <1>1, <2>7, <2>8, <2>9 DEF UnitsKept
    <2>12. UnitsKept'
      BY <1>2, <2>11 DEF UnitsKept
    <2> QED BY <2>10, <2>12 DEF CounterInv
  <1>4. CASE ~Accepts(lines)
    <2>1. handler' = [handler EXCEPT ![c].pc = "failed"] /\ UNCHANGED <<shelf, owed>>
      BY <1>4 DEF Sell
    <2>3. PICK call : call = [handler[c] EXCEPT !.pc = "failed"]
      OBVIOUS
    <2>4. call \in CounterCall /\ call.pc = "failed"
      BY <1>1, <2>3 DEF CounterCall
    <2>5. handler' = [handler EXCEPT ![c] = call]
      BY <2>1, <2>3
    <2> QED BY <1>2, <2>1, <2>4, <2>5, CallAloneKeeps DEF CounterCall
  <1> QED BY <1>3, <1>4

\* The answer of a sale clears the cart that was sold.
LEMMA EndCheckoutKeeps ==
    ASSUME CounterInv, NEW c \in Calls, EndCheckout(c)
    PROVE  CounterInv'
  <1>1. CounterState /\ UnitsKept /\ handler[c] \in CounterCall /\ Idle \in CounterCall
    BY CallAt, IdleIsACall DEF CounterInv
  <1>2. /\ handler[c].pc = "sold" /\ cart' = EmptyCart /\ handler' = [handler EXCEPT ![c] = Idle]
        /\ excused' = (excused \/ cart # handler[c].lines)
        /\ owed' = IF cart # handler[c].lines THEN 0 ELSE owed
        /\ UNCHANGED <<shelf, pausedSales>>
    BY DEF EndCheckout, Excuse
  <1>3. /\ handler' \in CounterCalls
        /\ \A pc : UnitsAt(handler', pc) = UnitsAt(handler, pc) - UnitsIf(handler[c], pc) + UnitsIf(Idle, pc)
    BY <1>1, <1>2, CallKeeps DEF CounterCall
  <1>4. /\ UnitsAt(handler', "sold") = UnitsAt(handler, "sold") - Units(handler[c].lines) + 0
        /\ UnitsAt(handler', "fetch") = UnitsAt(handler, "fetch") - 0 + 0
    <2>1. /\ UnitsIf(handler[c], "sold") = Units(handler[c].lines) /\ UnitsIf(Idle, "sold") = 0
          /\ UnitsIf(handler[c], "fetch") = 0 /\ UnitsIf(Idle, "fetch") = 0
      BY <1>2 DEF UnitsIf, Idle
    <2>2. /\ UnitsAt(handler', "sold") = UnitsAt(handler, "sold") - UnitsIf(handler[c], "sold") + UnitsIf(Idle, "sold")
          /\ UnitsAt(handler', "fetch") = UnitsAt(handler, "fetch") - UnitsIf(handler[c], "fetch") + UnitsIf(Idle, "fetch")
      BY <1>3
    <2> QED BY <2>1, <2>2
  <1>5. /\ Units(cart) \in Int /\ PausedUnits(pausedSales) \in Int
        /\ UnitsAt(handler, "fetch") \in Int /\ UnitsAt(handler, "sold") \in Int
        /\ owed \in Int /\ excused \in BOOLEAN
    BY <1>1, UnitsAreNumbers DEF CounterState
  <1>6. owed' \in Int /\ excused' \in BOOLEAN
    BY <1>2, <1>5
  <1>7. CounterState'
    BY <1>1, <1>2, <1>3, <1>6, EmptyIsACart DEF CounterState
  <1>8. UnitsKept'
    <2> SUFFICES ASSUME ~excused'
                 PROVE  Units(cart)' + PausedUnits(pausedSales)' + UnitsAt(handler, "fetch")'
                           = owed' + UnitsAt(handler, "sold")'
      BY DEF UnitsKept
    <2>1. ~excused /\ cart = handler[c].lines /\ owed' = owed
      BY <1>2
    <2>2. Units(cart) + PausedUnits(pausedSales) + UnitsAt(handler, "fetch") = owed + UnitsAt(handler, "sold")
      BY <1>1, <2>1 DEF UnitsKept
    <2>3. 0 + PausedUnits(pausedSales) + UnitsAt(handler', "fetch") = owed + UnitsAt(handler', "sold")
      BY <1>4, <1>5, <2>1, <2>2
    <2> QED BY <1>2, <2>1, <2>3, EmptyIsACart
  <1> QED BY <1>7, <1>8 DEF CounterInv

\* A sale refused changes nothing; one whose answer is lost is not counted on.
LEMMA FailCheckoutKeeps ==
    ASSUME CounterInv, NEW c \in Calls, FailCheckout(c)
    PROVE  CounterInv'
  <1>1. CounterState /\ UnitsKept /\ handler[c] \in CounterCall /\ Idle \in CounterCall
    BY CallAt, IdleIsACall DEF CounterInv
  <1>2. /\ handler[c].pc \in {"sold", "failed"} /\ handler' = [handler EXCEPT ![c] = Idle]
        /\ excused' = (excused \/ handler[c].pc = "sold")
        /\ owed' = IF handler[c].pc = "sold" THEN 0 ELSE owed
        /\ UNCHANGED <<shelf, cart, pausedSales>>
    BY DEF FailCheckout, Excuse
  <1>3. CASE handler[c].pc = "sold"
    <2>1. handler' \in CounterCalls
      BY <1>1, <1>2, CallKeeps DEF CounterCall
    <2>2. excused' = TRUE /\ owed' = 0
      BY <1>2, <1>3
    <2>3. CounterState'
      <3>1. excused' \in BOOLEAN /\ owed' \in Int
        BY ONLY <2>2
      <3> QED BY <1>1, <1>2, <2>1, <3>1 DEF CounterState
    <2> QED BY <2>2, <2>3 DEF CounterInv, UnitsKept
  <1>4. CASE handler[c].pc = "failed"
    <2>1. (excused' <=> excused) /\ owed' = owed
      BY <1>2, <1>4
    <2>2. excused' = excused
      BY <1>1, <1>2, <1>4 DEF CounterState
    <2>3. Idle.pc = "idle"
      BY DEF Idle
    <2> QED BY <1>1, <1>2, <1>4, <2>1, <2>2, <2>3, CallAloneKeeps DEF CounterCall
  <1> QED BY <1>2, <1>3, <1>4

\* The cart is put aside.
LEMMA PauseKeeps == ASSUME CounterInv, PauseSale PROVE CounterInv'
  <1> DEFINE same == \E lines \in pausedSales : Signature(lines) = Signature(cart)
  <1>1. CounterState /\ UnitsKept
    BY DEF CounterInv
  <1>2. /\ pausedSales' = (IF same THEN pausedSales ELSE pausedSales \cup {cart})
        /\ excused' = (excused \/ same) /\ owed' = (IF same THEN 0 ELSE owed)
        /\ cart' = EmptyCart /\ UNCHANGED <<shelf, handler>>
    BY DEF PauseSale, Excuse
  <1>3. same \in BOOLEAN
    OBVIOUS
  <1> HIDE DEF same
  <1>4. /\ Units(cart) \in Int /\ PausedUnits(pausedSales) \in Int
        /\ UnitsAt(handler, "fetch") \in Int /\ UnitsAt(handler, "sold") \in Int
        /\ owed \in Int /\ excused \in BOOLEAN
    BY <1>1, UnitsAreNumbers DEF CounterState
  <1>5. owed' \in Int /\ excused' \in BOOLEAN
    BY <1>2, <1>3, <1>4
  <1>6. pausedSales' \in SUBSET Carts /\ IsFiniteSet(pausedSales')
    BY <1>1, <1>2, FS_AddElement DEF CounterState
  <1>7. CounterState'
    BY <1>1, <1>2, <1>5, <1>6, EmptyIsACart DEF CounterState
  <1>8. UnitsKept'
    <2> SUFFICES ASSUME ~excused'
                 PROVE  Units(cart)' + PausedUnits(pausedSales)' + UnitsAt(handler, "fetch")'
                           = owed' + UnitsAt(handler, "sold")'
      BY DEF UnitsKept
    <2>1. ~excused /\ ~same
      BY <1>2
    <2>2. owed' = owed /\ pausedSales' = pausedSales \cup {cart}
      BY <1>2, <2>1
    <2>3. cart \notin pausedSales
      BY <2>1 DEF same
    <2>4. PausedUnits(pausedSales \cup {cart}) = PausedUnits(pausedSales) + Units(cart)
      BY <1>1, <2>3, OneMorePaused DEF CounterState
    <2>5. Units(cart) + PausedUnits(pausedSales) + UnitsAt(handler, "fetch") = owed + UnitsAt(handler, "sold")
      BY <1>1, <2>1 DEF UnitsKept
    <2>6. 0 + PausedUnits(pausedSales \cup {cart}) + UnitsAt(handler, "fetch") = owed + UnitsAt(handler, "sold")
      BY <1>4, <2>4, <2>5
    <2> QED BY <1>2, <2>2, <2>6, EmptyIsACart
  <1> QED BY <1>7, <1>8 DEF CounterInv

\* A paused sale is being resumed: its units are on the way.
LEMMA BeginResumeKeeps ==
    ASSUME CounterInv, NEW c \in Calls, NEW lines \in pausedSales, BeginResume(c, lines)
    PROVE  CounterInv'
  <1>1. CounterState /\ UnitsKept
    BY DEF CounterInv
  <1>2. /\ handler[c].pc = "idle" /\ pausedSales' = pausedSales \ {lines}
        /\ UNCHANGED <<shelf, cart, excused, owed>> /\ lines \in Carts
    BY <1>1 DEF BeginResume, Admitted, CounterState
  <1>3. PICK call : call = [pc |-> "fetch", lines |-> lines]
    OBVIOUS
  <1>4. call \in CounterCall /\ call.pc = "fetch" /\ call.lines = lines
    BY <1>2, <1>3 DEF CounterCall
  <1>5. handler' = [handler EXCEPT ![c] = call]
    BY <1>3 DEF BeginResume
  <1>6. /\ handler' \in CounterCalls
        /\ \A pc : UnitsAt(handler', pc) = UnitsAt(handler, pc) - UnitsIf(handler[c], pc) + UnitsIf(call, pc)
    BY <1>4, <1>5, CallKeeps DEF CounterCall
  <1>7. /\ UnitsAt(handler', "sold") = UnitsAt(handler, "sold") - 0 + 0
        /\ UnitsAt(handler', "fetch") = UnitsAt(handler, "fetch") - 0 + Units(lines)
    <2>1. /\ UnitsIf(handler[c], "sold") = 0 /\ UnitsIf(call, "sold") = 0
          /\ UnitsIf(handler[c], "fetch") = 0 /\ UnitsIf(call, "fetch") = Units(lines)
      BY <1>2, <1>4 DEF UnitsIf
    <2>2. /\ UnitsAt(handler', "sold") = UnitsAt(handler, "sold") - UnitsIf(handler[c], "sold") + UnitsIf(call, "sold")
          /\ UnitsAt(handler', "fetch") = UnitsAt(handler, "fetch") - UnitsIf(handler[c], "fetch") + UnitsIf(call, "fetch")
      BY <1>6
    <2> QED BY <2>1, <2>2
  <1>8. PausedUnits(pausedSales \ {lines}) = PausedUnits(pausedSales) - Units(lines)
    BY <1>1, OneLessPaused DEF CounterState
  <1>9. /\ Units(cart) \in Int /\ PausedUnits(pausedSales) \in Int /\ Units(lines) \in Int
        /\ UnitsAt(handler, "fetch") \in Int /\ UnitsAt(handler, "sold") \in Int /\ owed \in Int
    BY <1>1, <1>2, UnitsAreNumbers, UnitsAreANumber DEF CounterState
  <1>10. pausedSales' \in SUBSET Carts /\ IsFiniteSet(pausedSales')
    BY <1>1, <1>2, FS_RemoveElement DEF CounterState
  <1>11. CounterState'
    BY <1>1, <1>2, <1>6, <1>10 DEF CounterState
  <1>12. ~excused => Units(cart) + PausedUnits(pausedSales \ {lines}) + UnitsAt(handler', "fetch")
                        = owed + UnitsAt(handler', "sold")
    BY <1>1, <1>7, <1>8, <1>9 DEF UnitsKept
  <1>13. UnitsKept'
    BY <1>2, <1>12 DEF UnitsKept
  <1> QED BY <1>11, <1>13 DEF CounterInv

\* A sale resumed at the prices of today is a cart of as many units.
LEMMA ResumedIsACart ==
    ASSUME NEW lines \in Carts, NEW products, NEW new,
           \A p \in DOMAIN lines : products[p].price \in Prices /\ products[p].stock \in 0..MaxStock,
           new = [p \in DOMAIN lines |-> Repriced(lines[p], products[p])]
    PROVE  new \in Carts /\ Units(new) = Units(lines)
  <1>1. /\ lines \in [DOMAIN lines -> LineRecord] /\ DOMAIN lines \subseteq Products
        /\ IsFiniteSet(DOMAIN lines) /\ \A p \in DOMAIN lines : OnAShelf(lines[p])
    BY CartIs
  <1>2. ASSUME NEW p \in DOMAIN lines
        PROVE  /\ new[p] \in LineRecord /\ new[p].qty = lines[p].qty
               /\ new[p].off <= new[p].unit * new[p].qty /\ OnAShelf(new[p])
    <2>1. lines[p] \in LineRecord /\ OnAShelf(lines[p])
      BY <1>1
    <2> QED BY <2>1, RepricedFits
  <1>3. DOMAIN new = DOMAIN lines /\ new = [p \in DOMAIN lines |-> new[p]]
    OBVIOUS
  <1>4. new \in [DOMAIN new -> LineRecord]
    BY <1>2, <1>3
  <1>5. new \in Carts
    BY <1>1, <1>2, <1>3, <1>4, CartIs
  <1>6. Units(new) = Units(lines)
    BY <1>2, <1>3, SameQuantities
  <1> QED BY <1>5, <1>6

\* The sale resumed takes the place of an empty cart.
LEMMA EndResumeKeeps ==
    ASSUME CounterInv, NEW c \in Calls, NEW failed \in SUBSET Products, EndResume(c, failed)
    PROVE  CounterInv'
  <1>1. CounterState /\ UnitsKept /\ handler[c] \in CounterCall /\ Idle \in CounterCall
    BY CallAt, IdleIsACall DEF CounterInv
  <1>2. PICK lines \in Carts : lines = handler[c].lines
    BY <1>1 DEF CounterCall
  <1>3. PICK products : products = [p \in DOMAIN lines |-> AskedFor(p, lines[p], failed)]
    OBVIOUS
  <1>4. /\ handler[c].pc = "fetch" /\ handler' = [handler EXCEPT ![c] = Idle]
        /\ excused' = (excused \/ cart # EmptyCart) /\ owed' = (IF cart # EmptyCart THEN 0 ELSE owed)
        /\ UNCHANGED <<shelf, pausedSales>>
    BY DEF EndResume, Excuse
  <1>5. cart' = [p \in DOMAIN lines |-> Repriced(lines[p], products[p])]
    BY <1>2, <1>3 DEF EndResume
  <1>6. ASSUME NEW p \in DOMAIN lines
        PROVE  products[p].price \in Prices /\ products[p].stock \in 0..MaxStock
    <2>1. lines[p] \in LineRecord /\ p \in Products /\ OnAShelf(lines[p])
      BY CartIs
    <2>2. lines[p].seen \in Prices /\ lines[p].avail \in 0..MaxStock
      BY <2>1, CounterAssumption DEF LineRecord, OnAShelf
    <2>3. shelf[p] \in Product
      BY <1>1, <2>1 DEF CounterState
    <2>4. shelf[p].price \in Prices /\ shelf[p].stock \in 0..MaxStock
      BY <2>3 DEF Product
    <2>5. \/ products[p] = [price |-> lines[p].seen, stock |-> lines[p].avail]
          \/ products[p] = [price |-> shelf[p].price, stock |-> shelf[p].stock]
      BY <1>3 DEF AskedFor
    <2> QED BY <2>2, <2>4, <2>5
  <1>7. cart' \in Carts /\ Units(cart') = Units(lines)
    BY <1>5, <1>6, ResumedIsACart
  <1>8. /\ handler' \in CounterCalls
        /\ \A pc : UnitsAt(handler', pc) = UnitsAt(handler, pc) - UnitsIf(handler[c], pc) + UnitsIf(Idle, pc)
    BY <1>1, <1>4, CallKeeps DEF CounterCall
  <1>9. /\ UnitsAt(handler', "sold") = UnitsAt(handler, "sold") - 0 + 0
        /\ UnitsAt(handler', "fetch") = UnitsAt(handler, "fetch") - Units(lines) + 0
    <2>1. /\ UnitsIf(handler[c], "sold") = 0 /\ UnitsIf(Idle, "sold") = 0
          /\ UnitsIf(handler[c], "fetch") = Units(lines) /\ UnitsIf(Idle, "fetch") = 0
      BY <1>2, <1>4 DEF UnitsIf, Idle
    <2>2. /\ UnitsAt(handler', "sold") = UnitsAt(handler, "sold") - UnitsIf(handler[c], "sold") + UnitsIf(Idle, "sold")
          /\ UnitsAt(handler', "fetch") = UnitsAt(handler, "fetch") - UnitsIf(handler[c], "fetch") + UnitsIf(Idle, "fetch")
      BY <1>8
    <2> QED BY <2>1, <2>2
  <1>10. /\ Units(lines) \in Int /\ PausedUnits(pausedSales) \in Int
         /\ UnitsAt(handler, "fetch") \in Int /\ UnitsAt(handler, "sold") \in Int
         /\ owed \in Int /\ excused \in BOOLEAN
    BY <1>1, UnitsAreNumbers, UnitsAreANumber DEF CounterState
  <1>11. owed' \in Int /\ excused' \in BOOLEAN
    BY <1>4, <1>10
  <1>12. CounterState'
    BY <1>1, <1>4, <1>7, <1>8, <1>11 DEF CounterState
  <1>13. UnitsKept'
    <2> SUFFICES ASSUME ~excused'
                 PROVE  Units(cart)' + PausedUnits(pausedSales)' + UnitsAt(handler, "fetch")'
                           = owed' + UnitsAt(handler, "sold")'
      BY DEF UnitsKept
    <2>1. ~excused /\ cart = EmptyCart /\ owed' = owed
      BY <1>4
    <2>2. Units(cart) + PausedUnits(pausedSales) + UnitsAt(handler, "fetch") = owed + UnitsAt(handler, "sold")
      BY <1>1, <2>1 DEF UnitsKept
    <2>3. Units(cart) = 0
      BY <2>1, EmptyIsACart
    <2>4. Units(lines) + PausedUnits(pausedSales) + UnitsAt(handler', "fetch") = owed + UnitsAt(handler', "sold")
      BY <1>9, <1>10, <2>2, <2>3
    <2> QED BY <1>4, <1>7, <2>1, <2>4
  <1> QED BY <1>12, <1>13 DEF CounterInv

\* A paused sale is given up: its units are owed no more.
LEMMA DeleteKeeps ==
    ASSUME CounterInv, NEW lines \in pausedSales, DeletePaused(lines)
    PROVE  CounterInv'
  <1>1. CounterState /\ UnitsKept
    BY DEF CounterInv
  <1>2. /\ pausedSales' = pausedSales \ {lines} /\ UNCHANGED <<shelf, cart, handler, excused>>
        /\ owed' = IF excused THEN 0 ELSE owed - Units(lines)
    BY DEF DeletePaused, Owe
  <1>3. PausedUnits(pausedSales \ {lines}) = PausedUnits(pausedSales) - Units(lines)
    BY <1>1, OneLessPaused DEF CounterState
  <1>4. lines \in Carts
    BY <1>1 DEF CounterState
  <1>5. /\ Units(cart) \in Int /\ PausedUnits(pausedSales) \in Int /\ Units(lines) \in Int
        /\ UnitsAt(handler, "fetch") \in Int /\ UnitsAt(handler, "sold") \in Int
        /\ owed \in Int
    BY <1>1, <1>4, UnitsAreNumbers, UnitsAreANumber DEF CounterState
  <1>6. owed' \in Int
    BY <1>2, <1>5
  <1>7. pausedSales' \in SUBSET Carts /\ IsFiniteSet(pausedSales')
    BY <1>1, <1>2, FS_RemoveElement DEF CounterState
  <1>8. CounterState'
    BY <1>1, <1>2, <1>6, <1>7 DEF CounterState
  <1>9. ~excused => Units(cart) + PausedUnits(pausedSales \ {lines}) + UnitsAt(handler, "fetch")
                       = owed' + UnitsAt(handler, "sold")
    BY <1>1, <1>2, <1>3, <1>5 DEF UnitsKept
  <1>10. UnitsKept'
    BY <1>2, <1>9 DEF UnitsKept
  <1> QED BY <1>8, <1>10 DEF CounterInv

\* The shelf or the modal changes.
LEMMA PageKeeps ==
    ASSUME CounterInv, shelf' \in [Products -> Product],
           UNCHANGED <<cart, pausedSales, handler, excused, owed>>
    PROVE  CounterInv'
  BY DEF CounterInv, CounterState, UnitsKept

\* Every step of the page keeps the invariant.
LEMMA CounterNextInv ==
    ASSUME CounterInv, [CounterNext]_counterVars
    PROVE  CounterInv'
  <1>1. shelf \in [Products -> Product]
    BY DEF CounterInv, CounterState
  <1>2. ASSUME NEW p \in Products, NEW product \in Product, ShelfMoves(p, product)
        PROVE  CounterInv'
    BY <1>1, <1>2, PageKeeps DEF ShelfMoves
  <1>3. ASSUME NEW p \in Products, NEW product \in Product, Ring(p, product)
        PROVE  CounterInv'
    BY <1>3, RingKeeps
  <1>4. ASSUME NEW p \in Products, RemoveFromCart(p)
        PROVE  CounterInv'
    BY <1>4, RemoveKeeps
  <1>5. ASSUME NEW p \in Products, NEW quantity \in 1..MaxStock, UpdateQuantity(p, quantity)
        PROVE  CounterInv'
    BY <1>5, QuantityKeeps
  <1>6. ASSUME NEW p \in Products, NEW kind \in {"none", "whole", "half"}, UpdateDiscount(p, kind)
        PROVE  CounterInv'
    BY <1>6, DiscountKeeps
  <1>7. ASSUME NEW p \in Products, NEW price \in Prices, UpdateItemPrice(p, price)
        PROVE  CounterInv'
    BY <1>7, PriceKeeps
  <1>8. ASSUME NEW m \in {"payment", "paused"}, OpenModal(m)
        PROVE  CounterInv'
    BY <1>1, <1>8, PageKeeps DEF OpenModal
  <1>9. CASE CloseModal
    BY <1>1, <1>9, PageKeeps DEF CloseModal
  <1>10. CASE PauseSale
    BY <1>10, PauseKeeps
  <1>11. ASSUME NEW c \in Calls, BeginScan(c)
         PROVE  CounterInv'
    BY <1>11, BeginScanKeeps
  <1>12. ASSUME NEW c \in Calls, NEW p \in Products, EndScan(c, p)
         PROVE  CounterInv'
    BY <1>12, EndScanKeeps
  <1>13. ASSUME NEW c \in Calls, BeginCheckout(c)
         PROVE  CounterInv'
    BY <1>13, BeginCheckoutKeeps
  <1>14. ASSUME NEW c \in Calls, Sell(c)
         PROVE  CounterInv'
    BY <1>14, SellKeeps
  <1>15. ASSUME NEW c \in Calls, EndCheckout(c)
         PROVE  CounterInv'
    BY <1>15, EndCheckoutKeeps
  <1>16. ASSUME NEW c \in Calls, FailCheckout(c)
         PROVE  CounterInv'
    BY <1>16, FailCheckoutKeeps
  <1>17. ASSUME NEW c \in Calls, NEW lines \in pausedSales, BeginResume(c, lines)
         PROVE  CounterInv'
    BY <1>17, BeginResumeKeeps
  <1>18. ASSUME NEW c \in Calls, NEW failed \in SUBSET Products, EndResume(c, failed)
         PROVE  CounterInv'
    BY <1>18, EndResumeKeeps
  <1>19. ASSUME NEW lines \in pausedSales, DeletePaused(lines)
         PROVE  CounterInv'
    BY <1>19, DeleteKeeps
  <1>20. CASE UNCHANGED counterVars
    BY <1>1, <1>20, PageKeeps DEF counterVars
  <1> QED BY <1>2, <1>3, <1>4, <1>5, <1>6, <1>7, <1>8, <1>9, <1>10, <1>11, <1>12, <1>13, <1>14, <1>15,
             <1>16, <1>17, <1>18, <1>19, <1>20 DEF CounterNext

\* A step of the browser is one of the page, or leaves it alone.
LEMMA CounterStep == [BrowserNext]_browserVars => [CounterNext]_counterVars
  BY DEF BrowserNext, browserVars

\* A fresh line is charged what it shows.
LEMMA FreshIsAccepted ==
    ASSUME CounterState, NEW lines \in Carts, \A p \in DOMAIN lines : Fresh(p, lines[p])
    PROVE  Accepts(lines)
  <1>1. /\ lines \in [DOMAIN lines -> LineRecord] /\ DOMAIN lines \subseteq Products
        /\ IsFiniteSet(DOMAIN lines)
        /\ \A p \in DOMAIN lines : lines[p].off <= lines[p].unit * lines[p].qty
    BY CartIs
  <1>2. \A p \in DOMAIN lines : Charged(p, lines[p]) = lines[p].unit
    BY DEF Fresh, Charged
  <1>3. ASSUME NEW p \in DOMAIN lines
        PROVE  /\ shelf[p].active
               /\ lines[p].qty \in 1..shelf[p].stock
               /\ lines[p].off <= Charged(p, lines[p]) * lines[p].qty
    <2>1. lines[p] \in LineRecord /\ shelf[p] \in Product
      BY <1>1 DEF CounterState
    <2>2. lines[p].qty \in Nat /\ lines[p].avail \in Nat
      BY <2>1 DEF LineRecord
    <2>3. MaxStock \in Nat
      BY CounterAssumption
    <2>4. shelf[p].stock \in Nat
      <3>1. shelf[p].stock \in 0..MaxStock
        BY <2>1 DEF Product
      <3> QED BY <2>3, <3>1
    <2>5. lines[p].qty > 0 /\ lines[p].qty <= lines[p].avail /\ lines[p].avail <= shelf[p].stock
      BY DEF Fresh
    <2>6. lines[p].qty \in 1..shelf[p].stock
      BY <2>2, <2>4, <2>5
    <2>7. shelf[p].active
      BY DEF Fresh
    <2> QED BY <1>1, <1>2, <2>6, <2>7
  <1>4. [p \in DOMAIN lines |-> Charged(p, lines[p])] = [p \in DOMAIN lines |-> lines[p].unit]
    BY <1>2
  <1>5. PICK unit : unit = [p \in DOMAIN lines |-> lines[p].unit]
    OBVIOUS
  <1>6. \A p \in DOMAIN lines : AmountsAt(lines, unit)[p] \in Int
    <2> SUFFICES ASSUME NEW p \in DOMAIN lines PROVE lines[p].unit * lines[p].qty - lines[p].off \in Int
      BY <1>5 DEF AmountsAt
    <2>1. lines[p].unit \in Prices /\ lines[p].qty \in Nat /\ lines[p].off \in Nat
      BY <1>1 DEF LineRecord
    <2>2. lines[p].unit \in Nat
      BY <2>1, CounterAssumption
    <2> QED BY <2>1, <2>2
  <1>7. SumFunctionOnSet(AmountsAt(lines, unit), DOMAIN lines) \in Int
    BY <1>1, <1>6, SumInt
  <1>8. /\ Total(lines, LAMBDA p : lines[p].unit) = SumFunctionOnSet(AmountsAt(lines, unit), DOMAIN lines)
        /\ Total(lines, LAMBDA p : Charged(p, lines[p])) = SumFunctionOnSet(AmountsAt(lines, unit), DOMAIN lines)
    BY <1>4, <1>5, TotalsAreSums
  <1>9. Total(lines, LAMBDA p : Charged(p, lines[p])) <= Total(lines, LAMBDA p : lines[p].unit)
    BY <1>7, <1>8
  <1> QED BY <1>3, <1>9 DEF Accepts

\* FreshCheckoutIsAccepted for any shelf, any prices and any cart the page can hold: what
\* addToCart, the discounts, the price of the cashier and a resumed sale leave in the cart
\* passes every check of SalesService.create while the page's copies are current and the
\* products are still active.
THEOREM CounterSalesAreAccepted == BrowserSpec => []FreshCheckoutIsAccepted
  <1>1. BrowserInit => CounterInv
    BY CounterInitInv DEF BrowserInit
  <1>2. CounterInv /\ [BrowserNext]_browserVars => CounterInv'
    BY CounterStep, CounterNextInv
  <1>3. CounterInv => FreshCheckoutIsAccepted
    <2> SUFFICES ASSUME CounterInv, NEW c \in Calls,
                        \A p \in DOMAIN handler[c].lines : Fresh(p, handler[c].lines[p])
                 PROVE  Accepts(handler[c].lines)
      BY DEF FreshCheckoutIsAccepted
    <2>1. CounterState /\ handler[c].lines \in Carts
      BY CallAt DEF CounterInv, CounterCall
    <2> QED BY <2>1, FreshIsAccepted
  <1> QED BY <1>1, <1>2, <1>3, PTL DEF BrowserSpec

\* NothingRungUpIsLost for any number of products, paused sales and requests in flight:
\* the page's folds are sums, and every step moves units from one of them to another.
THEOREM CounterKeepsWhatIsRungUp == BrowserSpec => []NothingRungUpIsLost
  <1>1. BrowserInit => CounterInv
    BY CounterInitInv DEF BrowserInit
  <1>2. CounterInv /\ [BrowserNext]_browserVars => CounterInv'
    BY CounterStep, CounterNextInv
  <1>3. CounterInv => NothingRungUpIsLost
    <2> SUFFICES ASSUME CounterInv, ~excused, \A c \in Calls : handler[c].pc # "sold"
                 PROVE  Held + Resuming = owed
      BY DEF NothingRungUpIsLost
    <2>1. CounterState /\ UnitsKept
      BY DEF CounterInv
    <2>2. Held = Units(cart) + PausedUnits(pausedSales)
      BY PausedUnitsAreASum DEF Held, PausedUnits
    <2>3. Resuming = UnitsAt(handler, "fetch")
      BY ResumingIsASum
    <2>4. UnitsAt(handler, "sold") = 0
      <3>1. {c \in Calls : handler[c].pc = "sold"} = {}
        OBVIOUS
      <3> QED BY <3>1, SumEmpty DEF UnitsAt
    <2>5. /\ Units(cart) \in Int /\ PausedUnits(pausedSales) \in Int
          /\ UnitsAt(handler, "fetch") \in Int /\ owed \in Int
      BY <2>1, UnitsAreNumbers DEF CounterState
    <2>6. Units(cart) + PausedUnits(pausedSales) + UnitsAt(handler, "fetch") = owed + UnitsAt(handler, "sold")
      BY <2>1 DEF UnitsKept
    <2> QED BY <2>2, <2>3, <2>4, <2>5, <2>6
  <1> QED BY <1>1, <1>2, <1>3, PTL DEF BrowserSpec
-----------------------------------------------------------------------------
(* The types of the point of sale *)

\* The modals there are; an empty cart is not paused.
PageShape == modal \in {"none", "payment", "paused"} /\ EmptyCart \notin pausedSales

\* It stays so: a cart that is put aside has lines.
LEMMA PageShapeKept ==
    ASSUME PageShape, [CounterNext]_counterVars
    PROVE  PageShape'
  <1>1. modal' \in {"none", "payment", "paused"} /\ pausedSales' \subseteq pausedSales \cup ({cart} \ {EmptyCart})
    <2>1. ASSUME NEW p \in Products, NEW product \in Product, ShelfMoves(p, product) \/ Ring(p, product)
          PROVE  UNCHANGED <<modal, pausedSales>>
      BY <2>1 DEF ShelfMoves, Ring, Change
    <2>2. ASSUME NEW p \in Products,
                 \/ RemoveFromCart(p)
                 \/ \E quantity \in 1..MaxStock : UpdateQuantity(p, quantity)
                 \/ \E kind \in {"none", "whole", "half"} : UpdateDiscount(p, kind)
                 \/ \E price \in Prices : UpdateItemPrice(p, price)
          PROVE  UNCHANGED <<modal, pausedSales>>
      BY <2>2 DEF RemoveFromCart, UpdateQuantity, UpdateDiscount, UpdateItemPrice, Change
    <2>3. ASSUME NEW m \in {"payment", "paused"}, OpenModal(m)
          PROVE  modal' \in {"none", "payment", "paused"} /\ pausedSales' = pausedSales
      BY <2>3 DEF OpenModal
    <2>4. ASSUME CloseModal \/ PauseSale
          PROVE  /\ modal' \in {"none", "payment", "paused"}
                 /\ pausedSales' \subseteq pausedSales \cup ({cart} \ {EmptyCart})
      BY <2>4 DEF CloseModal, PauseSale, PageShape
    <2>5. ASSUME NEW c \in Calls,
                 BeginScan(c) \/ (\E p \in Products : EndScan(c, p)) \/ BeginCheckout(c) \/ Sell(c) \/ FailCheckout(c)
          PROVE  UNCHANGED <<modal, pausedSales>>
      BY <2>5 DEF BeginScan, EndScan, Change, BeginCheckout, Sell, FailCheckout
    <2>6. ASSUME NEW c \in Calls, EndCheckout(c) \/ \E failed \in SUBSET Products : EndResume(c, failed)
          PROVE  modal' \in {"none", modal} /\ pausedSales' = pausedSales
      BY <2>6 DEF EndCheckout, EndResume
    <2>7. ASSUME NEW lines \in pausedSales, DeletePaused(lines) \/ \E c \in Calls : BeginResume(c, lines)
          PROVE  modal' = modal /\ pausedSales' = pausedSales \ {lines}
      BY <2>7 DEF DeletePaused, BeginResume
    <2>8. CASE UNCHANGED counterVars
      BY <2>8 DEF counterVars, PageShape
    <2> QED BY <2>1, <2>2, <2>3, <2>4, <2>5, <2>6, <2>7, <2>8 DEF CounterNext, PageShape
  <1> QED BY <1>1 DEF PageShape

\* A discount that fits its line fits the dearest there can be.
LEMMA LineFits ==
    ASSUME NEW line \in LineRecord, OnAShelf(line), line.off <= line.unit * line.qty
    PROVE  line \in Line
  <1>1. Upper \in Prices /\ \A price \in Prices : price <= Upper
    BY CounterAssumption DEF Upper
  <1>2. PICK qty \in Nat, unit \in Prices, off \in Nat : qty = line.qty /\ unit = line.unit /\ off = line.off
    BY DEF LineRecord
  <1>3. /\ unit \in Nat /\ Upper \in Nat /\ MaxStock \in Nat /\ unit <= Upper /\ qty <= MaxStock
        /\ off <= unit * qty
    BY <1>1, <1>2, CounterAssumption DEF OnAShelf
  <1>4. off \in 0..MaxStock * Upper
    <2>1. PICK top \in Nat, most \in Nat : top = Upper /\ most = MaxStock
      BY <1>3
    <2>2. unit * qty <= top * qty
      BY ONLY <1>3, <2>1
    <2>3. top * qty <= most * top
      BY ONLY <1>3, <2>1
    <2>4. unit * qty \in Nat /\ top * qty \in Nat /\ most * top \in Nat
      BY ONLY <1>3
    <2>5. off <= most * top
      BY ONLY <1>3, <2>2, <2>3, <2>4
    <2> QED BY <2>1, <2>4, <2>5
  <1>5. line.qty \in 0..MaxStock /\ line.avail \in 0..MaxStock
    BY CounterAssumption DEF OnAShelf, LineRecord
  <1> QED BY <1>2, <1>4, <1>5 DEF LineRecord, Line

\* So a cart's lines are lines.
LEMMA CartFits == ASSUME NEW lines \in Carts PROVE Cart(lines)
  <1>1. /\ lines \in [DOMAIN lines -> LineRecord] /\ DOMAIN lines \subseteq Products
        /\ \A p \in DOMAIN lines : lines[p].off <= lines[p].unit * lines[p].qty
        /\ \A p \in DOMAIN lines : OnAShelf(lines[p])
    BY CartIs
  <1>2. ASSUME NEW p \in DOMAIN lines PROVE lines[p] \in Line
    <2>1. lines[p] \in LineRecord
      BY <1>1
    <2> QED BY <1>1, <2>1, LineFits
  <1> QED BY <1>1, <1>2 DEF Cart

\* What the page holds is of its type.
LEMMA CounterIsTyped == ASSUME CounterInv, PageShape PROVE CounterTypeOK
  <1>1. /\ shelf \in [Products -> Product] /\ cart \in Carts /\ pausedSales \subseteq Carts
        /\ owed \in Int /\ excused \in BOOLEAN /\ CounterState
    BY DEF CounterInv, CounterState
  <1>2. Cart(cart) /\ \A lines \in pausedSales : Cart(lines) /\ lines # EmptyCart
    BY <1>1, CartFits DEF PageShape
  <1>3. ASSUME NEW c \in Calls
        PROVE  /\ handler[c].pc \in {"idle", "scan", "sell", "sold", "failed", "fetch"}
               /\ Cart(handler[c].lines)
    <2>1. handler[c] \in CounterCall
      BY <1>1, CallAt
    <2>2. handler[c].pc \in {"idle", "scan", "sell", "sold", "failed", "fetch"} /\ handler[c].lines \in Carts
      BY <2>1 DEF CounterCall
    <2> QED BY <2>2, CartFits
  <1> QED BY <1>1, <1>2, <1>3 DEF CounterTypeOK, PageShape

-----------------------------------------------------------------------------
(* The types of the imports *)

\* The rows of a sheet; a workbook goes sheet by sheet.
RowsOf(file, sheet) == {i \in DOMAIN file : file[i].sheet = sheet}

GoesBySheet(file) ==
    \A i, j \in DOMAIN file : i < j /\ file[i].sheet = "clientes" => file[j].sheet = "clientes"

\* The job stands before a row: in the products it passed over none but products, and
\* the first of them is the first row.
BeforeARow(j) ==
    /\ j.sheet # "clientes" => j.row <= Cardinality(RowsOf(j.file, "productos")) + 1
    /\ j.file[j.row].sheet = "productos" => j.row = 1 \/ j.sheet = "productos"

\* How far the job has come, and what the page was told of it.
JobShape(j) ==
    /\ GoesBySheet(j.file)
    /\ j.row <= Len(j.file) + 1 /\ RowsSettled(j) < j.row
    /\ j.pc = "row" /\ j.row <= Len(j.file) => BeforeARow(j)
    /\ j.pc = "create" => j.file[j.row].sheet = j.sheet
    /\ j.kept => j.status # "PARSING"

ImportShape ==
    /\ JobShape(job)
    /\ Retrying # {} => job.status # "PARSING"
    /\ page \in {"none", "loading", "stuck", "PROCESSING", "COMPLETED", "FAILED"}

\* There are n numbers up to n.
LEMMA UpTo == \A n \in Nat : IsFiniteSet(1..n) /\ Cardinality(1..n) = n
  <1> SUFFICES ASSUME NEW n \in Nat PROVE IsFiniteSet(1..n) /\ Cardinality(1..n) = n
    OBVIOUS
  <1>1. IsFiniteSet(1..n) /\ Cardinality(1..n) = IF 1 > n THEN 0 ELSE n - 1 + 1
    BY FS_Interval
  <1>2. (IF 1 > n THEN 0 ELSE n - 1 + 1) = n
    OBVIOUS
  <1> QED BY <1>1, <1>2

\* The sheets share the rows: the products come first.
LEMMA SheetCounts ==
    ASSUME NEW file \in Seq(ParsedRow), GoesBySheet(file)
    PROVE  /\ Cardinality(RowsOf(file, "productos")) \in Nat /\ Cardinality(RowsOf(file, "clientes")) \in Nat
           /\ Cardinality(RowsOf(file, "productos")) + Cardinality(RowsOf(file, "clientes")) = Len(file)
           /\ \A r \in DOMAIN file :
                 /\ file[r].sheet \in {"productos", "clientes"}
                 /\ file[r].sheet = "productos" => r <= Cardinality(RowsOf(file, "productos"))
                 /\ file[r].sheet = "clientes" => Cardinality(RowsOf(file, "productos")) < r
  <1> DEFINE products == RowsOf(file, "productos")
             customers == RowsOf(file, "clientes")
  <1>1. /\ Len(file) \in Nat /\ DOMAIN file = 1..Len(file)
        /\ \A r \in DOMAIN file : file[r].sheet \in {"productos", "clientes"}
    BY DEF ParsedRow, FileRow, Sheets
  <1>2. IsFiniteSet(1..Len(file)) /\ Cardinality(1..Len(file)) = Len(file)
    BY <1>1, UpTo
  <1>3. products \cup customers = 1..Len(file) /\ products \cap customers = {}
    BY <1>1 DEF RowsOf
  <1>4. products \subseteq 1..Len(file) /\ customers \subseteq 1..Len(file)
    BY <1>3
  <1> HIDE DEF products, customers
  <1>5. IsFiniteSet(products) /\ IsFiniteSet(customers)
    BY <1>2, <1>4, FS_Subset
  <1>6. Cardinality(products) \in Nat /\ Cardinality(customers) \in Nat
    BY <1>5, FS_CardinalityType
  <1>7. Cardinality(products) + Cardinality(customers) = Len(file)
    <2>1. Cardinality(products \cup customers)
             = Cardinality(products) + Cardinality(customers) - Cardinality(products \cap customers)
      BY <1>5, FS_Union
    <2>2. Cardinality(products \cap customers) = 0
      <3>1. Cardinality({}) = 0
        BY FS_EmptySet
      <3> QED BY ONLY <1>3, <3>1
    <2>3. Cardinality(products \cup customers) = Len(file)
      BY ONLY <1>2, <1>3
    <2>4. PICK n \in Nat, m \in Nat : n = Cardinality(products) /\ m = Cardinality(customers)
      BY ONLY <1>6
    <2>5. Len(file) = n + m - 0
      BY ONLY <2>1, <2>2, <2>3, <2>4
    <2> QED BY ONLY <2>4, <2>5
  <1>8. ASSUME NEW r \in DOMAIN file, file[r].sheet = "productos"
        PROVE  r <= Cardinality(products)
    <2>1. r \in Nat /\ 1..r \subseteq products
      <3>0. r \in Nat /\ r <= Len(file)
        <4>1. Len(file) \in Nat /\ r \in 1..Len(file)
          BY <1>1
        <4> QED BY ONLY <4>1
      <3> SUFFICES ASSUME NEW i \in 1..r PROVE i \in products
        BY <3>0
      <3>1. i \in DOMAIN file /\ (i < r \/ i = r)
        BY <1>1, <3>0
      <3>2. file[i].sheet # "clientes"
        BY <1>8, <3>1 DEF GoesBySheet
      <3> QED BY <1>1, <3>1, <3>2 DEF products, RowsOf
    <2>2. Cardinality(1..r) = r
      BY <2>1, UpTo
    <2> QED BY <1>5, <2>1, <2>2, FS_Subset
  <1>9. ASSUME NEW r \in DOMAIN file, file[r].sheet = "clientes"
        PROVE  Cardinality(products) < r
    <2>1. r \in Nat /\ r >= 1
      BY <1>1
    <2>2. products \subseteq 1..(r - 1)
      <3> SUFFICES ASSUME NEW i \in products PROVE i \in 1..(r - 1)
        OBVIOUS
      <3>1. i \in DOMAIN file /\ file[i].sheet = "productos"
        BY DEF products, RowsOf
      <3>2. ~(r < i) /\ r # i
        BY <1>9, <3>1 DEF GoesBySheet
      <3> QED BY <1>1, <2>1, <3>1, <3>2
    <2>3. IsFiniteSet(1..(r - 1)) /\ Cardinality(1..(r - 1)) = r - 1
      <3>1. r - 1 \in Nat
        BY <2>1
      <3> QED BY <3>1, UpTo
    <2>4. Cardinality(products) <= r - 1
      BY ONLY <2>2, <2>3, FS_Subset
    <2> QED BY ONLY <1>6, <2>1, <2>4
  <1> QED BY <1>1, <1>6, <1>7, <1>8, <1>9 DEF products, customers

\* What the end of a row leaves alone.
Carried(j, after) == after.sheet = j.sheet /\ after.status = j.status /\ after.kept = j.kept

\* A row's end carries the rest of the job along.
LEMMA RowEndCarries == ASSUME NEW j \in JobRecord PROVE Carried(j, EndRow(j))
  BY DEF EndRow, JobRecord, Carried

\* So do a row skipped, listed or made, and what a retry changes of the job.
LEMMA CountsCarry ==
    ASSUME job \in JobRecord
    PROVE  /\ Carried(job, [job EXCEPT !.skipped = @ + 1])
           /\ Carried(job, AddError(job))
           /\ \A k : Carried(job, [job EXCEPT !.imported = @ + 1, !.known = @ \cup {k}])
           /\ \A i : Pending(i).status = job.status
           /\ \A i, k : Resolve(job, i, k).status = job.status
  BY DEF AddError, Pending, Resolve, JobRecord, Carried

\* The row at work ends: the next one is of its sheet or the first of another.
LEMMA RowEndShape ==
    ASSUME job \in JobRecord, JobShape(job), job.row \in DOMAIN job.file, TheRow.sheet = job.sheet,
           NEW j, CountFields(j), Carried(job, j), NEW after, after = EndRow(j)
    PROVE  JobShape(after) /\ after.status = job.status
  <1>1. /\ after.pc = "row" /\ after.row = job.row + 1 /\ RowsSettled(after) = RowsSettled(job) + 1
        /\ after.file = job.file
    BY RowEndFields DEF CountFields, RowEnded
  <1>2. after.sheet = job.sheet /\ after.status = job.status /\ after.kept = job.kept
    BY RowEndCarries DEF CountFields, Carried
  <1>3. PICK file \in Seq(ParsedRow) : file = job.file
    BY DEF JobRecord
  <1>4. GoesBySheet(file) /\ DOMAIN file = 1..Len(file) /\ Len(file) \in Nat
    BY <1>3 DEF JobShape
  <1>5. PICK r \in DOMAIN file : r = job.row
    BY <1>3
  <1>6. file[r].sheet = job.sheet
    BY <1>3, <1>5 DEF TheRow
  <1>7. RowsSettled(job) \in Int /\ RowsSettled(job) < r /\ r \in Nat
    BY <1>4, <1>5 DEF JobShape, JobRecord, RowsSettled, CountedAhead
  <1>8. after.row <= Len(after.file) + 1 /\ RowsSettled(after) < after.row
    BY <1>1, <1>3, <1>4, <1>5, <1>7
  <1>9. ASSUME r + 1 <= Len(file)
        PROVE  /\ job.sheet # "clientes" => r + 1 <= Cardinality(RowsOf(file, "productos")) + 1
               /\ file[r + 1].sheet = "productos" => job.sheet = "productos"
    <2>1. r + 1 \in DOMAIN file /\ r < r + 1
      BY <1>4, <1>7, <1>9
    <2>2. file[r].sheet \in {"productos", "clientes"} /\ Cardinality(RowsOf(file, "productos")) \in Nat
          /\ (file[r].sheet = "productos" => r <= Cardinality(RowsOf(file, "productos")))
      BY <1>4, SheetCounts
    <2>3. file[r].sheet = "clientes" => file[r + 1].sheet = "clientes"
      BY <1>4, <2>1 DEF GoesBySheet
    <2> QED BY <1>6, <1>7, <2>2, <2>3
  <1>10. after.row <= Len(after.file) => BeforeARow(after)
    BY <1>1, <1>2, <1>3, <1>5, <1>9 DEF BeforeARow
  <1>11. after.kept => after.status # "PARSING"
    BY <1>2 DEF JobShape
  <1> QED BY <1>1, <1>2, <1>3, <1>4, <1>8, <1>10, <1>11 DEF JobShape

\* A job that stands where it stood, or has ended there, keeps its shape.
Placed(j) ==
    /\ j.file = job.file /\ j.row = job.row /\ RowsSettled(j) = RowsSettled(job) /\ j.sheet = job.sheet
    /\ j.kept => job.kept
    /\ j.pc \in {job.pc, "ended"}
    /\ j.status = job.status \/ j.status # "PARSING"

LEMMA PlaceKeepsShape == ASSUME JobShape(job), NEW j, Placed(j) PROVE JobShape(j)
  BY DEF JobShape, Placed, BeforeARow

\* What stays in place when a job ends, is forgotten or begins a row, and in a retry.
LEMMA StepsInPlace ==
    ASSUME job \in JobRecord
    PROVE  /\ job.pc = "row" => \A status \in {"COMPLETED", "FAILED"} :
                                  Placed([job EXCEPT !.status = status, !.pc = "ended"])
           /\ Placed([job EXCEPT !.kept = FALSE])
           /\ \A i : Placed(Pending(i))
           /\ \A i, k : Placed(Resolve(job, i, k))
  <1>1. job.pc = "row" => \A status \in {"COMPLETED", "FAILED"} :
                             Placed([job EXCEPT !.status = status, !.pc = "ended"])
    BY DEF JobRecord, Placed, RowsSettled, CountedAhead
  <1>2. Placed([job EXCEPT !.kept = FALSE])
    BY DEF JobRecord, Placed, RowsSettled, CountedAhead
  <1>3. \A i : Placed(Pending(i))
    BY DEF JobRecord, Placed, Pending, RowsSettled, CountedAhead
  <1>4. \A i, k : Placed(Resolve(job, i, k))
    BY DEF JobRecord, Placed, Resolve, RowsSettled, CountedAhead
  <1> QED BY <1>1, <1>2, <1>3, <1>4

\* A sheet that is opened has the row; one that is passed over is the first or the last.
LEMMA OpenKeepsShape ==
    ASSUME job \in JobRecord, JobShape(job), OpenSheet
    PROVE  JobShape(job') /\ job'.status \in {job.status, "FAILED"}
  <1>1. PICK file \in Seq(ParsedRow) : file = job.file
    BY DEF JobRecord
  <1>2. PICK r \in Nat \ {0} : r = job.row
    BY DEF JobRecord
  <1>3. GoesBySheet(file) /\ DOMAIN file = 1..Len(file) /\ Len(file) \in Nat
    BY <1>1 DEF JobShape
  <1>4. r <= Len(file) /\ r \in DOMAIN file /\ TheRow = file[r] /\ file[r].sheet # job.sheet
    BY <1>1, <1>2, <1>3 DEF OpenSheet, TheRow
  <1>5. PICK products \in Nat, customers \in Nat :
           /\ products = Cardinality(RowsOf(file, "productos"))
           /\ customers = Cardinality(RowsOf(file, "clientes"))
    BY <1>3, SheetCounts
  <1>6. /\ products + customers = Len(file)
        /\ \A i \in DOMAIN file :
              /\ file[i].sheet \in {"productos", "clientes"}
              /\ file[i].sheet = "productos" => i <= products
              /\ file[i].sheet = "clientes" => products < i
    BY <1>3, <1>5, SheetCounts
  <1>7. /\ job.sheet # "clientes" => r <= products + 1
        /\ file[r].sheet = "productos" => r = 1 \/ job.sheet = "productos"
    BY <1>1, <1>2, <1>3, <1>4, <1>5 DEF JobShape, BeforeARow, OpenSheet
  <1>8. CASE job' = [job EXCEPT !.sheet = TheRow.sheet, !.known = Taken(TheRow.sheet), !.seen = {}]
    <2>1. /\ job'.file = job.file /\ job'.row = job.row /\ RowsSettled(job') = RowsSettled(job)
          /\ job'.kept = job.kept /\ job'.status = job.status /\ job'.pc = job.pc
          /\ job'.sheet = file[r].sheet
      BY <1>4, <1>8 DEF JobRecord, RowsSettled, CountedAhead
    <2>2. BeforeARow(job')
      BY <1>1, <1>2, <1>4, <1>5, <1>6, <2>1 DEF BeforeARow
    <2> QED BY <1>1, <1>3, <2>1, <2>2 DEF JobShape, OpenSheet
  <1>9. CASE job' = [job EXCEPT !.row = job.row + FirstAfter(TheRow.sheet)]
    <2>1. /\ job'.file = job.file /\ RowsSettled(job') = RowsSettled(job)
          /\ job'.kept = job.kept /\ job'.status = job.status /\ job'.pc = job.pc
          /\ job'.sheet = job.sheet /\ job'.row = r + FirstAfter(file[r].sheet)
      BY <1>2, <1>4, <1>9 DEF JobRecord, RowsSettled, CountedAhead
    <2>2. FirstAfter("productos") = products /\ FirstAfter("clientes") = customers
      BY <1>1, <1>5 DEF FirstAfter, RowsOf
    <2>3. PICK after \in Nat \ {0} : /\ after = job'.row
                                     /\ \/ file[r].sheet = "productos" /\ after = 1 + products
                                        \/ after = Len(file) + 1
      <3>1. CASE file[r].sheet = "productos"
        BY <1>4, <1>7, <2>1, <2>2, <3>1
      <3>2. CASE file[r].sheet = "clientes"
        <4>1. r <= products + 1 /\ products < r
          BY <1>4, <1>6, <1>7, <3>2
        <4>2. job'.row = r + customers
          BY <2>1, <2>2, <3>2
        <4>3. job'.row = Len(file) + 1
          BY <1>6, <4>1, <4>2
        <4> QED BY <1>3, <4>3
      <3> QED BY <1>4, <1>6, <3>1, <3>2
    <2>4. after <= Len(file) + 1 /\ r <= after
      <3>1. CASE file[r].sheet = "productos" /\ after = 1 + products
        BY <1>4, <1>6, <3>1
      <3> QED BY <1>4, <2>3, <3>1
    <2>5. job'.row <= Len(file) => BeforeARow(job')
      <3> SUFFICES ASSUME after <= Len(file) PROVE BeforeARow(job')
        BY <2>3
      <3>1. after = 1 + products /\ after \in DOMAIN file
        BY <1>3, <2>3
      <3>2. file[after].sheet # "productos"
        BY <1>6, <3>1
      <3> QED BY <1>1, <1>5, <2>1, <2>3, <3>1, <3>2 DEF BeforeARow
    <2>6. RowsSettled(job') < job'.row
      <3>1. PICK n \in Int : n = RowsSettled(job)
        BY DEF JobRecord, RowsSettled, CountedAhead
      <3>2. n < r
        BY <1>2, <3>1 DEF JobShape
      <3> QED BY <2>1, <2>3, <2>4, <3>1, <3>2
    <2> QED BY <1>1, <1>3, <2>1, <2>3, <2>4, <2>5, <2>6 DEF JobShape, OpenSheet
  <1>10. CASE job' = [job EXCEPT !.status = "FAILED", !.pc = "ended"]
    <2>1. Placed(job') /\ job'.status = "FAILED"
      BY <1>10, StepsInPlace DEF JobRecord, OpenSheet
    <2> QED BY <2>1, PlaceKeepsShape
  <1> QED BY <1>8, <1>9, <1>10 DEF OpenSheet

\* A row that ends.
LEMMA RowKeepsShape ==
    ASSUME ImportsInv, JobShape(job), SkipRow \/ RefuseRow \/ FinishRow
    PROVE  JobShape(job') /\ job'.status = job.status
  <1>1. /\ job \in JobRecord /\ job.row \in DOMAIN job.file /\ Len(job.entry) = Len(job.file)
        /\ job.pc = "create" => TheRow.code \in Codes
    BY RowAtWork DEF SkipRow, RefuseRow, FinishRow, ImportsInv, ImportState
  <1>2. TheRow.sheet = job.sheet
    BY DEF SkipRow, RefuseRow, FinishRow, AtARow, JobShape, TheRow
  <1>3. ASSUME NEW j, CountFields(j), Carried(job, j), job' = EndRow(j)
        PROVE  JobShape(job') /\ job'.status = job.status
    BY <1>1, <1>2, <1>3, RowEndShape
  <1>4. CASE SkipRow
    <2>1. PICK j : j = [job EXCEPT !.skipped = @ + 1] /\ job' = EndRow(j)
      BY <1>4 DEF SkipRow
    <2>2. CountFields(j) /\ Carried(job, j)
      BY <1>1, <2>1, SkipFields, CountsCarry
    <2> QED BY <1>3, <2>1, <2>2
  <1>5. ASSUME job' = EndRow(AddError(job))
        PROVE  JobShape(job') /\ job'.status = job.status
    <2>1. PICK j : j = AddError(job)
      OBVIOUS
    <2>2. CountFields(j) /\ Carried(job, j)
      BY <1>1, <2>1, ErrorFields, CountsCarry
    <2> QED BY <1>3, <1>5, <2>1, <2>2
  <1>6. ASSUME NEW k \in Codes, job' = EndRow([job EXCEPT !.imported = @ + 1, !.known = @ \cup {k}])
        PROVE  JobShape(job') /\ job'.status = job.status
    <2>1. PICK j : j = [job EXCEPT !.imported = @ + 1, !.known = @ \cup {k}]
      OBVIOUS
    <2>2. CountFields(j) /\ Carried(job, j)
      BY <1>1, <2>1, MadeFields, CountsCarry
    <2> QED BY <1>3, <1>6, <2>1, <2>2
  <1>7. CASE RefuseRow
    BY <1>5, <1>7 DEF RefuseRow
  <1>8. CASE FinishRow
    <2>1. PICK outcome : job' = IF outcome = "created"
                                THEN EndRow([job EXCEPT !.imported = @ + 1, !.known = @ \cup {TheRow.code}])
                                ELSE EndRow(AddError(job))
      BY <1>8 DEF FinishRow
    <2>2. TheRow.code \in Codes
      BY <1>1, <1>8 DEF FinishRow
    <2> QED BY <1>5, <1>6, <2>1, <2>2
  <1> QED BY <1>4, <1>7, <1>8

\* A file goes by its sheets from its first row.
LEMMA StartKeepsShape ==
    ASSUME NEW kind \in {"products", "full"}, StartImport(kind)
    PROVE  JobShape(job') /\ job'.status = "PROCESSING"
  <1>1. PICK file \in Files(kind) :
           job' = [NoJob EXCEPT !.kind = kind, !.file = file, !.status = "PROCESSING", !.kept = TRUE,
                                !.pc = "row", !.entry = [i \in DOMAIN file |-> "none"],
                                !.sheet = IF kind = "products" THEN "productos" ELSE None,
                                !.known = IF kind = "products" THEN Taken("productos") ELSE {}]
    BY DEF StartImport
  <1>2. file \in Seq(ParsedRow) /\ Len(file) \in 1..MaxRows
    BY FileRows
  <1>3. GoesBySheet(file)
    <2>1. CASE kind = "products"
      <3>1. PICK n \in 1..MaxRows : file \in [1..n -> ProductRows]
        BY <2>1 DEF Files
      <3>2. \A i \in DOMAIN file : file[i].sheet = "productos"
        BY <3>1 DEF ProductRows
      <3> QED BY <3>2 DEF GoesBySheet
    <2>2. CASE kind # "products"
      BY <2>2 DEF Files, GoesBySheet
    <2> QED BY <2>1, <2>2
  <1>4. /\ job'.file = file /\ job'.row = 1 /\ RowsSettled(job') = 0 /\ job'.pc = "row"
        /\ job'.status = "PROCESSING"
    BY <1>1 DEF NoJob, RowsSettled, CountedAhead
  <1>5. BeforeARow(job')
    <2>1. Cardinality(RowsOf(file, "productos")) \in Nat
      BY <1>2, <1>3, SheetCounts
    <2> QED BY <1>4, <2>1 DEF BeforeARow
  <1> QED BY <1>2, <1>3, <1>4, <1>5 DEF JobShape


\* There is no job yet; then there is one and its page.
LEMMA ImportShapeInit == ImportsInit => ImportShape
  <1> SUFFICES ASSUME ImportsInit PROVE ImportShape
    OBVIOUS
  <1>1. job = NoJob /\ page = "none" /\ Retrying = {}
    BY DEF ImportsInit, Retrying, NoRetry
  <1>2. /\ NoJob.file = <<>> /\ NoJob.row = 1 /\ RowsSettled(NoJob) = 0 /\ NoJob.pc = "none"
        /\ ~NoJob.kept
    BY DEF NoJob, RowsSettled, CountedAhead
  <1> QED BY <1>1, <1>2 DEF ImportShape, JobShape, GoesBySheet

LEMMA ImportShapeKept ==
    ASSUME ImportsInv, ImportShape, [ImportsNext]_importsVars
    PROVE  ImportShape'
  <1>0. /\ JobShape(job) /\ job \in JobRecord /\ (Retrying # {} => job.status # "PARSING")
        /\ page \in {"none", "loading", "stuck", "PROCESSING", "COMPLETED", "FAILED"}
        /\ job.status \in {"PARSING", "PROCESSING", "COMPLETED", "FAILED"}
    BY DEF ImportShape, ImportsInv, ImportState, JobRecord
  <1>1. ASSUME JobShape(job'), job'.status = job.status \/ job'.status # "PARSING",
               retryCall' = retryCall, page' = page \/ page' = "loading"
        PROVE  ImportShape'
    BY <1>0, <1>1 DEF ImportShape, Retrying
  <1>2. ASSUME NEW kind \in {"products", "full"}, StartImport(kind)
        PROVE  ImportShape'
    <2>1. JobShape(job') /\ job'.status = "PROCESSING"
      BY <1>2, StartKeepsShape
    <2> QED BY <1>1, <1>2, <2>1 DEF StartImport
  <1>3. CASE OpenSheet
    <2>1. JobShape(job') /\ job'.status \in {job.status, "FAILED"}
      BY <1>0, <1>3, OpenKeepsShape
    <2> QED BY <1>1, <1>3, <2>1 DEF OpenSheet
  <1>4. CASE SkipRow \/ RefuseRow \/ FinishRow
    <2>1. JobShape(job') /\ job'.status = job.status
      BY <1>0, <1>4, RowKeepsShape
    <2> QED BY <1>1, <1>4, <2>1 DEF SkipRow, RefuseRow, FinishRow
  <1>5. CASE BeginRow
    <2>1. /\ job'.file = job.file /\ job'.row = job.row /\ RowsSettled(job') = RowsSettled(job)
          /\ job'.sheet = job.sheet /\ job'.kept = job.kept /\ job'.status = job.status /\ job'.pc = "create"
      <3>1. /\ AtARow /\ job.pc = "row" /\ TheRow.form = "good"
            /\ job' = [job EXCEPT !.seen = @ \cup {TheRow.code}, !.pc = "create",
                                  !.processed = IF job.kind = "full" THEN @ + 1 ELSE @]
        BY <1>5 DEF BeginRow, AtARow
      <3>2. job.row \in DOMAIN job.file /\ TheRow \in ParsedRow
        BY <3>1, RowAtWork
      <3>3. PICK k \in Codes : k = TheRow.code
        BY <3>1, <3>2 DEF ParsedRow, FileRow
      <3>4. job' = [job EXCEPT !.seen = @ \cup {k}, !.pc = "create",
                               !.processed = IF job.kind = "full" THEN @ + 1 ELSE @]
        BY <3>1, <3>3
      <3>5. /\ SameCounts(job') /\ job'.kept = job.kept /\ job'.row = job.row
            /\ job'.sheet = job.sheet /\ job'.pc = "create" /\ job'.status = job.status
        BY <1>0, <3>1, <3>4, BeginFields
      <3> QED BY <3>5 DEF SameCounts
    <2>2. job.file[job.row].sheet = job.sheet
      BY <1>5 DEF BeginRow, AtARow, TheRow
    <2>3. JobShape(job')
      BY <1>0, <2>1, <2>2 DEF JobShape
    <2> QED BY <1>1, <1>5, <2>1, <2>3 DEF BeginRow
  <1>6. CASE CompleteImport \/ Cleanup
    <2>1. Placed(job')
      BY <1>0, <1>6, StepsInPlace DEF CompleteImport, Cleanup
    <2>2. JobShape(job')
      BY <1>0, <2>1, PlaceKeepsShape
    <2> QED BY <1>1, <1>6, <2>1, <2>2 DEF CompleteImport, Cleanup, Placed
  <1>7. CASE Restart
    <2>1. /\ job'.file = <<>> /\ job'.row = 1 /\ RowsSettled(job') = 0 /\ job'.pc = "dead" /\ ~job'.kept
      BY <1>7 DEF Restart, NoJob, RowsSettled, CountedAhead
    <2>2. Retrying' = {}
      BY <1>7 DEF Restart, Retrying, NoRetry
    <2>3. JobShape(job')
      BY <2>1 DEF JobShape, GoesBySheet
    <2> QED BY <1>0, <1>7, <2>2, <2>3 DEF ImportShape, Restart
  <1>8. ASSUME NEW c \in Calls, NEW i, NEW k, Retry(c, i, k)
        PROVE  ImportShape'
    <2>1. job.status # "PARSING" /\ job' = job
      BY <1>0, <1>8 DEF Retry, Retryable, JobShape
    <2>2. page' \in {page, job.status}
      BY <1>8 DEF Retry
    <2> QED BY <1>0, <2>1, <2>2 DEF ImportShape
  <1>9. ASSUME NEW c \in Calls, CheckRetry(c) \/ FinishRetry(c)
        PROVE  ImportShape'
    <2>1. job.status # "PARSING"
      BY <1>0, <1>9 DEF CheckRetry, FinishRetry, Retrying
    <2>2. PICK i, k : job' \in {job, Pending(i), Resolve(job, i, k)}
      BY <1>9 DEF CheckRetry, FinishRetry, AnswerRetry
    <2>3. JobShape(job') /\ job'.status = job.status
      <3>1. \/ job' = job
            \/ job' = Pending(i)
            \/ job' = Resolve(job, i, k)
        BY <2>2
      <3>2. Pending(i).status = job.status /\ Resolve(job, i, k).status = job.status
        BY <1>0, CountsCarry
      <3>3. Placed(Pending(i)) /\ Placed(Resolve(job, i, k))
        BY <1>0, StepsInPlace
      <3> QED BY <1>0, <3>1, <3>2, <3>3, PlaceKeepsShape
    <2>4. page' \in {page, job.status}
      BY <1>9 DEF CheckRetry, FinishRetry, AnswerRetry
    <2> QED BY <1>0, <2>1, <2>3, <2>4 DEF ImportShape
  <1>10. CASE FirstPoll \/ Poll
    <2>1. job' = job /\ retryCall' = retryCall
      BY <1>10 DEF FirstPoll, Poll
    <2>2. page' = "stuck" \/ (job.kept /\ page' = job.status)
      BY <1>10 DEF FirstPoll, Poll
    <2>3. page' \in {"stuck", "PROCESSING", "COMPLETED", "FAILED"}
      BY <1>0, <2>2 DEF JobShape
    <2> QED BY <1>0, <2>1, <2>3 DEF ImportShape, Retrying
  <1>11. ASSUME NEW sheet \in Sheets, NEW k \in Codes, SomeoneCreates(sheet, k)
         PROVE  ImportShape'
    BY <1>0, <1>1, <1>11 DEF SomeoneCreates
  <1>12. CASE UNCHANGED importsVars
    BY <1>0, <1>1, <1>12 DEF importsVars
  <1> QED BY <1>2, <1>3, <1>4, <1>5, <1>6, <1>7, <1>8, <1>9, <1>10, <1>11, <1>12 DEF ImportsNext, ImportsWork

\* What an import may hold is of its type.
LEMMA ImportsAreTyped == ASSUME ImportsInv, ImportShape PROVE ImportsTypeOK
  <1>1. /\ job \in JobRecord /\ Len(job.entry) = Len(job.file) /\ Len(job.file) <= MaxRows
        /\ JobShape(job) /\ MaxRows \in Nat
    BY ImportsAssumption DEF ImportsInv, ImportState, ImportShape
  <1>2. job.file \in Seq(FileRow)
    <2>1. job.file \in Seq(ParsedRow) /\ ParsedRow \subseteq FileRow
      BY <1>1 DEF JobRecord, ParsedRow
    <2> QED BY <2>1
  <1>3. job.row \in 1..Len(job.file) + 1 /\ job.processed \in 0..Len(job.file)
    <2>1. job.row \in Nat \ {0} /\ job.processed \in Nat /\ Len(job.file) \in Nat
      BY <1>1 DEF JobRecord
    <2>2. job.row <= Len(job.file) + 1 /\ job.processed - CountedAhead(job) < job.row
      BY <1>1 DEF JobShape, RowsSettled
    <2>3. job.pc = "create" => job.row <= Len(job.file)
      BY <1>1, <2>1 DEF ImportsInv, ImportState, JobRecord
    <2>4. CountedAhead(job) = 0 \/ (CountedAhead(job) = 1 /\ job.pc = "create")
      BY DEF CountedAhead
    <2> QED BY ONLY <2>1, <2>2, <2>3, <2>4
  <1>4. /\ job.kind \in {"none", "products", "full"}
        /\ job.status \in {"PARSING", "PROCESSING", "COMPLETED", "FAILED"}
        /\ job.pc \in {"none", "row", "create", "ended", "dead"}
        /\ job.seen \subseteq Codes /\ job.known \subseteq Codes
        /\ job.entry \in Seq(Entry)
        /\ job.imported \in Nat /\ job.skipped \in Nat /\ job.errors \in Nat
    BY <1>1 DEF JobRecord
  <1>5. made \in [Sheets -> [Codes -> 1..MaxRows \cup {0, None}]]
    <2>1. 1..MaxRows \cup {0, None} = 0..MaxRows \cup {None}
      BY <1>1
    <2>2. made \in [Sheets -> [Codes -> 0..MaxRows \cup {None}]]
      BY DEF ImportsInv, ImportState
    <2> QED BY <2>1, <2>2
  <1>6. lost \subseteq Sheets \X Codes
    BY DEF ImportsInv, ImportState, Cells
  <1>7. retryCall \in [Calls -> [pc : {"idle", "check", "create"}, row : 0..MaxRows, code : Codes \cup {None}]]
    BY DEF ImportsInv, ImportState, RetryRecord
  <1>8. page \in {"none", "loading", "stuck", "PROCESSING", "COMPLETED", "FAILED"}
    BY DEF ImportShape
  <1> QED BY <1>1, <1>2, <1>3, <1>4, <1>5, <1>6, <1>7, <1>8 DEF ImportsTypeOK


-----------------------------------------------------------------------------
(* The types of the sessions *)

\* The tabs and the requests, whatever their versions.
TabRecord == [page : {"closed", "loading", "app", "login"}, access : [version : Nat, live : BOOLEAN]]

RequestRecord == [pc : {"idle", "parked", "again", "done", "refused"}, tab : Tabs \cup {None}]

\* The calls of a page that end in a new pair; those whose pair may be of a version yet
\* without a token; the requests that may still need a refresh.
Issuing == {x \in Tabs \X Lanes : x[2] = "page" /\ exchange[x].pc \notin {"none", "logout"}}

Bumped == {x \in Tabs \X Lanes : x[2] = "page" /\ exchange[x].pc \in {"revokeAll", "issue"}}

Unsettled == {q \in Requests : request[q].pc \in {"idle", "parked"}}

\* Every token to come was counted when its call or its request was let in, and every
\* version but the first is a token's, or of a call that is about to issue one.
Budget ==
    /\ Len(token) + Cardinality(Issuing) + Cardinality(Unsettled) <= MaxTokens
    /\ version <= Len(token) + Cardinality(Bumped)

\* A tab whose page restores its session is loading, and no request waits in it then; its
\* refresh goes on for a request that waits, and has a row once one was found.
LaneShape(call, refresh, shown, waiting) ==
    /\ call.pc \in {"read", "revoke"} \/ (call.pc = "issue" /\ call.row # 0) => shown = "loading"
    /\ call.pc \in {"bump", "revokeAll"} => call.row = 0
    /\ refresh.pc \in {"none", "read", "revoke", "issue"}
    /\ refresh.pc \in {"revoke", "issue"} => refresh.row # 0
    /\ refresh.pc # "none" => waiting # {}
    /\ waiting # {} => shown \in {"app", "login"}

TabShape(t) ==
    /\ LaneShape(exchange[<<t, "page">>], exchange[<<t, "refresh">>], tab[t].page, Waiting(t))
    /\ tab[t].access.version <= version
    /\ \A lane \in Lanes : exchange[<<t, lane>>].version <= version

SessionsShape ==
    /\ tab \in [Tabs -> TabRecord] /\ request \in [Requests -> RequestRecord]
    /\ version # 0
    /\ replaced \subseteq DOMAIN token /\ undisturbed \in BOOLEAN /\ lossless \in BOOLEAN
    /\ \A t \in Tabs : TabShape(t)
    /\ Budget

\* The calls and the requests are finitely many.
Counted ==
    /\ IsFiniteSet(InFlight) /\ IsFiniteSet(Issuing) /\ IsFiniteSet(Bumped)
    /\ IsFiniteSet(Open) /\ IsFiniteSet(Unsettled)
    /\ Cardinality(InFlight) \in Nat /\ Cardinality(Issuing) \in Nat /\ Cardinality(Bumped) \in Nat
    /\ Cardinality(Open) \in Nat /\ Cardinality(Unsettled) \in Nat
    /\ Issuing \subseteq InFlight /\ Bumped \subseteq Issuing /\ Unsettled \subseteq Open

LEMMA CallsAreCounted == SessionRows => Counted
  <1> SUFFICES ASSUME SessionRows PROVE Counted
    OBVIOUS
  <1>1. IsFiniteSet(Tabs \X Lanes)
    <2>1. IsFiniteSet(Lanes)
      <3>1. IsFiniteSet({"page"}) /\ Lanes = {"page"} \cup {"refresh"}
        BY FS_Singleton DEF Lanes
      <3> QED BY <3>1, FS_AddElement
    <2> QED BY <2>1, FS_Product, SessionsAssumption
  <1>2. /\ InFlight \subseteq Tabs \X Lanes /\ Issuing \subseteq Tabs \X Lanes /\ Bumped \subseteq Tabs \X Lanes
        /\ Open \subseteq Requests /\ Unsettled \subseteq Requests
    BY DEF InFlight, Issuing, Bumped, Open, Unsettled, SessionRows
  <1>3. /\ IsFiniteSet(InFlight) /\ IsFiniteSet(Issuing) /\ IsFiniteSet(Bumped)
        /\ IsFiniteSet(Open) /\ IsFiniteSet(Unsettled)
    BY <1>1, <1>2, FS_Subset, SessionsAssumption
  <1>4. /\ Cardinality(InFlight) \in Nat /\ Cardinality(Issuing) \in Nat /\ Cardinality(Bumped) \in Nat
        /\ Cardinality(Open) \in Nat /\ Cardinality(Unsettled) \in Nat
    BY <1>3, FS_CardinalityType
  <1>5. Issuing \subseteq InFlight /\ Bumped \subseteq Issuing /\ Unsettled \subseteq Open
    BY DEF InFlight, Issuing, Bumped, Open, Unsettled, Answered, SessionRows
  <1> QED BY <1>3, <1>4, <1>5 DEF Counted

LEMMA CallsAreCountedNext == SessionRows' => Counted'
  BY CallsAreCounted, PTL

\* What the sets' sizes say of each other.
LEMMA FewerOrOneMore ==
    ASSUME NEW S, IsFiniteSet(S), NEW x
    PROVE  /\ \A R \in SUBSET S : Cardinality(R) \in Nat /\ Cardinality(R) <= Cardinality(S)
           /\ Cardinality(S) \in Nat
           /\ \A R \in SUBSET (S \cup {x}) : Cardinality(R) \in Nat /\ Cardinality(R) <= Cardinality(S) + 1
           /\ x \in S => \A R \in SUBSET (S \ {x}) : Cardinality(R) \in Nat /\ Cardinality(R) + 1 <= Cardinality(S)
  <1>1. \A R \in SUBSET S : IsFiniteSet(R) /\ Cardinality(R) \in Nat /\ Cardinality(R) <= Cardinality(S)
    BY FS_Subset, FS_CardinalityType
  <1>2. Cardinality(S) \in Nat
    BY FS_CardinalityType
  <1>3. IsFiniteSet(S \cup {x}) /\ Cardinality(S \cup {x}) \in Nat /\ Cardinality(S \cup {x}) <= Cardinality(S) + 1
    <2>1. IsFiniteSet(S \cup {x}) /\ Cardinality(S \cup {x}) = IF x \in S THEN Cardinality(S) ELSE Cardinality(S) + 1
      BY FS_AddElement
    <2> QED BY <1>2, <2>1
  <1>4. \A R \in SUBSET (S \cup {x}) : Cardinality(R) \in Nat /\ Cardinality(R) <= Cardinality(S) + 1
    <2> SUFFICES ASSUME NEW R \in SUBSET (S \cup {x})
                 PROVE  Cardinality(R) \in Nat /\ Cardinality(R) <= Cardinality(S) + 1
      OBVIOUS
    <2>1. IsFiniteSet(R) /\ Cardinality(R) <= Cardinality(S \cup {x})
      BY <1>3, FS_Subset
    <2>2. Cardinality(R) \in Nat
      BY <2>1, FS_CardinalityType
    <2> QED BY ONLY <1>2, <1>3, <2>1, <2>2
  <1>5. ASSUME x \in S, NEW R \in SUBSET (S \ {x})
        PROVE  Cardinality(R) \in Nat /\ Cardinality(R) + 1 <= Cardinality(S)
    <2>1. IsFiniteSet(S \ {x}) /\ Cardinality(S \ {x}) = Cardinality(S) - 1
      BY <1>5, FS_RemoveElement
    <2>2. IsFiniteSet(R) /\ Cardinality(R) <= Cardinality(S \ {x})
      BY <2>1, FS_Subset
    <2>3. Cardinality(R) \in Nat
      BY <2>2, FS_CardinalityType
    <2> QED BY ONLY <1>2, <2>1, <2>2, <2>3
  <1> QED BY <1>1, <1>2, <1>4, <1>5

\* A step that lets nothing in and issues nothing.
LEMMA BudgetStays ==
    ASSUME SessionRows, SessionRows', Budget, Len(token') = Len(token), version' = version,
           Issuing' \subseteq Issuing, Bumped \subseteq Bumped', Unsettled' \subseteq Unsettled
    PROVE  Budget'
  <1>1. Counted /\ Counted' /\ Len(token) \in Nat /\ version \in Nat /\ MaxTokens \in Nat
    BY CallsAreCounted, CallsAreCountedNext, SessionsAssumption DEF SessionRows
  <1>2. Cardinality(Issuing') <= Cardinality(Issuing) /\ Cardinality(Unsettled') <= Cardinality(Unsettled)
    BY <1>1, FewerOrOneMore DEF Counted
  <1>3. Cardinality(Bumped) <= Cardinality(Bumped')
    BY <1>1, FewerOrOneMore DEF Counted
  <1>4. PICK i \in Nat, u \in Nat, b \in Nat, i2 \in Nat, u2 \in Nat, b2 \in Nat :
           /\ i = Cardinality(Issuing) /\ u = Cardinality(Unsettled) /\ b = Cardinality(Bumped)
           /\ i2 = Cardinality(Issuing') /\ u2 = Cardinality(Unsettled') /\ b2 = Cardinality(Bumped')
    BY <1>1 DEF Counted
  <1>5. Len(token) + i + u <= MaxTokens /\ version <= Len(token) + b
    BY <1>4 DEF Budget
  <1>6. i2 <= i /\ u2 <= u /\ b <= b2
    BY <1>2, <1>3, <1>4
  <1>7. Len(token) + i2 + u2 <= MaxTokens /\ version <= Len(token) + b2
    BY ONLY <1>1, <1>5, <1>6
  <1> QED BY <1>4, <1>7 DEF Budget

\* A call is let in when there is room for it.
LEMMA CallFits ==
    ASSUME SessionRows, SessionRows', Budget, Room, Len(token') = Len(token), version' = version,
           NEW x, Issuing' \subseteq Issuing \cup {x}, Bumped \subseteq Bumped', Unsettled' = Unsettled
    PROVE  Budget'
  <1>1. Counted /\ Counted' /\ Len(token) \in Nat /\ version \in Nat /\ MaxTokens \in Nat
    BY CallsAreCounted, CallsAreCountedNext, SessionsAssumption DEF SessionRows
  <1>2. Cardinality(Issuing') <= Cardinality(Issuing) + 1 /\ Cardinality(Issuing) <= Cardinality(InFlight)
    BY <1>1, FewerOrOneMore DEF Counted
  <1>3. Cardinality(Bumped) <= Cardinality(Bumped') /\ Cardinality(Unsettled) <= Cardinality(Open)
    BY <1>1, FewerOrOneMore DEF Counted
  <1>4. PICK i \in Nat, f \in Nat, u \in Nat, o \in Nat, b \in Nat, i2 \in Nat, b2 \in Nat :
           /\ i = Cardinality(Issuing) /\ u = Cardinality(Unsettled) /\ b = Cardinality(Bumped)
           /\ f = Cardinality(InFlight) /\ o = Cardinality(Open)
           /\ i2 = Cardinality(Issuing') /\ b2 = Cardinality(Bumped')
    BY <1>1 DEF Counted
  <1>5. Len(token) + f + o < MaxTokens /\ version <= Len(token) + b
    BY <1>4 DEF Budget, Room
  <1>6. i2 <= i + 1 /\ i <= f /\ b <= b2 /\ u <= o
    BY <1>2, <1>3, <1>4
  <1>7. Len(token) + i2 + u <= MaxTokens /\ version <= Len(token) + b2
    BY ONLY <1>1, <1>5, <1>6
  <1> QED BY <1>4, <1>7 DEF Budget

\* A new version is counted by the call that makes it.
LEMMA VersionFits ==
    ASSUME SessionRows, SessionRows', Budget, Len(token') = Len(token), version' = version + 1,
           NEW x \in Bumped', Issuing' \subseteq Issuing, Bumped \subseteq Bumped' \ {x}, Unsettled' = Unsettled
    PROVE  Budget'
  <1>1. Counted /\ Counted' /\ Len(token) \in Nat /\ version \in Nat /\ MaxTokens \in Nat
    BY CallsAreCounted, CallsAreCountedNext, SessionsAssumption DEF SessionRows
  <1>2. Cardinality(Issuing') <= Cardinality(Issuing) /\ Cardinality(Bumped) + 1 <= Cardinality(Bumped')
    BY <1>1, FewerOrOneMore DEF Counted
  <1>3. PICK i \in Nat, u \in Nat, b \in Nat, i2 \in Nat, b2 \in Nat :
           /\ i = Cardinality(Issuing) /\ u = Cardinality(Unsettled) /\ b = Cardinality(Bumped)
           /\ i2 = Cardinality(Issuing') /\ b2 = Cardinality(Bumped')
    BY <1>1 DEF Counted
  <1>4. Len(token) + i + u <= MaxTokens /\ version <= Len(token) + b
    BY <1>3 DEF Budget
  <1>5. i2 <= i /\ b + 1 <= b2
    BY <1>2, <1>3
  <1>6. Len(token) + i2 + u <= MaxTokens /\ version + 1 <= Len(token) + b2
    BY ONLY <1>1, <1>4, <1>5
  <1> QED BY <1>3, <1>6 DEF Budget

\* A new pair takes the place of its call, or of a request it was refreshed for.
LEMMA PairFits ==
    ASSUME SessionRows, SessionRows', Budget, Len(token') = Len(token) + 1, version' = version,
           NEW x, Bumped \subseteq Bumped' \cup {x},
           \/ x \in Issuing /\ Issuing' \subseteq Issuing \ {x} /\ Unsettled' \subseteq Unsettled
           \/ /\ Issuing' \subseteq Issuing
              /\ \E q \in Unsettled : Unsettled' \subseteq Unsettled \ {q}
    PROVE  Budget'
  <1>1. Counted /\ Counted' /\ Len(token) \in Nat /\ version \in Nat /\ MaxTokens \in Nat
    BY CallsAreCounted, CallsAreCountedNext, SessionsAssumption DEF SessionRows
  <1>2. PICK i \in Nat, u \in Nat, b \in Nat, i2 \in Nat, u2 \in Nat, b2 \in Nat :
           /\ i = Cardinality(Issuing) /\ u = Cardinality(Unsettled) /\ b = Cardinality(Bumped)
           /\ i2 = Cardinality(Issuing') /\ u2 = Cardinality(Unsettled') /\ b2 = Cardinality(Bumped')
    BY <1>1 DEF Counted
  <1>3. i2 + u2 + 1 <= i + u
    <2>1. CASE x \in Issuing /\ Issuing' \subseteq Issuing \ {x} /\ Unsettled' \subseteq Unsettled
      <3>1. Cardinality(Issuing') + 1 <= Cardinality(Issuing) /\ Cardinality(Unsettled') <= Cardinality(Unsettled)
        BY <1>1, <2>1, FewerOrOneMore DEF Counted
      <3>2. i2 + 1 <= i /\ u2 <= u
        BY <1>2, <3>1
      <3> QED BY ONLY <3>2
    <2>2. ASSUME Issuing' \subseteq Issuing, NEW q \in Unsettled, Unsettled' \subseteq Unsettled \ {q}
          PROVE  i2 + u2 + 1 <= i + u
      <3>1. Cardinality(Issuing') <= Cardinality(Issuing) /\ Cardinality(Unsettled') + 1 <= Cardinality(Unsettled)
        BY <1>1, <2>2, FewerOrOneMore DEF Counted
      <3>2. i2 <= i /\ u2 + 1 <= u
        BY <1>2, <3>1
      <3> QED BY ONLY <3>2
    <2> QED BY <2>1, <2>2
  <1>4. b <= b2 + 1
    <2>1. Cardinality(Bumped) <= Cardinality(Bumped') + 1
      BY <1>1, FewerOrOneMore DEF Counted
    <2> QED BY <1>2, <2>1
  <1>5. Len(token) + i + u <= MaxTokens /\ version <= Len(token) + b
    BY <1>2 DEF Budget
  <1>6. Len(token) + 1 + i2 + u2 <= MaxTokens /\ version <= Len(token) + 1 + b2
    BY ONLY <1>1, <1>3, <1>4, <1>5
  <1> QED BY <1>2, <1>6 DEF Budget


\* The sets a call that moves is in.
LanesMoved(x, new) ==
    /\ \A y \in Tabs \X Lanes : exchange'[y] = IF y = x THEN new ELSE exchange[y]
    /\ Issuing' = IF x[2] = "page" /\ new.pc \notin {"none", "logout"} THEN Issuing \cup {x} ELSE Issuing \ {x}
    /\ Bumped' = IF x[2] = "page" /\ new.pc \in {"revokeAll", "issue"} THEN Bumped \cup {x} ELSE Bumped \ {x}

LEMMA OneLaneMoves ==
    ASSUME SessionRows, NEW x \in Tabs \X Lanes, NEW new, exchange' = [exchange EXCEPT ![x] = new]
    PROVE  LanesMoved(x, new)
  <1>1. \A y \in Tabs \X Lanes : exchange'[y] = IF y = x THEN new ELSE exchange[y]
    BY DEF SessionRows
  <1>2. Issuing' = IF x[2] = "page" /\ new.pc \notin {"none", "logout"} THEN Issuing \cup {x} ELSE Issuing \ {x}
    BY <1>1 DEF Issuing
  <1>3. Bumped' = IF x[2] = "page" /\ new.pc \in {"revokeAll", "issue"} THEN Bumped \cup {x} ELSE Bumped \ {x}
    BY <1>1 DEF Bumped
  <1> QED BY <1>1, <1>2, <1>3 DEF LanesMoved

\* A step of one tab, the others as they are.
OnlyTab(t) ==
    \A s \in Tabs \ {t} :
        /\ tab'[s] = tab[s] /\ Waiting(s)' = Waiting(s)
        /\ \A lane \in Lanes : exchange'[<<s, lane>>] = exchange[<<s, lane>>]

LEMMA TabMoves ==
    ASSUME SessionRows, SessionRows', SessionsShape, NEW t \in Tabs, OnlyTab(t), TabShape(t)', Budget',
           tab' \in [Tabs -> TabRecord], request' \in [Requests -> RequestRecord],
           version <= version', version' # 0,
           replaced' \subseteq DOMAIN token', undisturbed' \in BOOLEAN, lossless' \in BOOLEAN
    PROVE  SessionsShape'
  <1>1. ASSUME NEW s \in Tabs PROVE TabShape(s)'
    <2>1. CASE s = t
      BY <2>1
    <2>2. CASE s # t
      <3>1. /\ tab'[s] = tab[s] /\ Waiting(s)' = Waiting(s)
            /\ \A lane \in Lanes : exchange'[<<s, lane>>] = exchange[<<s, lane>>]
        BY <2>2 DEF OnlyTab
      <3>2. /\ LaneShape(exchange[<<s, "page">>], exchange[<<s, "refresh">>], tab[s].page, Waiting(s))
            /\ tab[s].access.version <= version
            /\ \A lane \in Lanes : exchange[<<s, lane>>].version <= version
        BY DEF SessionsShape, TabShape
      <3>3. LaneShape(exchange[<<s, "page">>], exchange[<<s, "refresh">>], tab[s].page, Waiting(s))'
        BY <3>1, <3>2 DEF Lanes, LaneShape
      <3>4. version \in Nat /\ version' \in Nat /\ tab[s].access.version \in Nat
            /\ \A lane \in Lanes : exchange[<<s, lane>>].version \in Nat
        <4>1. tab[s] \in TabRecord /\ \A lane \in Lanes : <<s, lane>> \in Tabs \X Lanes
          BY DEF SessionsShape
        <4> QED BY <4>1 DEF SessionRows, TabRecord
      <3>5. tab'[s].access.version <= version'
        <4>1. tab[s].access.version <= version'
          BY ONLY <3>2, <3>4, version <= version'
        <4> QED BY <3>1, <4>1
      <3>6. ASSUME NEW lane \in Lanes PROVE exchange'[<<s, lane>>].version <= version'
        <4>1. exchange[<<s, lane>>].version <= version /\ exchange[<<s, lane>>].version \in Nat
          BY <3>2, <3>4
        <4>2. exchange[<<s, lane>>].version <= version'
          BY ONLY <3>4, <4>1, version <= version'
        <4> QED BY <3>1, <4>2
      <3> QED BY <3>3, <3>5, <3>6 DEF TabShape
    <2> QED BY <2>1, <2>2
  <1> QED BY <1>1 DEF SessionsShape

\* Requests that waited are answered; those of other tabs wait on.
WaitEnds(t) ==
    /\ request' \in [Requests -> RequestRecord]
    /\ Waiting(t)' = {} /\ \A s \in Tabs \ {t} : Waiting(s)' = Waiting(s)
    /\ Unsettled' = Unsettled \ Waiting(t)

LEMMA WaitingEnds ==
    ASSUME SessionsShape, NEW t \in Tabs, NEW pc \in {"again", "refused"},
           request' = [q \in Requests |->
              IF q \in Waiting(t) THEN [request[q] EXCEPT !.pc = pc] ELSE request[q]]
    PROVE  WaitEnds(t)
  <1>1. \A q \in Requests : request[q] \in RequestRecord
    BY DEF SessionsShape
  <1>2. \A q \in Waiting(t) : /\ [request[q] EXCEPT !.pc = pc] \in RequestRecord
                             /\ [request[q] EXCEPT !.pc = pc].pc = pc
                             /\ [request[q] EXCEPT !.pc = pc].tab = t
    BY <1>1 DEF Waiting, RequestRecord
  <1>3. request' \in [Requests -> RequestRecord]
    BY <1>1, <1>2
  <1>4. \A q \in Requests : /\ q \in Waiting(t) => request'[q].pc = pc /\ request'[q].tab = t
                            /\ q \notin Waiting(t) => request'[q] = request[q]
    BY <1>2
  <1>5. Waiting(t)' = {}
    BY <1>4 DEF Waiting
  <1>6. \A s \in Tabs \ {t} : Waiting(s)' = Waiting(s)
    BY <1>4 DEF Waiting
  <1>7. Unsettled' = Unsettled \ Waiting(t)
    BY <1>4 DEF Waiting, Unsettled
  <1> QED BY <1>3, <1>5, <1>6, <1>7 DEF WaitEnds

\* A call that fails, or a refresh that is refused: its tab is sent to the login.
LEMMA FailKeeps ==
    ASSUME SessionRows, SessionRows', SessionsShape, NEW x \in Tabs \X Lanes, Fail(x),
           exchange[x].pc = "read" \/ (exchange[x].pc = "issue" /\ exchange[x].row # 0),
           version' = version, replaced' \subseteq DOMAIN token', undisturbed' \in BOOLEAN, lossless' \in BOOLEAN,
           Budget'
    PROVE  SessionsShape'
  <1>1. PICK t \in Tabs, lane \in Lanes : x = <<t, lane>> /\ x[1] = t /\ x[2] = lane
    OBVIOUS
  <1>2. /\ exchange' = [exchange EXCEPT ![x] = NoExchange]
        /\ tab' = [tab EXCEPT ![t] = [page |-> "login", access |-> NoAccess]]
        /\ WaitEnds(t)
    <2>1. request' = [q \in Requests |->
              IF q \in Waiting(t) THEN [request[q] EXCEPT !.pc = "refused"] ELSE request[q]]
      BY <1>1 DEF Fail
    <2> QED BY <1>1, <2>1, WaitingEnds DEF Fail
  <1>3. LanesMoved(x, NoExchange) /\ NoExchange.pc = "none" /\ NoExchange.version = 0
    BY <1>2, OneLaneMoves DEF NoExchange
  <1>4. tab' \in [Tabs -> TabRecord] /\ tab'[t].page = "login" /\ tab'[t].access.version = 0
    <2>1. [page |-> "login", access |-> NoAccess] \in TabRecord
      BY DEF TabRecord, NoAccess
    <2> QED BY <1>2, <2>1 DEF SessionsShape, NoAccess
  <1>5. OnlyTab(t)
    BY <1>1, <1>2, <1>3 DEF OnlyTab, WaitEnds, LanesMoved, SessionsShape
  <1>6. LaneShape(exchange[<<t, "page">>], exchange[<<t, "refresh">>], tab[t].page, Waiting(t))
    BY DEF SessionsShape, TabShape
  <1>7. /\ exchange'[x] = NoExchange
        /\ lane = "page" => exchange'[<<t, "refresh">>] = exchange[<<t, "refresh">>]
        /\ lane = "refresh" => exchange'[<<t, "page">>] = exchange[<<t, "page">>]
    BY <1>1, <1>3 DEF LanesMoved, Lanes
  <1>8. LaneShape(exchange[<<t, "page">>], exchange[<<t, "refresh">>], tab[t].page, Waiting(t))'
    <2>1. CASE lane = "page"
      <3>1. tab[t].page = "loading"
        BY <1>1, <1>6, <2>1 DEF LaneShape
      <3>2. exchange[<<t, "refresh">>].pc = "none"
        BY <1>6, <3>1 DEF LaneShape
      <3> QED BY <1>1, <1>2, <1>3, <1>4, <1>7, <2>1, <3>2 DEF LaneShape, WaitEnds
    <2>2. CASE lane = "refresh"
      <3>1. Waiting(t) # {}
        BY <1>1, <1>6, <2>2 DEF LaneShape
      <3>2. tab[t].page # "loading"
        BY <1>6, <3>1 DEF LaneShape
      <3> QED BY <1>1, <1>2, <1>3, <1>4, <1>6, <1>7, <2>2, <3>2 DEF LaneShape, WaitEnds
    <2> QED BY <2>1, <2>2 DEF Lanes
  <1>9. TabShape(t)'
    <2>1. version \in Nat
      BY DEF SessionRows
    <2>2. \A l \in Lanes : exchange'[<<t, l>>] = exchange[<<t, l>>] \/ exchange'[<<t, l>>] = NoExchange
      BY <1>3 DEF LanesMoved
    <2>3. \A l \in Lanes : exchange[<<t, l>>].version <= version
      BY DEF SessionsShape, TabShape
    <2>4. \A l \in Lanes : exchange'[<<t, l>>].version <= version'
      BY <1>3, <2>1, <2>2, <2>3
    <2> QED BY <1>4, <1>8, <2>1, <2>4 DEF TabShape
  <1>10. version <= version' /\ version' # 0
    BY DEF SessionRows, SessionsShape
  <1> QED BY <1>2, <1>4, <1>5, <1>9, <1>10, TabMoves DEF WaitEnds

\* A call that moves in its tab, the requests as they are.
LEMMA LaneKeeps ==
    ASSUME SessionRows, SessionRows', SessionsShape, NEW t \in Tabs, NEW lane \in Lanes, NEW new,
           exchange' = [exchange EXCEPT ![<<t, lane>>] = new], request' = request,
           NEW held \in TabRecord, tab' = [tab EXCEPT ![t] = held],
           held.access.version <= version', new.version <= version',
           LaneShape(IF lane = "page" THEN new ELSE exchange[<<t, "page">>],
                     IF lane = "refresh" THEN new ELSE exchange[<<t, "refresh">>], held.page, Waiting(t)),
           version <= version', version' # 0, replaced' \subseteq DOMAIN token',
           undisturbed' \in BOOLEAN, lossless' \in BOOLEAN, Budget'
    PROVE  SessionsShape'
  <1>1. <<t, lane>> \in Tabs \X Lanes /\ "page" \in Lanes /\ "refresh" \in Lanes
    BY DEF Lanes
  <1>2. LanesMoved(<<t, lane>>, new)
    BY <1>1, OneLaneMoves
  <1>3. tab' \in [Tabs -> TabRecord] /\ tab'[t] = held
    BY DEF SessionsShape
  <1>4. \A s \in Tabs : Waiting(s)' = Waiting(s)
    BY DEF Waiting
  <1>5. OnlyTab(t)
    BY <1>2, <1>4 DEF OnlyTab, LanesMoved, SessionsShape
  <1>6. /\ exchange'[<<t, "page">>] = IF lane = "page" THEN new ELSE exchange[<<t, "page">>]
        /\ exchange'[<<t, "refresh">>] = IF lane = "refresh" THEN new ELSE exchange[<<t, "refresh">>]
    BY <1>1, <1>2 DEF LanesMoved
  <1>7. \A l \in Lanes : exchange'[<<t, l>>].version <= version'
    <2>1. \A l \in Lanes : exchange[<<t, l>>].version <= version /\ exchange[<<t, l>>].version \in Nat
      BY DEF SessionsShape, TabShape, SessionRows
    <2>2. version \in Nat /\ version' \in Nat
      BY DEF SessionRows
    <2>3. \A l \in Lanes : exchange[<<t, l>>].version <= version'
      BY ONLY <2>1, <2>2, version <= version'
    <2>4. \A l \in Lanes : exchange'[<<t, l>>] \in {new, exchange[<<t, l>>]}
      BY <1>2 DEF LanesMoved
    <2> QED BY <2>3, <2>4
  <1>8. TabShape(t)'
    BY <1>3, <1>4, <1>6, <1>7 DEF TabShape
  <1>9. request' \in [Requests -> RequestRecord]
    BY DEF SessionsShape
  <1> QED BY <1>3, <1>5, <1>8, <1>9, TabMoves


\* The tabs and the calls as they are.
LEMMA TabsStay ==
    ASSUME SessionRows, SessionRows', SessionsShape, UNCHANGED <<tab, exchange, version>>,
           request' \in [Requests -> RequestRecord], \A t \in Tabs : Waiting(t)' = Waiting(t),
           Unsettled' \subseteq Unsettled, Len(token') = Len(token),
           replaced' \subseteq DOMAIN token', undisturbed' \in BOOLEAN, lossless' \in BOOLEAN
    PROVE  SessionsShape'
  <1>1. Budget'
    <2>1. Issuing' = Issuing /\ Bumped' = Bumped
      BY DEF Issuing, Bumped
    <2> QED BY <2>1, BudgetStays DEF SessionsShape
  <1>2. \A t \in Tabs : TabShape(t)'
    BY DEF SessionsShape, TabShape
  <1> QED BY <1>1, <1>2 DEF SessionsShape

\* What is known of a tab.
TabKnown(t) ==
    /\ tab[t] \in TabRecord
    /\ tab[t].access.version <= version
    /\ tab = [tab EXCEPT ![t] = tab[t]]
    /\ LaneShape(exchange[<<t, "page">>], exchange[<<t, "refresh">>], tab[t].page, Waiting(t))
    /\ \A lane \in Lanes :
          /\ <<t, lane>> \in Tabs \X Lanes
          /\ exchange[<<t, lane>>].version <= version /\ exchange[<<t, lane>>].version \in Nat
          /\ exchange = [exchange EXCEPT ![<<t, lane>>] = exchange[<<t, lane>>]]

LEMMA TabIsKnown == ASSUME SessionRows, SessionsShape, NEW t \in Tabs PROVE TabKnown(t)
  <1>1. tab[t] \in TabRecord /\ tab = [tab EXCEPT ![t] = tab[t]]
    BY DEF SessionsShape
  <1>2. TabShape(t)
    BY DEF SessionsShape
  <1>3. ASSUME NEW lane \in Lanes
        PROVE  /\ <<t, lane>> \in Tabs \X Lanes /\ exchange[<<t, lane>>].version \in Nat
               /\ exchange = [exchange EXCEPT ![<<t, lane>>] = exchange[<<t, lane>>]]
    BY DEF SessionRows
  <1> QED BY <1>1, <1>2, <1>3 DEF TabKnown, TabShape

\* A call of a refresh is none of a page's.
LEMMA RefreshCounts ==
    ASSUME SessionRows, NEW t \in Tabs, NEW new, exchange' = [exchange EXCEPT ![<<t, "refresh">>] = new]
    PROVE  Issuing' = Issuing /\ Bumped' = Bumped
  <1>1. <<t, "refresh">> \in Tabs \X Lanes /\ <<t, "refresh">>[2] = "refresh"
    BY DEF Lanes
  <1>2. LanesMoved(<<t, "refresh">>, new)
    BY <1>1, OneLaneMoves
  <1>3. <<t, "refresh">> \notin Issuing /\ <<t, "refresh">> \notin Bumped
    BY <1>1 DEF Issuing, Bumped
  <1> QED BY <1>1, <1>2, <1>3 DEF LanesMoved

\* A call of a page.
LEMMA PageCounts ==
    ASSUME SessionRows, NEW t \in Tabs, NEW new, exchange' = [exchange EXCEPT ![<<t, "page">>] = new]
    PROVE  /\ Issuing' = IF new.pc \notin {"none", "logout"} THEN Issuing \cup {<<t, "page">>}
                         ELSE Issuing \ {<<t, "page">>}
           /\ Bumped' = IF new.pc \in {"revokeAll", "issue"} THEN Bumped \cup {<<t, "page">>}
                        ELSE Bumped \ {<<t, "page">>}
           /\ <<t, "page">> \in Issuing <=> exchange[<<t, "page">>].pc \notin {"none", "logout"}
           /\ <<t, "page">> \in Bumped <=> exchange[<<t, "page">>].pc \in {"revokeAll", "issue"}
  <1>1. <<t, "page">> \in Tabs \X Lanes /\ <<t, "page">>[2] = "page"
    BY DEF Lanes
  <1>2. LanesMoved(<<t, "page">>, new)
    BY <1>1, OneLaneMoves
  <1>3. /\ <<t, "page">> \in Issuing <=> exchange[<<t, "page">>].pc \notin {"none", "logout"}
        /\ <<t, "page">> \in Bumped <=> exchange[<<t, "page">>].pc \in {"revokeAll", "issue"}
    BY <1>1 DEF Issuing, Bumped
  <1> QED BY <1>1, <1>2, <1>3 DEF LanesMoved

\* A tab sends a request, or its access token expires.
LEMMA SendKeeps ==
    ASSUME SessionRows, SessionRows', SessionsShape, NEW t \in Tabs,
           Expire(t) \/ \E q \in Requests : Send(q, t)
    PROVE  SessionsShape'
  <1>1. TabKnown(t) /\ version \in Nat /\ version' = version /\ version <= version'
    BY TabIsKnown DEF SessionRows, Expire, Send
  <1>2. /\ token' = token /\ replaced' \subseteq DOMAIN token' /\ undisturbed' \in BOOLEAN
        /\ lossless' \in BOOLEAN /\ version' # 0 /\ exchange' = exchange
    BY DEF Expire, Send, SessionsShape
  <1>3. Issuing' = Issuing /\ Bumped' = Bumped
    BY <1>2 DEF Issuing, Bumped
  <1>4. CASE Expire(t)
    <2> DEFINE held == [tab[t] EXCEPT !.access.live = FALSE]
    <2>1. held \in TabRecord /\ held.page = tab[t].page /\ held.access.version = tab[t].access.version
      BY <1>1 DEF TabKnown, TabRecord
    <2>2. tab' = [tab EXCEPT ![t] = held] /\ request' = request
      BY <1>4 DEF Expire
    <2>3. tab'[t] = held /\ OnlyTab(t) /\ tab' \in [Tabs -> TabRecord]
      BY <1>2, <2>1, <2>2 DEF OnlyTab, Waiting, SessionsShape
    <2>4. Waiting(t)' = Waiting(t) /\ Unsettled' = Unsettled /\ request' \in [Requests -> RequestRecord]
      BY <2>2 DEF Waiting, Unsettled, SessionsShape
    <2> HIDE DEF held
    <2>5. TabShape(t)'
      BY <1>1, <1>2, <2>1, <2>3, <2>4 DEF TabKnown, TabShape
    <2>6. Budget'
      BY <1>1, <1>2, <1>3, <2>4, BudgetStays DEF SessionsShape
    <2> QED BY <1>1, <1>2, <2>3, <2>4, <2>5, <2>6, TabMoves
  <1>5. ASSUME NEW q \in Requests, Send(q, t)
        PROVE  SessionsShape'
    <2>1. PICK sent : /\ sent = [pc |-> IF Accepted(t) THEN "done" ELSE "parked", tab |-> t]
                      /\ request' = [request EXCEPT ![q] = sent]
      BY <1>5 DEF Send
    <2>2. sent \in RequestRecord /\ sent.tab = t /\ tab[t].page = "app" /\ tab' = tab /\ request[q].pc = "idle"
      BY <1>5, <2>1 DEF Send, RequestRecord
    <2>3. /\ request' \in [Requests -> RequestRecord] /\ request'[q] = sent
          /\ \A r \in Requests : r # q => request'[r] = request[r]
      BY <2>1, <2>2 DEF SessionsShape
    <2>4. OnlyTab(t)
      BY <1>2, <2>2, <2>3 DEF OnlyTab, Waiting
    <2>5. Waiting(t) \subseteq Waiting(t)' /\ Unsettled' \subseteq Unsettled
      BY <2>2, <2>3 DEF Waiting, Unsettled
    <2>6. LaneShape(exchange[<<t, "page">>], exchange[<<t, "refresh">>], tab[t].page, Waiting(t)')
      BY <1>1, <2>2, <2>5 DEF TabKnown, LaneShape
    <2>7. TabShape(t)'
      BY <1>1, <1>2, <2>2, <2>6 DEF TabKnown, TabShape
    <2>8. Budget'
      BY <1>1, <1>2, <1>3, <2>5, BudgetStays DEF SessionsShape
    <2>9. tab' \in [Tabs -> TabRecord]
      BY <2>2 DEF SessionsShape
    <2> QED BY <1>1, <1>2, <2>3, <2>4, <2>7, <2>8, <2>9, TabMoves
  <1> QED BY <1>4, <1>5

\* What a step that starts a call leaves alone.
Starting ==
    /\ UNCHANGED <<token, version, replaced, lossless, request>>
    /\ undisturbed' \in BOOLEAN

LEMMA StartingLeaves ==
    ASSUME SessionRows, SessionsShape, Starting
    PROVE  /\ replaced' \subseteq DOMAIN token' /\ lossless' \in BOOLEAN /\ version' # 0
           /\ version \in Nat /\ version' = version /\ version <= version'
           /\ Len(token') = Len(token) /\ Budget /\ Unsettled' = Unsettled
           /\ "page" \in Lanes /\ "refresh" \in Lanes
  BY DEF Starting, SessionsShape, SessionRows, Unsettled, Lanes

\* A call that starts in a page has room.
LEMMA StartFits ==
    ASSUME SessionRows, SessionRows', SessionsShape, Starting, NEW t \in Tabs, NEW new,
           exchange' = [exchange EXCEPT ![<<t, "page">>] = new],
           new.pc \in {"read", "issue", "bump"}, exchange[<<t, "page">>].pc = "none", Room
    PROVE  Budget'
  <1>1. Issuing' \subseteq Issuing \cup {<<t, "page">>} /\ Bumped \subseteq Bumped'
    BY PageCounts
  <1> QED BY <1>1, StartingLeaves, CallFits

\* A tab asks for a new token.
LEMMA RefreshKeeps ==
    ASSUME SessionRows, SessionRows', SessionsShape, NEW t \in Tabs, SendRefresh(t)
    PROVE  SessionsShape'
  <1>1. TabKnown(t)
    BY TabIsKnown
  <1>2. Starting
    BY DEF Starting, SendRefresh, SessionsShape
  <1>3. PICK new : /\ new = [NoExchange EXCEPT !.pc = "read", !.row = cookie]
                   /\ exchange' = [exchange EXCEPT ![<<t, "refresh">>] = new]
    BY DEF SendRefresh, Presenting
  <1>4. new.pc = "read" /\ new.version = 0 /\ Waiting(t) # {} /\ tab' = [tab EXCEPT ![t] = tab[t]]
    BY <1>1, <1>3 DEF NoExchange, SendRefresh, TabKnown
  <1>5. LaneShape(exchange[<<t, "page">>], new, tab[t].page, Waiting(t))
    BY <1>1, <1>4 DEF TabKnown, LaneShape
  <1>6. Issuing' = Issuing /\ Bumped' = Bumped
    BY <1>3, RefreshCounts
  <1>7. Budget'
    BY <1>2, <1>6, StartingLeaves, BudgetStays
  <1>8. new.version <= version' /\ tab[t].access.version <= version' /\ request' = request
        /\ undisturbed' \in BOOLEAN /\ tab[t] \in TabRecord
    BY <1>1, <1>2, <1>4, StartingLeaves DEF TabKnown, Starting
  <1> QED BY <1>2, <1>3, <1>4, <1>5, <1>7, <1>8, StartingLeaves, LaneKeeps

\* A page loads.
LEMMA LoadKeeps ==
    ASSUME SessionRows, SessionRows', SessionsShape, NEW t \in Tabs, Load(t)
    PROVE  SessionsShape'
  <1>1. TabKnown(t)
    BY TabIsKnown
  <1>2. Starting
    BY DEF Starting, Load, SessionsShape
  <1>3. PICK new : /\ new = [NoExchange EXCEPT !.pc = "read", !.row = cookie]
                   /\ exchange' = [exchange EXCEPT ![<<t, "page">>] = new]
    BY DEF Load, Presenting
  <1>4. PICK held : held = [tab[t] EXCEPT !.page = "loading"]
    OBVIOUS
  <1>5. /\ held \in TabRecord /\ held.page = "loading" /\ held.access = tab[t].access
        /\ tab' = [tab EXCEPT ![t] = held]
    BY <1>1, <1>4 DEF Load, TabKnown, TabRecord
  <1>6. /\ new.pc = "read" /\ new.version = 0 /\ tab[t].page = "closed"
        /\ exchange[<<t, "page">>].pc = "none" /\ Room
    BY <1>3 DEF NoExchange, Load, MayCall
  <1>7. LaneShape(new, exchange[<<t, "refresh">>], held.page, Waiting(t))
    BY <1>1, <1>5, <1>6 DEF TabKnown, LaneShape
  <1>8. Budget'
    BY <1>2, <1>3, <1>6, StartFits
  <1>9. new.version <= version' /\ held.access.version <= version' /\ request' = request
        /\ undisturbed' \in BOOLEAN
    BY <1>1, <1>2, <1>5, <1>6, StartingLeaves DEF TabKnown, Starting
  <1> QED BY <1>2, <1>3, <1>5, <1>7, <1>8, <1>9, StartingLeaves, LaneKeeps

\* The user signs in, or changes organization.
LEMMA SignInKeeps ==
    ASSUME SessionRows, SessionRows', SessionsShape, NEW t \in Tabs, NEW o \in Orgs, Login(t, o) \/ Switch(t, o)
    PROVE  SessionsShape'
  <1>1. TabKnown(t)
    BY TabIsKnown
  <1>2. Starting
    BY DEF Starting, Login, Switch, SessionsShape
  <1>3. version \in Nat /\ version <= version' /\ 0 <= version'
    BY <1>2, StartingLeaves
  <1>4. PICK new : /\ exchange' = [exchange EXCEPT ![<<t, "page">>] = new]
                   /\ new.row = 0 /\ new.pc \in {"issue", "bump"} /\ new.version <= version'
    <2>1. CASE Login(t, o)
      <3>1. PICK new : /\ new = [pc |-> "issue", row |-> 0, org |-> o, version |-> version]
                       /\ exchange' = [exchange EXCEPT ![<<t, "page">>] = new]
        BY <2>1 DEF Login
      <3>2. new.row = 0 /\ new.pc = "issue" /\ new.version = version
        BY <3>1
      <3> QED BY <1>3, <3>1, <3>2
    <2>2. CASE Switch(t, o)
      <3>1. PICK new : /\ new = [NoExchange EXCEPT !.pc = "bump", !.org = o]
                       /\ exchange' = [exchange EXCEPT ![<<t, "page">>] = new]
        BY <2>2 DEF Switch
      <3>2. new.row = 0 /\ new.pc = "bump" /\ new.version = 0
        BY <3>1 DEF NoExchange
      <3> QED BY <1>3, <3>1, <3>2
    <2> QED BY <2>1, <2>2
  <1>5. tab' = [tab EXCEPT ![t] = tab[t]] /\ exchange[<<t, "page">>].pc = "none" /\ Room
    BY <1>1 DEF Login, Switch, TabKnown, MayCall
  <1>6. LaneShape(new, exchange[<<t, "refresh">>], tab[t].page, Waiting(t))
    BY <1>1, <1>4 DEF TabKnown, LaneShape
  <1>7. Budget'
    BY <1>2, <1>4, <1>5, StartFits
  <1>8. tab[t].access.version <= version' /\ request' = request /\ undisturbed' \in BOOLEAN /\ tab[t] \in TabRecord
    BY <1>1, <1>2, StartingLeaves DEF TabKnown, Starting
  <1> QED BY <1>2, <1>4, <1>5, <1>6, <1>7, <1>8, StartingLeaves, LaneKeeps

\* The user signs out.
LEMMA LogoutKeeps ==
    ASSUME SessionRows, SessionRows', SessionsShape, NEW t \in Tabs, Logout(t)
    PROVE  SessionsShape'
  <1>1. TabKnown(t)
    BY TabIsKnown
  <1>2. Starting
    BY DEF Starting, Logout
  <1>3. PICK new : /\ new = [NoExchange EXCEPT !.pc = "logout", !.row = cookie]
                   /\ exchange' = [exchange EXCEPT ![<<t, "page">>] = new]
    BY DEF Logout
  <1>4. PICK held : held = [page |-> "login", access |-> NoAccess] /\ tab' = [tab EXCEPT ![t] = held]
    BY DEF Logout
  <1>5. held \in TabRecord /\ held.page = "login" /\ held.access.version = 0
    BY <1>4 DEF TabRecord, NoAccess
  <1>6. new.pc = "logout" /\ new.version = 0 /\ exchange[<<t, "page">>].pc = "none"
    BY <1>3 DEF NoExchange, Logout, MayCall
  <1>7. LaneShape(new, exchange[<<t, "refresh">>], held.page, Waiting(t))
    BY <1>1, <1>5, <1>6 DEF TabKnown, LaneShape
  <1>8. Issuing' \subseteq Issuing /\ Bumped \subseteq Bumped'
    BY <1>3, <1>6, PageCounts
  <1>9. Budget'
    BY <1>2, <1>8, StartingLeaves, BudgetStays
  <1>10. new.version <= version' /\ held.access.version <= version' /\ request' = request
         /\ undisturbed' \in BOOLEAN
    BY <1>2, <1>5, <1>6, StartingLeaves DEF Starting
  <1> QED BY <1>2, <1>3, <1>4, <1>5, <1>7, <1>9, <1>10, StartingLeaves, LaneKeeps


\* A call of a tab goes on: what it keeps.
Going ==
    /\ UNCHANGED <<version, replaced, undisturbed, lossless, tab, request>>
    /\ Len(token') = Len(token) /\ DOMAIN token' = DOMAIN token

LEMMA CallIn ==
    ASSUME NEW x \in Tabs \X Lanes
    PROVE  \E t \in Tabs, lane \in Lanes : x = <<t, lane>> /\ x[1] = t /\ x[2] = lane
  OBVIOUS

\* Its lane and the other are as they should be, and it counts as it did.
LEMMA GoingKeeps ==
    ASSUME SessionRows, SessionRows', SessionsShape, Going, NEW t \in Tabs, NEW lane \in Lanes, NEW new,
           exchange' = [exchange EXCEPT ![<<t, lane>>] = new],
           new.version <= version,
           LaneShape(IF lane = "page" THEN new ELSE exchange[<<t, "page">>],
                     IF lane = "refresh" THEN new ELSE exchange[<<t, "refresh">>], tab[t].page, Waiting(t)),
           Issuing' \subseteq Issuing, Bumped \subseteq Bumped'
    PROVE  SessionsShape'
  <1>1. TabKnown(t)
    BY TabIsKnown
  <1>2. Unsettled' = Unsettled /\ version' = version /\ Budget /\ Len(token') = Len(token)
    BY DEF Going, Unsettled, SessionsShape
  <1>3. Budget'
    BY <1>2, BudgetStays
  <1>4. /\ request' = request /\ tab[t] \in TabRecord /\ tab' = [tab EXCEPT ![t] = tab[t]]
        /\ version' = version /\ version <= version' /\ version' # 0 /\ replaced' \subseteq DOMAIN token'
        /\ undisturbed' \in BOOLEAN /\ lossless' \in BOOLEAN
        /\ tab[t].access.version <= version' /\ new.version <= version'
    BY <1>1 DEF Going, TabKnown, SessionsShape, SessionRows
  <1> QED BY <1>3, <1>4, LaneKeeps

\* A refresh finds its row, or fails.
LEMMA ReadKeeps ==
    ASSUME SessionRows, SessionRows', SessionsShape, NEW x \in Tabs \X Lanes, ReadToken(x)
    PROVE  SessionsShape'
  <1>1. PICK t \in Tabs, lane \in Lanes : x = <<t, lane>> /\ x[1] = t /\ x[2] = lane
    BY CallIn
  <1>2. exchange[x].pc = "read" /\ TabKnown(t) /\ version \in Nat /\ (Rotated(exchange[x].row) # 0 => Going)
    BY TabIsKnown DEF ReadToken, Going, SessionRows
  <1>3. CASE Rotated(exchange[x].row) = 0
    <2>1. /\ Fail(x) /\ exchange[x].pc = "read" /\ version' = version
          /\ replaced' \subseteq DOMAIN token' /\ undisturbed' \in BOOLEAN /\ lossless' \in BOOLEAN
          /\ Len(token') = Len(token)
      BY <1>3 DEF ReadToken, SessionsShape
    <2>2. LanesMoved(x, NoExchange) /\ NoExchange.pc = "none"
      BY <2>1, OneLaneMoves DEF Fail, NoExchange
    <2>3. Issuing' \subseteq Issuing /\ Bumped \subseteq Bumped'
      <3>1. x \notin Bumped
        BY <2>1 DEF Bumped
      <3> QED BY <2>2, <3>1 DEF LanesMoved
    <2>4. Unsettled' \subseteq Unsettled
      <3>1. request' = [q \in Requests |->
               IF q \in Waiting(t) THEN [request[q] EXCEPT !.pc = "refused"] ELSE request[q]]
        BY <1>1, <2>1 DEF Fail
      <3>2. WaitEnds(t)
        BY <3>1, WaitingEnds
      <3> QED BY <3>2 DEF WaitEnds
    <2>5. Budget'
      BY <2>1, <2>3, <2>4, BudgetStays DEF SessionsShape
    <2> QED BY <2>1, <2>5, FailKeeps
  <1>4. CASE Rotated(exchange[x].row) # 0
    <2>1. PICK row : row = Rotated(exchange[x].row)
      OBVIOUS
    <2>2. PICK new : /\ new = [pc |-> "revoke", row |-> row, org |-> BoundOrg(row), version |-> version]
                     /\ exchange' = [exchange EXCEPT ![<<t, lane>>] = new]
      BY <1>1, <1>4, <2>1 DEF ReadToken
    <2>3. new.pc = "revoke" /\ new.row # 0 /\ new.version <= version
      BY <1>2, <1>4, <2>1, <2>2
    <2>4. /\ exchange[<<t, lane>>].pc = "read"
          /\ LaneShape(exchange[<<t, "page">>], exchange[<<t, "refresh">>], tab[t].page, Waiting(t))
      BY <1>1, <1>2, <1>4 DEF TabKnown
    <2>5. LaneShape(IF lane = "page" THEN new ELSE exchange[<<t, "page">>],
                    IF lane = "refresh" THEN new ELSE exchange[<<t, "refresh">>], tab[t].page, Waiting(t))
      BY <2>3, <2>4 DEF LaneShape, Lanes
    <2>6. Issuing' \subseteq Issuing /\ Bumped \subseteq Bumped'
      <3>1. CASE lane = "page"
        BY <2>2, <2>3, <2>4, <3>1, PageCounts
      <3>2. CASE lane = "refresh"
        BY <2>2, <3>2, RefreshCounts
      <3> QED BY <3>1, <3>2 DEF Lanes
    <2> QED BY <1>2, <1>4, <2>2, <2>3, <2>5, <2>6, GoingKeeps
  <1> QED BY <1>3, <1>4

\* The row of a refresh is revoked.
LEMMA RevokeKeeps ==
    ASSUME SessionRows, SessionRows', SessionsShape, NEW x \in Tabs \X Lanes, RevokeToken(x)
    PROVE  SessionsShape'
  <1>1. PICK t \in Tabs, lane \in Lanes : x = <<t, lane>> /\ x[1] = t /\ x[2] = lane
    BY CallIn
  <1>2. Going
    BY DEF RevokeToken, Going, SessionRows
  <1>3. PICK new : /\ new = [exchange[<<t, lane>>] EXCEPT !.pc = "issue"]
                   /\ exchange' = [exchange EXCEPT ![<<t, lane>>] = new]
    BY <1>1 DEF RevokeToken
  <1>4. /\ exchange[<<t, lane>>].pc = "revoke" /\ TabKnown(t)
        /\ new.pc = "issue" /\ new.row = exchange[<<t, lane>>].row /\ new.version = exchange[<<t, lane>>].version
    <2>1. exchange[<<t, lane>>] \in [pc : {"none", "read", "revoke", "issue", "bump", "revokeAll", "logout"},
                                     row : 0..Len(token), org : Orgs, version : Nat]
      BY DEF SessionRows
    <2> QED BY <1>1, <1>3, <2>1, TabIsKnown DEF RevokeToken
  <1>5. new.version <= version
    BY <1>4 DEF TabKnown
  <1>6. LaneShape(IF lane = "page" THEN new ELSE exchange[<<t, "page">>],
                  IF lane = "refresh" THEN new ELSE exchange[<<t, "refresh">>], tab[t].page, Waiting(t))
    BY <1>4 DEF LaneShape, Lanes, TabKnown
  <1>7. Issuing' \subseteq Issuing /\ Bumped \subseteq Bumped'
    <2>1. CASE lane = "page"
      BY <1>3, <1>4, <2>1, PageCounts
    <2>2. CASE lane = "refresh"
      BY <1>3, <2>2, RefreshCounts
    <2> QED BY <2>1, <2>2 DEF Lanes
  <1> QED BY <1>2, <1>3, <1>5, <1>6, <1>7, GoingKeeps

\* Every row is revoked, by a page's call.
LEMMA RevokeAllKeeps ==
    ASSUME SessionRows, SessionRows', SessionsShape, NEW x \in Tabs \X Lanes, RevokeAll(x)
    PROVE  SessionsShape'
  <1>1. PICK t \in Tabs, lane \in Lanes : x = <<t, lane>> /\ x[1] = t /\ x[2] = lane
    BY CallIn
  <1>2. Going
    BY DEF RevokeAll, Going, SessionRows
  <1>3. PICK new : /\ new = [exchange[<<t, lane>>] EXCEPT !.pc = "issue"]
                   /\ exchange' = [exchange EXCEPT ![<<t, lane>>] = new]
    BY <1>1 DEF RevokeAll
  <1>4. /\ exchange[<<t, lane>>].pc = "revokeAll" /\ TabKnown(t)
        /\ new.pc = "issue" /\ new.row = exchange[<<t, lane>>].row /\ new.version = exchange[<<t, lane>>].version
    <2>1. exchange[<<t, lane>>] \in [pc : {"none", "read", "revoke", "issue", "bump", "revokeAll", "logout"},
                                     row : 0..Len(token), org : Orgs, version : Nat]
      BY DEF SessionRows
    <2> QED BY <1>1, <1>3, <2>1, TabIsKnown DEF RevokeAll
  <1>5. new.version <= version
    BY <1>4 DEF TabKnown
  <1>6. lane = "page"
    BY <1>4 DEF LaneShape, Lanes, TabKnown
  <1>7. LaneShape(IF lane = "page" THEN new ELSE exchange[<<t, "page">>],
                  IF lane = "refresh" THEN new ELSE exchange[<<t, "refresh">>], tab[t].page, Waiting(t))
    BY <1>4, <1>6 DEF LaneShape, TabKnown
  <1>8. Issuing' \subseteq Issuing /\ Bumped \subseteq Bumped'
    BY <1>3, <1>4, <1>6, PageCounts
  <1> QED BY <1>2, <1>3, <1>5, <1>7, <1>8, GoingKeeps

\* The version goes up, by a page's call, which is to issue a token of it.
LEMMA BumpKeeps ==
    ASSUME SessionRows, SessionRows', SessionsShape, NEW x \in Tabs \X Lanes, BumpVersion(x)
    PROVE  SessionsShape'
  <1>1. PICK t \in Tabs, lane \in Lanes : x = <<t, lane>> /\ x[1] = t /\ x[2] = lane
    BY CallIn
  <1>2. /\ UNCHANGED <<token, replaced, undisturbed, lossless, tab, request>> /\ version' = version + 1
        /\ version \in Nat /\ Budget
    BY DEF BumpVersion, SessionRows, SessionsShape
  <1>3. PICK new : /\ new = [exchange[<<t, lane>>] EXCEPT !.pc = "revokeAll", !.version = version + 1]
                   /\ exchange' = [exchange EXCEPT ![<<t, lane>>] = new]
    <2>1. exchange \in [Tabs \X Lanes ->
             [pc : {"none", "read", "revoke", "issue", "bump", "revokeAll", "logout"},
              row : 0..Len(token), org : Orgs, version : Nat]]
      BY DEF SessionRows
    <2> QED BY <1>1, <2>1 DEF BumpVersion
  <1>4. /\ exchange[<<t, lane>>].pc = "bump" /\ TabKnown(t)
        /\ new.pc = "revokeAll" /\ new.row = exchange[<<t, lane>>].row /\ new.version = version + 1
    <2>1. exchange[<<t, lane>>] \in [pc : {"none", "read", "revoke", "issue", "bump", "revokeAll", "logout"},
                                     row : 0..Len(token), org : Orgs, version : Nat]
      BY DEF SessionRows
    <2> QED BY <1>1, <1>3, <2>1, TabIsKnown DEF BumpVersion
  <1>5. lane = "page" /\ Waiting(t)' = Waiting(t)
    BY <1>2, <1>4 DEF LaneShape, Lanes, TabKnown, Waiting
  <1>6. LaneShape(IF lane = "page" THEN new ELSE exchange[<<t, "page">>],
                  IF lane = "refresh" THEN new ELSE exchange[<<t, "refresh">>], tab[t].page, Waiting(t))
    BY <1>4, <1>5 DEF LaneShape, TabKnown
  <1>7. Budget'
    <2>1. /\ Issuing' = Issuing \cup {<<t, "page">>} /\ Bumped' = Bumped \cup {<<t, "page">>}
          /\ <<t, "page">> \in Issuing /\ <<t, "page">> \notin Bumped
      BY <1>3, <1>4, <1>5, PageCounts
    <2>2. /\ Issuing' \subseteq Issuing /\ Bumped \subseteq Bumped' \ {<<t, "page">>} /\ <<t, "page">> \in Bumped'
          /\ Unsettled' = Unsettled /\ Len(token') = Len(token)
      BY <1>2, <2>1 DEF Unsettled
    <2> QED BY <1>2, <2>2, VersionFits
  <1>8. /\ request' = request /\ tab[t] \in TabRecord /\ tab' = [tab EXCEPT ![t] = tab[t]]
        /\ replaced' \subseteq DOMAIN token' /\ undisturbed' \in BOOLEAN /\ lossless' \in BOOLEAN
    BY <1>2, <1>4 DEF TabKnown, SessionsShape
  <1>9. /\ version <= version' /\ version' # 0 /\ new.version <= version'
        /\ tab[t].access.version <= version'
    <2>1. tab[t].access.version \in Nat /\ tab[t].access.version <= version
      BY <1>4 DEF TabKnown, TabRecord
    <2> QED BY <1>2, <1>4, <2>1
  <1> QED BY <1>3, <1>6, <1>7, <1>8, <1>9, LaneKeeps

\* A sign-out is answered.
LEMMA EndKeeps ==
    ASSUME SessionRows, SessionRows', SessionsShape, NEW x \in Tabs \X Lanes, EndSession(x)
    PROVE  SessionsShape'
  <1>1. PICK t \in Tabs, lane \in Lanes : x = <<t, lane>> /\ x[1] = t /\ x[2] = lane
    BY CallIn
  <1>2. Going
    BY DEF EndSession, Going, SessionRows
  <1>3. PICK new : new = NoExchange /\ exchange' = [exchange EXCEPT ![<<t, lane>>] = new]
    BY <1>1 DEF EndSession
  <1>4. /\ exchange[<<t, lane>>].pc = "logout" /\ TabKnown(t)
        /\ new.pc = "none" /\ new.version = 0 /\ version \in Nat
    BY <1>1, <1>3, TabIsKnown DEF EndSession, NoExchange, SessionRows
  <1>5. lane = "page" /\ new.version <= version
    BY <1>4 DEF LaneShape, Lanes, TabKnown
  <1>6. LaneShape(IF lane = "page" THEN new ELSE exchange[<<t, "page">>],
                  IF lane = "refresh" THEN new ELSE exchange[<<t, "refresh">>], tab[t].page, Waiting(t))
    BY <1>4, <1>5 DEF LaneShape, TabKnown
  <1>7. Issuing' \subseteq Issuing /\ Bumped \subseteq Bumped'
    BY <1>3, <1>4, <1>5, PageCounts
  <1> QED BY <1>2, <1>3, <1>5, <1>6, <1>7, GoingKeeps


\* A pair is issued, and counted in place of its call or of a request it was for.
LEMMA IssueFits ==
    ASSUME SessionRows, SessionRows', SessionsShape, NEW t \in Tabs, NEW lane \in Lanes,
           exchange[<<t, lane>>].pc = "issue", Len(token') = Len(token) + 1, version' = version,
           exchange' = [exchange EXCEPT ![<<t, lane>>] = NoExchange],
           lane = "page" => Unsettled' \subseteq Unsettled,
           lane = "refresh" => Unsettled' \subseteq Unsettled \ Waiting(t)
    PROVE  Budget'
  <1>1. TabKnown(t) /\ Budget /\ NoExchange.pc = "none"
    BY TabIsKnown DEF SessionsShape, NoExchange
  <1>2. CASE lane = "page"
    <2>1. /\ Issuing' = Issuing \ {<<t, "page">>} /\ Bumped' = Bumped \ {<<t, "page">>}
          /\ <<t, "page">> \in Issuing
      BY <1>1, <1>2, PageCounts
    <2>2. Bumped \subseteq Bumped' \cup {<<t, "page">>} /\ Unsettled' \subseteq Unsettled
      BY <1>2, <2>1
    <2> QED BY <1>1, <2>1, <2>2, PairFits
  <1>3. CASE lane = "refresh"
    <2>1. Issuing' = Issuing /\ Bumped' = Bumped
      BY <1>3, RefreshCounts
    <2>2. PICK q \in Requests : q \in Waiting(t)
      BY <1>1, <1>3 DEF TabKnown, LaneShape, Waiting
    <2>3. q \in Unsettled /\ Unsettled' \subseteq Unsettled \ {q}
      BY <1>3, <2>2 DEF Waiting, Unsettled
    <2>4. Bumped \subseteq Bumped' \cup {<<t, "refresh">>} /\ Issuing' \subseteq Issuing
      BY <2>1
    <2> QED BY <1>1, <2>3, <2>4, PairFits
  <1> QED BY <1>2, <1>3 DEF Lanes

\* A pair is issued: answered, or lost on the way.
LEMMA IssueKeeps ==
    ASSUME SessionRows, SessionRows', SessionsShape, NEW x \in Tabs \X Lanes, IssuePair(x)
    PROVE  SessionsShape'
  <1>1. PICK t \in Tabs, lane \in Lanes : x = <<t, lane>> /\ x[1] = t /\ x[2] = lane
    BY CallIn
  <1>2. /\ TabKnown(t) /\ exchange[<<t, lane>>].pc = "issue" /\ version' = version /\ version \in Nat
        /\ NoExchange.pc = "none" /\ NoExchange.version = 0
        /\ exchange' = [exchange EXCEPT ![<<t, lane>>] = NoExchange]
    BY <1>1, TabIsKnown DEF IssuePair, Fail, NoExchange, SessionRows
  <1>3. /\ Len(token') = Len(token) + 1 /\ DOMAIN token \subseteq DOMAIN token'
        /\ replaced \subseteq DOMAIN token' /\ {cookie} \ {0} \subseteq DOMAIN token'
    <2>1. token \in Seq(Token) /\ token' = Append(token, NewToken(exchange[x].org))
          /\ token' \in Seq(Token) /\ cookie \in 0..Len(token) /\ replaced \subseteq DOMAIN token
      BY DEF IssuePair, SessionRows, SessionsShape
    <2>2. Len(token) \in Nat /\ Len(token') = Len(token) + 1
      BY <2>1
    <2>3. DOMAIN token = 1..Len(token) /\ DOMAIN token' = 1..Len(token')
      BY <2>1
    <2> QED BY <2>1, <2>2, <2>3
  <1>4. version <= version' /\ version' # 0 /\ NoExchange.version <= version'
    BY <1>2 DEF SessionsShape
  <1>5. CASE /\ replaced' = (IF exchange[x].row = 0 THEN replaced \cup ({cookie} \ {0}) ELSE replaced)
             /\ tab' = [tab EXCEPT ![t] =
                   [page |-> "app", access |-> [version |-> exchange[x].version, live |-> TRUE]]]
             /\ request' = [q \in Requests |->
                   IF x[2] = "refresh" /\ q \in Waiting(t)
                   THEN [request[q] EXCEPT !.pc = "again"] ELSE request[q]]
             /\ UNCHANGED <<undisturbed, lossless>>
    <2>1. replaced' \subseteq DOMAIN token' /\ undisturbed' \in BOOLEAN /\ lossless' \in BOOLEAN
      BY <1>3, <1>5 DEF SessionsShape
    <2>2. PICK held : /\ held = [page |-> "app", access |-> [version |-> exchange[x].version, live |-> TRUE]]
                      /\ tab' = [tab EXCEPT ![t] = held]
      BY <1>5
    <2>3. exchange[x].version \in Nat /\ exchange[x].version <= version
      BY <1>1, <1>2 DEF TabKnown
    <2>4. held \in TabRecord /\ held.page = "app" /\ held.access.version <= version'
      BY <1>2, <2>2, <2>3 DEF TabRecord
    <2>5. CASE lane = "page"
      <3>1. request' = request
        <4>1. request' = [q \in Requests |-> request[q]]
          BY <1>1, <1>5, <2>5
        <4> QED BY <4>1 DEF SessionsShape
      <3>2. Budget'
        <4>1. Unsettled' \subseteq Unsettled
          BY <3>1 DEF Unsettled
        <4> QED BY <1>2, <1>3, <2>5, <4>1, IssueFits
      <3>3. LaneShape(NoExchange, exchange[<<t, "refresh">>], held.page, Waiting(t))
        BY <1>2, <2>4 DEF TabKnown, LaneShape
      <3> QED BY <1>2, <1>4, <2>1, <2>2, <2>4, <2>5, <3>1, <3>2, <3>3, LaneKeeps
    <2>6. CASE lane = "refresh"
      <3>1. WaitEnds(t)
        <4>1. request' = [q \in Requests |->
                 IF q \in Waiting(t) THEN [request[q] EXCEPT !.pc = "again"] ELSE request[q]]
          BY <1>1, <1>5, <2>6
        <4> QED BY <4>1, WaitingEnds
      <3>2. Budget'
        <4>1. Unsettled' \subseteq Unsettled \ Waiting(t)
          BY <3>1 DEF WaitEnds
        <4> QED BY <1>2, <1>3, <2>6, <4>1, IssueFits
      <3>3. LanesMoved(<<t, lane>>, NoExchange) /\ "page" \in Lanes /\ "refresh" \in Lanes
        BY <1>2, OneLaneMoves DEF TabKnown, Lanes
      <3>4. tab' \in [Tabs -> TabRecord] /\ tab'[t] = held /\ \A s \in Tabs \ {t} : tab'[s] = tab[s]
        BY <2>2, <2>4 DEF SessionsShape
      <3>5. OnlyTab(t)
        BY <3>1, <3>3, <3>4 DEF OnlyTab, WaitEnds, LanesMoved
      <3>6. exchange'[<<t, "page">>] = exchange[<<t, "page">>] /\ exchange'[<<t, "refresh">>] = NoExchange
        BY <2>6, <3>3 DEF LanesMoved
      <3>7. LaneShape(exchange[<<t, "page">>], NoExchange, held.page, {})
        <4>1. tab[t].page # "loading"
          BY <1>2, <2>6 DEF TabKnown, LaneShape
        <4> QED BY <1>2, <4>1 DEF TabKnown, LaneShape
      <3>8. TabShape(t)'
        <4>1. \A l \in Lanes : exchange'[<<t, l>>].version <= version'
          BY <1>2, <1>4, <3>6 DEF TabKnown, Lanes
        <4>2. Waiting(t)' = {}
          BY <3>1 DEF WaitEnds
        <4> QED BY <2>4, <3>4, <3>6, <3>7, <4>1, <4>2 DEF TabShape
      <3> QED BY <1>4, <2>1, <3>1, <3>2, <3>4, <3>5, <3>8, TabMoves DEF WaitEnds
    <2> QED BY <2>5, <2>6 DEF Lanes
  <1>6. CASE UNCHANGED <<replaced, tab, request>> /\ exchange[x].row = 0 /\ undisturbed' = FALSE /\ lossless' = FALSE
    <2>1. lane = "page"
      BY <1>1, <1>2, <1>6 DEF TabKnown, LaneShape, Lanes
    <2>2. Budget'
      <3>1. Unsettled' = Unsettled
        BY <1>6 DEF Unsettled
      <3> QED BY <1>2, <1>3, <2>1, <3>1, IssueFits
    <2>3. LaneShape(NoExchange, exchange[<<t, "refresh">>], tab[t].page, Waiting(t))
      BY <1>2 DEF TabKnown, LaneShape
    <2>4. /\ request' = request /\ tab[t] \in TabRecord /\ tab' = [tab EXCEPT ![t] = tab[t]]
          /\ replaced' \subseteq DOMAIN token' /\ undisturbed' \in BOOLEAN /\ lossless' \in BOOLEAN
          /\ tab[t].access.version <= version'
      BY <1>2, <1>3, <1>6 DEF TabKnown
    <2> QED BY <1>2, <1>4, <2>1, <2>2, <2>3, <2>4, LaneKeeps
  <1>7. CASE replaced' = replaced /\ Fail(x) /\ exchange[x].row # 0 /\ undisturbed' = FALSE /\ lossless' = FALSE
    <2>1. Budget'
      <3>1. WaitEnds(t)
        <4>1. request' = [q \in Requests |->
                 IF q \in Waiting(t) THEN [request[q] EXCEPT !.pc = "refused"] ELSE request[q]]
          BY <1>1, <1>7 DEF Fail
        <4> QED BY <4>1, WaitingEnds
      <3>2. Unsettled' \subseteq Unsettled /\ Unsettled' \subseteq Unsettled \ Waiting(t)
        BY <3>1 DEF WaitEnds
      <3> QED BY <1>2, <1>3, <3>2, IssueFits
    <2>2. exchange[x].pc = "issue" /\ replaced' \subseteq DOMAIN token'
          /\ undisturbed' \in BOOLEAN /\ lossless' \in BOOLEAN
      BY <1>1, <1>2, <1>3, <1>7
    <2> QED BY <1>2, <1>7, <2>1, <2>2, FailKeeps
  <1> QED BY <1>1, <1>5, <1>6, <1>7 DEF IssuePair


\* The user signed in a while ago.
LEMMA SessionsShapeInit == SessionsInit => SessionsShape
  <1> SUFFICES ASSUME SessionsInit PROVE SessionsShape
    OBVIOUS
  <1>1. /\ tab \in [Tabs -> {[page |-> "closed", access |-> NoAccess],
                             [page |-> "app", access |-> [version |-> 1, live |-> TRUE]]}]
        /\ exchange = [x \in Tabs \X Lanes |-> NoExchange]
        /\ request = [q \in Requests |-> [pc |-> "idle", tab |-> None]]
        /\ version = 1 /\ replaced = {} /\ undisturbed = TRUE /\ lossless = TRUE
        /\ Len(token) = 1
    BY DEF SessionsInit
  <1>2. tab \in [Tabs -> TabRecord] /\ request \in [Requests -> RequestRecord]
    <2>1. /\ [page |-> "closed", access |-> NoAccess] \in TabRecord
          /\ [page |-> "app", access |-> [version |-> 1, live |-> TRUE]] \in TabRecord
          /\ [pc |-> "idle", tab |-> None] \in RequestRecord
      BY DEF TabRecord, NoAccess, RequestRecord
    <2> QED BY <1>1, <2>1
  <1>3. ASSUME NEW t \in Tabs PROVE TabShape(t)
    <2>1. /\ exchange[<<t, "page">>] = NoExchange /\ exchange[<<t, "refresh">>] = NoExchange
          /\ NoExchange.pc = "none" /\ NoExchange.version = 0
      BY <1>1 DEF NoExchange, Lanes
    <2>2. Waiting(t) = {}
      BY <1>1 DEF Waiting
    <2>3. tab[t].access.version \in {0, 1}
      BY <1>1 DEF NoAccess
    <2>4. \A lane \in Lanes : exchange[<<t, lane>>].version <= version
      BY <1>1, <2>1 DEF Lanes
    <2>5. tab[t].access.version <= version
      BY <1>1, <2>3
    <2> QED BY <2>1, <2>2, <2>4, <2>5 DEF TabShape, LaneShape
  <1>4. Budget
    <2>1. Issuing = {} /\ Bumped = {}
      BY <1>1 DEF Issuing, Bumped, NoExchange
    <2>2. Cardinality(Issuing) = 0 /\ Cardinality(Bumped) = 0
      BY <2>1, FS_EmptySet
    <2>3. Unsettled = Requests
      BY <1>1 DEF Unsettled
    <2>4. PICK n \in Nat : n = Cardinality(Unsettled)
      BY <2>3, FS_CardinalityType, SessionsAssumption
    <2>5. n < MaxTokens /\ MaxTokens \in Nat
      BY <2>3, <2>4, SessionsAssumption
    <2>6. 1 + 0 + n <= MaxTokens /\ 1 <= 1 + 0
      BY ONLY <2>4, <2>5
    <2> QED BY <1>1, <2>2, <2>4, <2>6 DEF Budget
  <1> QED BY <1>1, <1>2, <1>3, <1>4 DEF SessionsShape

\* Every step keeps it.
LEMMA SessionsShapeKept ==
    ASSUME SessionRows, SessionRows', SessionsShape, [SessionsNext]_sessionsVars
    PROVE  SessionsShape'
  <1>1. ASSUME NEW x \in Tabs \X Lanes,
               ReadToken(x) \/ RevokeToken(x) \/ BumpVersion(x) \/ RevokeAll(x) \/ IssuePair(x) \/ EndSession(x)
        PROVE  SessionsShape'
    BY <1>1, ReadKeeps, RevokeKeeps, BumpKeeps, RevokeAllKeeps, IssueKeeps, EndKeeps
  <1>2. ASSUME NEW t \in Tabs, SendRefresh(t) \/ Load(t) \/ Logout(t)
        PROVE  SessionsShape'
    BY <1>2, RefreshKeeps, LoadKeeps, LogoutKeeps
  <1>3. ASSUME NEW t \in Tabs, NEW o \in Orgs, Login(t, o) \/ Switch(t, o)
        PROVE  SessionsShape'
    BY <1>3, SignInKeeps
  <1>4. ASSUME NEW t \in Tabs, Expire(t) \/ \E q \in Requests : Send(q, t)
        PROVE  SessionsShape'
    BY <1>4, SendKeeps
  <1>5. ASSUME NEW q \in Requests, SendAgain(q)
        PROVE  SessionsShape'
    <2>1. PICK pc \in {"done", "refused"} : request' = [request EXCEPT ![q].pc = pc]
      BY <1>5 DEF SendAgain
    <2>2. request[q] \in RequestRecord /\ request[q].pc = "again"
      BY <1>5 DEF SendAgain, SessionsShape
    <2>3. /\ request' \in [Requests -> RequestRecord] /\ request'[q].pc = pc
          /\ \A r \in Requests : r # q => request'[r] = request[r]
      <3>1. PICK sent : sent = [request[q] EXCEPT !.pc = pc] /\ request' = [request EXCEPT ![q] = sent]
        BY <2>1
      <3>2. sent \in RequestRecord /\ sent.pc = pc
        BY <2>2, <3>1 DEF RequestRecord
      <3> QED BY <3>1, <3>2 DEF SessionsShape
    <2>4. \A t \in Tabs : Waiting(t)' = Waiting(t)
      BY <2>2, <2>3 DEF Waiting
    <2>5. Unsettled' \subseteq Unsettled
      BY <2>3 DEF Unsettled
    <2>6. /\ UNCHANGED <<tab, exchange, version>> /\ Len(token') = Len(token)
          /\ replaced' \subseteq DOMAIN token' /\ undisturbed' \in BOOLEAN /\ lossless' \in BOOLEAN
      BY <1>5 DEF SendAgain, SessionsShape
    <2> QED BY <2>3, <2>4, <2>5, <2>6, TabsStay
  <1>6. CASE GraceRunsOut \/ UNCHANGED sessionsVars
    <2>1. UNCHANGED <<tab, exchange, version, request>> /\ \A t \in Tabs : Waiting(t)' = Waiting(t)
      BY <1>6 DEF GraceRunsOut, sessionsVars, Waiting
    <2>2. DOMAIN token' = DOMAIN token /\ Len(token') = Len(token)
      <3>1. DOMAIN token' = DOMAIN token
        BY <1>6 DEF GraceRunsOut, sessionsVars
      <3>2. token \in Seq(Token) /\ token' \in Seq(Token)
        BY DEF SessionRows
      <3> QED BY <3>1, <3>2
    <2>3. replaced' \subseteq DOMAIN token' /\ undisturbed' \in BOOLEAN /\ lossless' \in BOOLEAN
      BY <1>6, <2>2 DEF GraceRunsOut, sessionsVars, SessionsShape
    <2>4. Unsettled' \subseteq Unsettled /\ request' \in [Requests -> RequestRecord]
      BY <2>1 DEF Unsettled, SessionsShape
    <2> QED BY <2>1, <2>2, <2>3, <2>4, TabsStay
  <1> QED BY <1>1, <1>2, <1>3, <1>4, <1>5, <1>6 DEF SessionsNext, SessionsWork

\* The bounds are never passed: what is let in has its token left.
LEMMA SessionsAreTyped == ASSUME SessionRows, SessionsShape PROVE SessionsTypeOK
  <1>1. Counted /\ Len(token) \in Nat /\ version \in Nat /\ MaxTokens \in Nat /\ Budget
    BY CallsAreCounted, SessionsAssumption DEF SessionRows, SessionsShape
  <1>2. Len(token) <= MaxTokens /\ version <= MaxTokens
    <2>1. Cardinality(Bumped) <= Cardinality(Issuing)
      BY <1>1, FS_Subset DEF Counted
    <2>2. PICK i \in Nat, u \in Nat, b \in Nat :
             i = Cardinality(Issuing) /\ u = Cardinality(Unsettled) /\ b = Cardinality(Bumped)
      BY <1>1 DEF Counted
    <2>3. Len(token) + i + u <= MaxTokens /\ version <= Len(token) + b /\ b <= i
      BY <1>1, <2>1, <2>2 DEF Budget
    <2> QED BY ONLY <1>1, <2>2, <2>3
  <1>3. tab \in [Tabs -> Tab]
    <2> SUFFICES ASSUME NEW t \in Tabs PROVE tab[t] \in Tab
      BY DEF SessionsShape
    <2>1. tab[t] \in TabRecord /\ tab[t].access.version <= version
      BY DEF SessionsShape, TabShape
    <2>2. tab[t].access.version \in 0..MaxTokens
      <3>1. tab[t].access.version \in Nat
        BY <2>1 DEF TabRecord
      <3> QED BY ONLY <1>1, <1>2, <2>1, <3>1
    <2> QED BY <2>1, <2>2 DEF TabRecord, Tab
  <1>4. exchange \in [Tabs \X Lanes -> Exchange]
    <2> SUFFICES ASSUME NEW x \in Tabs \X Lanes PROVE exchange[x] \in Exchange
      BY DEF SessionRows
    <2>1. exchange[x] \in [pc : {"none", "read", "revoke", "issue", "bump", "revokeAll", "logout"},
                           row : 0..Len(token), org : Orgs, version : Nat]
      BY DEF SessionRows
    <2>2. exchange[x].version <= version
      <3>1. PICK t \in Tabs, lane \in Lanes : x = <<t, lane>> /\ x[1] = t /\ x[2] = lane
        BY CallIn
      <3> QED BY <3>1 DEF SessionsShape, TabShape
    <2>3. exchange[x].version \in 0..MaxTokens /\ exchange[x].row \in 0..MaxTokens
      <3>1. exchange[x].version \in Nat /\ exchange[x].row \in 0..Len(token)
        BY <2>1
      <3> QED BY ONLY <1>1, <1>2, <2>2, <3>1
    <2> QED BY <2>1, <2>3 DEF Exchange
  <1>5. version \in 1..MaxTokens
    BY <1>1, <1>2 DEF SessionsShape
  <1>6. request \in [Requests -> [pc : {"idle", "parked", "again", "done", "refused"}, tab : Tabs \cup {None}]]
    BY DEF SessionsShape, RequestRecord
  <1>7. token \in Seq(Token) /\ cookie \in 0..Len(token) /\ chosen \in Orgs
    BY DEF SessionRows
  <1> QED BY <1>2, <1>3, <1>4, <1>5, <1>6, <1>7 DEF SessionsTypeOK, SessionsShape

-----------------------------------------------------------------------------
(* The types of the pages together *)

\* BrowserTypeOK for any number of tabs, organizations, requests, rows, products and
\* calls: what each page holds stays what its code may put there, no call issues a token
\* that was not counted when it was let in, no job stands beyond its file, and no line of
\* a cart beyond the stock there can be (api.ts, useImport.ts, pos/page.tsx).
THEOREM BrowserIsTyped == BrowserSpec => []BrowserTypeOK
  <1> DEFINE Inv == /\ serving \in 1..MaxServing
                    /\ SessionsInv /\ SessionsShape
                    /\ ImportsInv /\ ImportShape
                    /\ CounterInv /\ PageShape
  <1>1. BrowserInit => Inv
    <2> SUFFICES ASSUME BrowserInit PROVE Inv
      OBVIOUS
    <2>1. DeskInit /\ SessionsInit /\ ImportsInit /\ CounterInit
      BY DEF BrowserInit
    <2>2. PageShape
      BY <2>1 DEF CounterInit, PageShape
    <2> QED BY <2>1, <2>2, SessionsInitInv, SessionsShapeInit, ImportsInitInv, ImportShapeInit, CounterInitInv
            DEF DeskInit
  <1>2. Inv /\ [BrowserNext]_browserVars => Inv'
    <2> SUFFICES ASSUME Inv, [BrowserNext]_browserVars PROVE Inv'
      OBVIOUS
    <2>1. SessionsInv' /\ ImportsInv' /\ CounterInv'
      BY SessionsStep, SessionsNextInv, ImportsStep, ImportsNextInv, CounterStep, CounterNextInv
    <2>2. /\ serving' = serving /\ [SessionsNext]_sessionsVars /\ [ImportsNext]_importsVars
          /\ [CounterNext]_counterVars
      BY DEF BrowserNext, browserVars
    <2>3. SessionsShape'
      BY <2>1, <2>2, SessionsShapeKept DEF SessionsInv
    <2>4. ImportShape'
      BY <2>2, ImportShapeKept
    <2>5. PageShape'
      BY <2>2, PageShapeKept
    <2> QED BY <2>1, <2>2, <2>3, <2>4, <2>5
  <1>3. Inv => BrowserTypeOK
    BY SessionsAreTyped, ImportsAreTyped, CounterIsTyped DEF BrowserTypeOK, SessionsInv
  <1> HIDE DEF Inv
  <1> QED BY <1>1, <1>2, <1>3, PTL DEF BrowserSpec
=============================================================================
