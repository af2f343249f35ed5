--------------------------- MODULE SessionsProofs ---------------------------
(***************************************************************************)
(* Theorems about Sessions for every set of accounts, tokens, requests and *)
(* browsers: that every session keeps one live token and descends from its *)
(* login, then that a session is over for good, what sets off a reuse sweep *)
(* and who, and whose account a renewal goes on with.  The invariant that  *)
(* carries the first adds to what is claimed how the tokens in hand are    *)
(* related to the tokens issued; the second group rests on it.             *)
(***************************************************************************)
EXTENDS Sessions, TLAPS

\* Families are rooted, and every token that anything refers to was issued.
FamilyOK ==
    /\ \A t \in stored : family[t] # NoToken
    /\ \A t \in Tokens : family[t] # NoToken => family[family[t]] = family[t]
    /\ \A r \in Requests : req[r].token # NoToken => family[req[r].token] # NoToken
    /\ \A b \in Browsers : jar[b] # NoToken => family[jar[b]] # NoToken
    /\ \A t \in Tokens : parent[t] # NoToken =>
          family[t] # NoToken /\ family[parent[t]] = family[t] /\ family[parent[t]] # NoToken

\* A token being renewed has been rotated and has no successor yet.
RenewalOK ==
    \A r \in Requests : Renewing(r) =>
        /\ req[r].token \in stored => row[req[r].token].reason = "ROTATED"
        /\ \A t \in Tokens : parent[t] # req[r].token

\* A login carries no token, so the session it starts descends from none.
LoginOK == \A r \in Requests : req[r].pc = "findAccount" => req[r].token = NoToken

Inv == TypeOK /\ FamilyOK /\ OneLivePerLogin /\ RenewalOK /\ LoginOK /\ SuccessorOfRotated

-----------------------------------------------------------------------------

\* What TypeOK says of the requests.
RequestsOK ==
    /\ req \in [Requests -> Request]
    /\ \A r \in Requests : req[r] # Idle => req[r].pc # "idle" /\ req[r].browser \in Browsers

\* What it says of the rows.
RowsOK ==
    /\ row \in [Tokens -> Row]
    /\ \A t \in Tokens : row[t].revokedAt = NeverRevoked <=> row[t].reason = "NONE"

LEMMA TypeInitially == Init => TypeOK
BY SessionConstants DEF Init, TypeOK, Row, NoRow, Request, Idle, NeverRevoked, Reasons

\* A handler that moves on or answers leaves a well-formed request behind.
LEMMA GotoTyped ==
    ASSUME TypeOK, NEW r \in Requests, NEW pc \in Steps, req[r] # Idle, Goto(r, pc)
    PROVE  RequestsOK'
<1>1. req[r] \in Request /\ req[r].pc # "idle" /\ req[r].browser \in Browsers
    BY DEF TypeOK
<1>2. req' = [req EXCEPT ![r] = [req[r] EXCEPT !.pc = pc]]
    BY DEF Goto, TypeOK
<1>3. [req[r] EXCEPT !.pc = pc] \in Request
    BY <1>1 DEF Request
<1>4. pc # "idle"
    BY DEF Steps
<1> QED BY <1>1, <1>2, <1>3, <1>4 DEF RequestsOK, TypeOK, Request

LEMMA ReplyTyped ==
    ASSUME TypeOK, NEW r \in Requests, NEW a \in Answers, NEW t \in Tokens \cup {NoToken},
           req[r] # Idle, Reply(r, a, t)
    PROVE  RequestsOK'
BY SessionConstants DEF Reply, TypeOK, RequestsOK, Request, Idle, Answers

LEMMA StartSessionTyped ==
    ASSUME TypeOK, NEW r \in Requests, NEW u \in Users, req[r] # Idle, StartSession(r, u)
    PROVE  RequestsOK'
<1>1. req[r] \in Request /\ req[r].pc # "idle" /\ req[r].browser \in Browsers
    BY DEF TypeOK
<1>2. req' = [req EXCEPT ![r] = [req[r] EXCEPT !.pc = "insert", !.user = u, !.now = clock]]
    BY DEF StartSession, TypeOK
<1>3. clock \in Nat
    BY SessionConstants DEF TypeOK
<1>4. [req[r] EXCEPT !.pc = "insert", !.user = u, !.now = clock] \in Request
    BY <1>1, <1>3 DEF Request, Steps
<1> QED BY <1>1, <1>2, <1>4 DEF RequestsOK, TypeOK, Request

LEMMA ArriveTyped ==
    ASSUME TypeOK, NEW r \in Requests, NEW b \in Browsers, NEW pc \in Steps \cup Answers,
           NEW t \in Tokens \cup {NoToken}, NEW u \in Users \cup {NoUser}, NEW now \in Nat,
           Arrive(r, b, pc, t, u, now)
    PROVE  TypeOK'
<1> DEFINE new == [pc |-> pc, browser |-> b, token |-> t, user |-> u, now |-> now]
<1>1. new \in Request /\ new.pc # "idle" /\ new.browser \in Browsers
    BY SessionConstants DEF Request, Steps, Answers
<1>2. req' = [req EXCEPT ![r] = new]
    BY DEF Arrive
<1>3. disturbed' \subseteq Browsers
    BY DEF Arrive, TypeOK
<1>4. RequestsOK'
    BY <1>1, <1>2 DEF RequestsOK, TypeOK
<1> QED BY <1>3, <1>4 DEF Arrive, RequestsOK, TypeOK

\* A revocation keeps the rows typed and dated.
LEMMA RevokeTyped ==
    ASSUME TypeOK, NEW S \in SUBSET Tokens, NEW at \in Nat, NEW why \in Reasons \ {"NONE"},
           Revoke(S, at, why)
    PROVE  RowsOK'
<1>1. ASSUME NEW t \in Tokens
      PROVE  /\ row'[t] \in Row
             /\ row'[t].revokedAt = NeverRevoked <=> row'[t].reason = "NONE"
  <2>1. row[t] \in Row /\ (row[t].revokedAt = NeverRevoked <=> row[t].reason = "NONE")
      BY DEF TypeOK
  <2>2. CASE t \in S /\ Live(t)
    <3>1. row'[t] = [row[t] EXCEPT !.revokedAt = at, !.reason = why]
        BY <2>2 DEF Revoke
    <3>2. row'[t].revokedAt = at /\ row'[t].reason = why
        BY <2>1, <3>1 DEF Row
    <3>3. row'[t] \in Row
        BY <2>1, <3>1 DEF Row
    <3> QED BY <3>2, <3>3 DEF NeverRevoked
  <2>3. CASE ~(t \in S /\ Live(t))
      BY <2>1, <2>3 DEF Revoke
  <2> QED BY <2>2, <2>3
<1>2. row' = [t \in Tokens |-> row'[t]]
    BY DEF Revoke
<1> QED BY <1>1, <1>2 DEF RowsOK

LEMMA TypePreserved == TypeOK /\ [Next]_vars => TypeOK'
<1> SUFFICES ASSUME TypeOK, [Next]_vars PROVE TypeOK'
    OBVIOUS
<1> USE SessionConstants
<1>a. \A r \in Requests : req[r] \in Request
    BY DEF TypeOK
<1>b. clock \in Nat
    BY DEF TypeOK
<1>c. \A b \in Browsers : jar[b] \in Tokens \cup {NoToken}
    BY DEF TypeOK
<1>1. ASSUME NEW r \in Requests, NEW b \in Browsers, NEW u \in Users, BeginLogin(r, b, u)
      PROVE  TypeOK'
    BY <1>1, ArriveTyped DEF BeginLogin, Steps
<1>2. ASSUME NEW r \in Requests, NEW b \in Browsers, BeginRefresh(r, b)
      PROVE  TypeOK'
    BY <1>2, <1>b, <1>c, ArriveTyped DEF BeginRefresh, Steps, Answers
<1>3. ASSUME NEW r \in Requests, NEW b \in Browsers, BeginLogout(r, b)
      PROVE  TypeOK'
    BY <1>3, <1>c, ArriveTyped DEF BeginLogout, Steps, Answers
<1>4. ASSUME NEW r \in Requests, FindAccount(r)
      PROVE  TypeOK'
  <2>1. req[r] # Idle
      BY <1>4 DEF FindAccount, Idle
  <2>2. RequestsOK'
      BY <1>4, <2>1, ReplyTyped, StartSessionTyped DEF FindAccount, Answers, TypeOK
  <2> QED BY <1>4, <2>2 DEF FindAccount, RequestsOK, TypeOK
<1>5. ASSUME NEW r \in Requests, FindToken(r)
      PROVE  TypeOK'
  <2>0. req[r] # Idle
      BY <1>5 DEF FindToken, Idle
  <2>1. CASE AfterFind(req[r].token, req[r].now) = "refused"
    <3>1. RequestsOK'
        BY <1>5, <2>0, <2>1, ReplyTyped DEF FindToken, Answers
    <3> QED BY <1>5, <3>1 DEF FindToken, RequestsOK, TypeOK
  <2>2. CASE AfterFind(req[r].token, req[r].now) # "refused"
    <3> DEFINE next == AfterFind(req[r].token, req[r].now)
    <3>1. req[r].token \in stored
        BY <2>2 DEF AfterFind, Live
    <3>2. row[req[r].token] \in Row
        BY <3>1 DEF TypeOK
    <3>3. next \in Steps
      <4>1. row[req[r].token].reason \in Reasons
          BY <3>2 DEF Row
      <4>2. next \in {"revokeAll", "rotate"}
          BY <2>2, <3>1, <4>1, Zenon DEF AfterFind, Live, Reasons
      <4> QED BY <4>2 DEF Steps
    <3>4. [req[r] EXCEPT !.pc = next, !.user = row[req[r].token].user] \in Request
        BY <1>a, <3>2, <3>3 DEF Row, Request
    <3>5. req' = [req EXCEPT ![r] = [req[r] EXCEPT !.pc = next,
                                                   !.user = row[req[r].token].user]]
        BY <1>5, <2>2 DEF FindToken, TypeOK
    <3>6. req'[r].pc # "idle" /\ req'[r].browser \in Browsers
        BY <1>a, <2>0, <3>3, <3>5 DEF TypeOK, Request, Steps
    <3>7. RequestsOK'
        BY <3>4, <3>5, <3>6 DEF RequestsOK, TypeOK
    <3> QED BY <1>5, <3>7 DEF FindToken, RequestsOK, TypeOK
  <2> QED BY <2>1, <2>2
<1>6. ASSUME NEW r \in Requests, RevokeAll(r)
      PROVE  TypeOK'
  <2>1. RequestsOK'
      BY <1>6, ReplyTyped DEF RevokeAll, Answers, Idle
  <2>2. TokensOf(req[r].user) \in SUBSET Tokens /\ req[r].now \in Nat
      BY <1>a DEF TokensOf, TypeOK, Request
  <2>3. Revoke(TokensOf(req[r].user), req[r].now, "REUSE_DETECTED")
      BY <1>6 DEF RevokeAll
  <2>4. RowsOK'
      BY <2>2, <2>3, RevokeTyped DEF Reasons
  <2> QED BY <1>6, <2>1, <2>4 DEF RevokeAll, RequestsOK, RowsOK, TypeOK
<1>7. ASSUME NEW r \in Requests, Rotate(r)
      PROVE  TypeOK'
  <2>1. RequestsOK'
      BY <1>7, GotoTyped, ReplyTyped DEF Rotate, Steps, Answers, Idle
  <2>2. {req[r].token} \cap Tokens \in SUBSET Tokens /\ req[r].now \in Nat
      BY <1>a DEF Request
  <2>3. Revoke({req[r].token} \cap Tokens, req[r].now, "ROTATED")
      BY <1>7 DEF Rotate, Revoke
  <2>4. RowsOK'
      BY <2>2, <2>3, RevokeTyped DEF Reasons
  <2> QED BY <1>7, <2>1, <2>4 DEF Rotate, RequestsOK, RowsOK, TypeOK
<1>8. ASSUME NEW r \in Requests, ReloadAccount(r)
      PROVE  TypeOK'
  <2>1. req[r] # Idle
      BY <1>8 DEF ReloadAccount, Idle
  <2>2. RequestsOK'
      BY <1>8, <2>1, ReplyTyped, StartSessionTyped DEF ReloadAccount, Answers, TypeOK
  <2> QED BY <1>8, <2>2 DEF ReloadAccount, RequestsOK, TypeOK
<1>9. ASSUME NEW r \in Requests, NEW t \in Tokens, InsertToken(r, t)
      PROVE  TypeOK'
  <2>1. RequestsOK'
      BY <1>9, ReplyTyped DEF InsertToken, Answers, Idle
  <2>2. [user |-> req[r].user, expiresAt |-> req[r].now + Ttl,
         revokedAt |-> NeverRevoked, reason |-> "NONE"] \in Row
      BY <1>a DEF Row, Reasons, Request
  <2>3. RowsOK'
      BY <1>9, <2>2 DEF InsertToken, RowsOK, TypeOK
  <2>4. parent' \in [Tokens -> Tokens \cup {NoToken}] /\ family' \in [Tokens -> Tokens \cup {NoToken}]
      BY <1>9, <1>a DEF InsertToken, TypeOK, Request
  <2> QED BY <1>9, <2>1, <2>3, <2>4 DEF InsertToken, RequestsOK, RowsOK, TypeOK
<1>10. ASSUME NEW r \in Requests, LogOut(r)
       PROVE  TypeOK'
  <2>1. RequestsOK'
      BY <1>10, ReplyTyped DEF LogOut, Answers, Idle
  <2>2. {req[r].token} \cap Tokens \in SUBSET Tokens
      OBVIOUS
  <2>3. Revoke({req[r].token} \cap Tokens, clock, "LOGGED_OUT")
      BY <1>10 DEF LogOut, Revoke
  <2>4. RowsOK'
      BY <1>b, <2>2, <2>3, RevokeTyped DEF Reasons
  <2> QED BY <1>10, <2>1, <2>4 DEF LogOut, RequestsOK, RowsOK, TypeOK
<1>11. ASSUME NEW r \in Requests, Answer(r)
       PROVE  TypeOK'
  <2>1. jar' \in [Browsers -> Tokens \cup {NoToken}]
      BY <1>11, <1>a DEF Answer, TypeOK, Request, Answers
  <2> QED BY <1>11, <2>1 DEF Answer, TypeOK, Request, Idle
<1>12. ASSUME NEW r \in Requests, Drop(r)
       PROVE  TypeOK'
    BY <1>12 DEF Drop, TypeOK, Request, Idle
<1>13. ASSUME NEW u \in Users, DeleteAccount(u)
       PROVE  TypeOK'
    BY <1>13 DEF DeleteAccount, TokensOf, TypeOK, Row, NoRow, NeverRevoked, Reasons
<1>14. CASE Tick
    BY <1>14 DEF Tick, TypeOK
<1>15. CASE UNCHANGED vars
    BY <1>15 DEF vars, TypeOK
<1> QED
    BY <1>1, <1>2, <1>3, <1>4, <1>5, <1>6, <1>7, <1>8, <1>9, <1>10, <1>11, <1>12,
       <1>13, <1>14, <1>15 DEF Next

\* The rows stay within the schema and its check constraint, and every request
\* within the handlers' control flow.
THEOREM TypeCorrect == Spec => []TypeOK
<1>1. Init => TypeOK
    BY TypeInitially
<1>2. TypeOK /\ [Next]_vars => TypeOK'
    BY TypePreserved
<1> QED BY <1>1, <1>2, PTL DEF Spec

-----------------------------------------------------------------------------

\* A step that starts no renewal, issues no token and ends rows without touching the rotated
\* ones: all the actions but Rotate and InsertToken.
NothingGained ==
    /\ UNCHANGED <<family, parent>>
    /\ stored' \subseteq stored
    /\ \A t \in Tokens : Live(t)' => Live(t)
    /\ \A t \in stored' : row[t].reason = "ROTATED" => row'[t].reason = "ROTATED"
    /\ \A q \in Requests : Renewing(q)' => Renewing(q) /\ req'[q].token = req[q].token
    /\ \A q \in Requests : req'[q].token # NoToken => family[req'[q].token] # NoToken
    /\ \A b \in Browsers : jar'[b] # NoToken => family[jar'[b]] # NoToken
    /\ LoginOK'

LEMMA NothingGainedKeeps ==
    ASSUME Inv, TypeOK', NothingGained
    PROVE  Inv'
<1>1. FamilyOK'
    BY DEF Inv, FamilyOK, NothingGained
<1>2. OneLivePerLogin'
    BY DEF Inv, OneLivePerLogin, NothingGained
<1>3. RenewalOK'
    BY DEF Inv, RenewalOK, NothingGained
<1>4. SuccessorOfRotated'
    BY DEF Inv, SuccessorOfRotated, NothingGained
<1> QED BY <1>1, <1>2, <1>3, <1>4 DEF Inv, NothingGained

LEMMA InvInitially == Init => Inv
<1> SUFFICES ASSUME Init PROVE Inv
    OBVIOUS
<1>1. TypeOK
    BY TypeInitially
<1>2. \A r \in Requests : ~Renewing(r)
    BY DEF Init, Idle, Renewing
<1>3. FamilyOK /\ OneLivePerLogin /\ RenewalOK /\ LoginOK
    BY <1>2 DEF Init, Idle, FamilyOK, OneLivePerLogin, RenewalOK, LoginOK, Live
<1>4. SuccessorOfRotated
    BY DEF Init, SuccessorOfRotated
<1> QED BY <1>1, <1>3, <1>4 DEF Inv

\* The request that wins the conditional UPDATE takes over from the live token.
LEMMA RotatePreserves ==
    ASSUME Inv, TypeOK', NEW r \in Requests, Rotate(r)
    PROVE  Inv'
<1> DEFINE tok == req[r].token
<1>0. /\ TypeOK /\ FamilyOK /\ OneLivePerLogin /\ RenewalOK /\ LoginOK /\ SuccessorOfRotated
      /\ UNCHANGED <<stored, jar, family, parent>>
    BY DEF Inv, Rotate
<1>1. row' = [t \in Tokens |-> IF t = tok /\ Live(t)
                               THEN [row[t] EXCEPT !.revokedAt = req[r].now, !.reason = "ROTATED"]
                               ELSE row[t]]
    BY DEF Rotate, Revoke
<1>2. CASE ~Live(tok)
  <2>1. row' = row
      BY <1>0, <1>1, <1>2 DEF TypeOK
  <2>2. req' = [req EXCEPT ![r] = [Idle EXCEPT !.pc = "refused", !.browser = req[r].browser,
                                               !.token = NoToken]]
      BY <1>2 DEF Rotate, Reply
  <2>3. LoginOK'
      BY <1>0, <2>2 DEF LoginOK, TypeOK, Idle
  <2>4. \A q \in Requests : Renewing(q)' => Renewing(q) /\ req'[q].token = req[q].token
      BY <1>0, <2>2 DEF Renewing, TypeOK, Idle
  <2>5. \A q \in Requests : req'[q].token # NoToken => family[req'[q].token] # NoToken
      BY <1>0, <2>2 DEF FamilyOK, TypeOK, Idle
  <2>6. \A t \in Tokens : Live(t)' => Live(t)
      BY <1>0, <2>1 DEF Live
  <2> QED BY <1>0, <2>1, <2>3, <2>4, <2>5, <2>6, NothingGainedKeeps DEF FamilyOK, NothingGained
<1>3. CASE Live(tok)
  <2>1. tok \in stored /\ tok \in Tokens /\ tok # NoToken /\ row[tok].reason = "NONE"
      BY <1>0, <1>3, SessionConstants DEF Live, TypeOK
  <2>2. req' = [req EXCEPT ![r] = [req[r] EXCEPT !.pc = "reloadAccount"]]
      BY <1>0, <1>3 DEF Rotate, Goto, TypeOK
  <2>3. req' \in [Requests -> Request] /\ req \in [Requests -> Request]
      BY <1>0 DEF TypeOK
  <2>4. /\ \A q \in Requests : req'[q].token = req[q].token
        /\ \A q \in Requests \ {r} : req'[q] = req[q]
        /\ req'[r].pc = "reloadAccount"
      BY <2>2, <2>3 DEF Request
  <2>5. row'[tok].reason = "ROTATED" /\ \A t \in Tokens \ {tok} : row'[t] = row[t]
    <3>1. row'[tok] = [row[tok] EXCEPT !.revokedAt = req[r].now, !.reason = "ROTATED"]
        BY <1>1, <1>3, <2>1
    <3>2. row[tok] \in Row
        BY <1>0, <2>1 DEF TypeOK
    <3>3. row'[tok].reason = "ROTATED"
        BY <3>1, <3>2 DEF Row
    <3>4. \A t \in Tokens \ {tok} : row'[t] = row[t]
        BY <1>1
    <3> QED BY <3>3, <3>4
  <2>6. \A q \in Requests \ {r} : Renewing(q)' <=> Renewing(q)
      BY <2>4 DEF Renewing
  <2>7. \A t \in Tokens : Live(t)' => Live(t) /\ t # tok
      BY <1>0, <2>5 DEF Live
  <2>8. ~Renewing(r)
      BY DEF Rotate, Renewing
  <2>9. FamilyOK'
      BY <1>0, <2>4 DEF FamilyOK
  <2>10. LoginOK'
      BY <1>0, <2>4 DEF LoginOK
  <2>11. OneLivePerLogin'
    <3>1. ASSUME NEW s \in Tokens, NEW t \in Tokens, Live(s)', Live(t)', family'[s] = family'[t]
          PROVE  s = t
        BY <1>0, <2>7, <3>1 DEF OneLivePerLogin
    <3>2. ASSUME NEW p \in Requests, NEW q \in Requests, Renewing(p)', Renewing(q)',
                 family'[req'[p].token] = family'[req'[q].token]
          PROVE  p = q
        BY <1>0, <1>3, <2>1, <2>4, <2>6, <3>2 DEF OneLivePerLogin
    <3>3. ASSUME NEW t \in Tokens, NEW q \in Requests, Live(t)', Renewing(q)'
          PROVE  family'[t] # family'[req'[q].token]
        BY <1>0, <1>3, <2>1, <2>4, <2>6, <2>7, <3>3 DEF OneLivePerLogin
    <3> QED BY <3>1, <3>2, <3>3 DEF OneLivePerLogin
  <2>12. RenewalOK'
    <3>1. \A t \in Tokens : parent[t] # tok
        BY <1>0, <2>1 DEF SuccessorOfRotated
    <3>2. ASSUME NEW q \in Requests \ {r}, Renewing(q)
          PROVE  /\ req[q].token \in stored => row'[req[q].token].reason = "ROTATED"
                 /\ \A t \in Tokens : parent[t] # req[q].token
        BY <1>0, <2>5, <3>2 DEF RenewalOK, TypeOK
    <3> QED BY <1>0, <2>4, <2>5, <2>6, <3>1, <3>2 DEF RenewalOK
  <2>13. SuccessorOfRotated'
      BY <1>0, <2>5 DEF SuccessorOfRotated, TypeOK
  <2> QED BY <2>9, <2>10, <2>11, <2>12, <2>13 DEF Inv
<1> QED BY <1>2, <1>3

\* A stored token takes over from the renewal, or starts a family of its own.
LEMMA InsertPreserves ==
    ASSUME Inv, TypeOK', NEW r \in Requests, NEW n \in Tokens, InsertToken(r, n)
    PROVE  Inv'
<1> DEFINE tok == req[r].token
           root == IF tok = NoToken THEN n ELSE family[tok]
<1>0. /\ TypeOK /\ FamilyOK /\ OneLivePerLogin /\ RenewalOK /\ LoginOK /\ SuccessorOfRotated
      /\ UNCHANGED jar
    BY DEF Inv, InsertToken
<1>1. family[n] = NoToken /\ n # NoToken /\ n \notin stored
    BY <1>0, SessionConstants DEF InsertToken, Issued, FamilyOK
<1>2. /\ family'[n] = root /\ parent'[n] = tok
      /\ \A t \in Tokens \ {n} : family'[t] = family[t] /\ parent'[t] = parent[t] /\ row'[t] = row[t]
      /\ row'[n].reason = "NONE" /\ stored' = stored \cup {n}
    BY <1>0 DEF InsertToken, TypeOK
<1>3. /\ req'[r].pc = "session" /\ req'[r].token = n
      /\ \A q \in Requests \ {r} : req'[q] = req[q]
    BY <1>0 DEF InsertToken, Reply, TypeOK, Idle
<1>4. ~Renewing(r)' /\ \A q \in Requests \ {r} : Renewing(q)' <=> Renewing(q)
    BY <1>3 DEF Renewing
<1>5. tok # NoToken => Renewing(r) /\ tok \in Tokens /\ tok # n /\ family[tok] \in Tokens
    BY <1>0, <1>1 DEF InsertToken, Renewing, FamilyOK, TypeOK, Request
<1>6. \A q \in Requests : req[q].token # NoToken => req[q].token \in Tokens /\ req[q].token # n
    BY <1>0, <1>1 DEF FamilyOK, TypeOK, Request
<1>7. \A t \in Tokens : Live(t)' <=> Live(t) \/ t = n
    BY <1>0, <1>1, <1>2 DEF Live, TypeOK
<1>8. \A t \in Tokens : family[t] # n /\ parent[t] # n
  <2>1. ASSUME NEW t \in Tokens, family[t] = n
        PROVE  FALSE
      BY <1>0, <1>1, <2>1 DEF FamilyOK
  <2>2. ASSUME NEW t \in Tokens, parent[t] = n
        PROVE  FALSE
      BY <1>0, <1>1, <2>2 DEF FamilyOK
  <2> QED BY <2>1, <2>2
<1>9. FamilyOK'
  <2>1. \A t \in stored' : family'[t] # NoToken
      BY <1>0, <1>1, <1>2, <1>5 DEF FamilyOK, TypeOK
  <2>2. \A t \in Tokens : family'[t] # NoToken => family'[family'[t]] = family'[t]
      BY <1>0, <1>1, <1>2, <1>5, <1>8, SessionConstants DEF FamilyOK, TypeOK
  <2>3. \A q \in Requests : req'[q].token # NoToken => family'[req'[q].token] # NoToken
      BY <1>0, <1>1, <1>2, <1>3, <1>5, <1>6 DEF FamilyOK
  <2>4. \A b \in Browsers : jar'[b] # NoToken => family'[jar'[b]] # NoToken
      BY <1>0, <1>1, <1>2 DEF FamilyOK, TypeOK
  <2>5. \A t \in Tokens : parent'[t] # NoToken =>
            family'[t] # NoToken /\ family'[parent'[t]] = family'[t] /\ family'[parent'[t]] # NoToken
      BY <1>0, <1>1, <1>2, <1>5, <1>8, SessionConstants DEF FamilyOK, TypeOK
  <2> QED BY <2>1, <2>2, <2>3, <2>4, <2>5 DEF FamilyOK
\* Nobody else is, or may become, the live end of the new token's family.
<1>10. /\ \A t \in Tokens : Live(t) => family[t] # root
       /\ \A q \in Requests \ {r} : Renewing(q) => family[req[q].token] # root
  <2>1. CASE tok = NoToken
      BY <1>6, <1>8, <2>1 DEF Renewing
  <2>2. CASE tok # NoToken
      BY <1>0, <1>5, <2>2 DEF OneLivePerLogin
  <2> QED BY <2>1, <2>2
<1>11. OneLivePerLogin'
  <2>1. ASSUME NEW s \in Tokens, NEW t \in Tokens, Live(s)', Live(t)', family'[s] = family'[t]
        PROVE  s = t
      BY <1>0, <1>2, <1>7, <1>10, <2>1 DEF OneLivePerLogin
  <2>2. ASSUME NEW p \in Requests, NEW q \in Requests, Renewing(p)', Renewing(q)',
               family'[req'[p].token] = family'[req'[q].token]
        PROVE  p = q
    <3>1. /\ p # r /\ q # r /\ Renewing(p) /\ Renewing(q) /\ req'[p] = req[p] /\ req'[q] = req[q]
        BY <1>3, <1>4, <2>2
    <3>2. family[req[p].token] = family[req[q].token]
        BY <1>2, <1>6, <2>2, <3>1 DEF Renewing
    <3> QED BY <1>0, <3>1, <3>2 DEF OneLivePerLogin
  <2>3. ASSUME NEW t \in Tokens, NEW q \in Requests, Live(t)', Renewing(q)'
        PROVE  family'[t] # family'[req'[q].token]
    <3>1. q # r /\ Renewing(q) /\ req'[q] = req[q]
        BY <1>3, <1>4, <2>3
    <3>2. family'[req'[q].token] = family[req[q].token]
        BY <1>2, <1>6, <3>1 DEF Renewing
    <3>3. CASE t = n
        BY <1>2, <1>10, <3>1, <3>2, <3>3
    <3>4. CASE t # n
        BY <1>0, <1>2, <1>7, <2>3, <3>1, <3>2, <3>4 DEF OneLivePerLogin
    <3> QED BY <3>3, <3>4
  <2> QED BY <2>1, <2>2, <2>3 DEF OneLivePerLogin
<1>12. RenewalOK'
  <2>1. ASSUME NEW q \in Requests, Renewing(q)'
        PROVE  /\ req'[q].token \in stored' => row'[req'[q].token].reason = "ROTATED"
               /\ \A t \in Tokens : parent'[t] # req'[q].token
    <3>1. q # r /\ Renewing(q) /\ req'[q] = req[q] /\ req[q].token # NoToken
        BY <1>3, <1>4, <2>1 DEF Renewing
    <3>2. tok # req[q].token
        BY <1>0, <1>5, <3>1 DEF OneLivePerLogin
    <3> QED BY <1>0, <1>2, <1>6, <3>1, <3>2 DEF RenewalOK
  <2> QED BY <2>1 DEF RenewalOK
<1>13. LoginOK'
    BY <1>0, <1>3 DEF LoginOK
<1>14. SuccessorOfRotated'
  <2>1. ASSUME NEW t \in Tokens, parent'[t] \in stored'
        PROVE  row'[parent'[t]].reason = "ROTATED"
    <3>1. CASE t = n
        BY <1>0, <1>2, <1>5, <2>1, <3>1, SessionConstants DEF RenewalOK, TypeOK
    <3>2. CASE t # n
        BY <1>0, <1>2, <1>8, <2>1, <3>2 DEF SuccessorOfRotated, TypeOK
    <3> QED BY <3>1, <3>2
  <2>2. ASSUME NEW s \in Tokens, NEW t \in Tokens, parent'[s] = parent'[t], parent'[s] # NoToken
        PROVE  s = t
    <3>1. \A x \in Tokens \ {n} : tok # NoToken => parent[x] # tok
        BY <1>0, <1>5 DEF RenewalOK
    <3> QED BY <1>0, <1>2, <2>2, <3>1 DEF SuccessorOfRotated
  <2> QED BY <2>1, <2>2 DEF SuccessorOfRotated
<1> QED BY <1>9, <1>11, <1>12, <1>13, <1>14 DEF Inv

\* What a conditional UPDATE leaves of the rows.
LEMMA RevokeShrinks ==
    ASSUME TypeOK, NEW S, NEW at, NEW why \in Reasons \ {"NONE", "ROTATED"},
           Revoke(S, at, why), UNCHANGED stored
    PROVE  /\ \A t \in Tokens : Live(t)' => Live(t)
           /\ \A t \in stored' : row[t].reason = "ROTATED" => row'[t].reason = "ROTATED"
<1>1. ASSUME NEW t \in Tokens, Live(t)'
      PROVE  Live(t)
    BY <1>1 DEF Live, Revoke
<1>2. ASSUME NEW t \in stored, row[t].reason = "ROTATED"
      PROVE  row'[t] = row[t]
    BY <1>2 DEF Revoke, Live, TypeOK
<1> QED BY <1>1, <1>2

\* What an answer, a refusal or a dropped request leaves of the requests.
LEMMA Settled ==
    ASSUME Inv, NEW r \in Requests, NEW new, req' = [req EXCEPT ![r] = new],
           new.pc \notin {"findAccount", "reloadAccount", "insert"}, new.token = NoToken
    PROVE  /\ LoginOK'
           /\ \A q \in Requests : Renewing(q)' => Renewing(q) /\ req'[q].token = req[q].token
           /\ \A q \in Requests : req'[q].token # NoToken => family[req'[q].token] # NoToken
<1>1. req'[r] = new /\ \A q \in Requests \ {r} : req'[q] = req[q]
    BY DEF Inv, TypeOK
<1> QED BY <1>1 DEF Inv, LoginOK, FamilyOK, Renewing

LEMMA ReplySettles ==
    ASSUME Inv, NEW r \in Requests, NEW a \in Answers, Reply(r, a, NoToken)
    PROVE  /\ LoginOK'
           /\ \A q \in Requests : Renewing(q)' => Renewing(q) /\ req'[q].token = req[q].token
           /\ \A q \in Requests : req'[q].token # NoToken => family[req'[q].token] # NoToken
<1> DEFINE new == [Idle EXCEPT !.pc = a, !.browser = req[r].browser, !.token = NoToken]
<1>1. new.pc = a /\ new.token = NoToken
    BY DEF Idle
<1>2. a \notin {"findAccount", "reloadAccount", "insert"}
    BY DEF Answers
<1>3. req' = [req EXCEPT ![r] = new]
    BY DEF Reply
<1> HIDE DEF new
<1> QED BY <1>1, <1>2, <1>3, Settled

\* A request that goes on with the token it holds, without starting a renewal.
LEMMA GoesOn ==
    ASSUME Inv, NEW r \in Requests, NEW new, req' = [req EXCEPT ![r] = new],
           new.pc # "findAccount", new.token = req[r].token,
           new.pc \in {"reloadAccount", "insert"} => Renewing(r) \/ new.token = NoToken
    PROVE  /\ LoginOK'
           /\ \A q \in Requests : Renewing(q)' => Renewing(q) /\ req'[q].token = req[q].token
           /\ \A q \in Requests : req'[q].token # NoToken => family[req'[q].token] # NoToken
<1>1. req'[r] = new /\ \A q \in Requests \ {r} : req'[q] = req[q]
    BY DEF Inv, TypeOK
<1> QED BY <1>1 DEF Inv, LoginOK, FamilyOK, Renewing

\* A request that arrives holds the browser's cookie or nothing.
LEMMA Arrives ==
    ASSUME Inv, NEW r \in Requests, NEW b \in Browsers, NEW pc, NEW t, NEW u, NEW now,
           Arrive(r, b, pc, t, u, now), pc \notin {"reloadAccount", "insert"},
           pc = "findAccount" => t = NoToken, t # NoToken => t = jar[b]
    PROVE  NothingGained
<1> DEFINE new == [pc |-> pc, browser |-> b, token |-> t, user |-> u, now |-> now]
<1>1. req'[r] = new /\ \A q \in Requests \ {r} : req'[q] = req[q]
    BY DEF Inv, TypeOK, Arrive
<1>2. t # NoToken => family[t] # NoToken
    BY DEF Inv, FamilyOK
<1>3. /\ LoginOK'
      /\ \A q \in Requests : Renewing(q)' => Renewing(q) /\ req'[q].token = req[q].token
      /\ \A q \in Requests : req'[q].token # NoToken => family[req'[q].token] # NoToken
    BY <1>1, <1>2 DEF Inv, LoginOK, FamilyOK, Renewing
<1>4. UNCHANGED <<stored, row, jar, family, parent>>
    BY DEF Arrive
<1> QED BY <1>3, <1>4 DEF Inv, FamilyOK, Live, NothingGained

LEMMA OtherSteps ==
    ASSUME Inv, [Next]_vars
    PROVE  \/ \E r \in Requests : Rotate(r)
           \/ \E r \in Requests, t \in Tokens : InsertToken(r, t)
           \/ NothingGained
<1>a. TypeOK
    BY DEF Inv
<1>b. /\ \A b \in Browsers : jar[b] # NoToken => family[jar[b]] # NoToken
      /\ \A r \in Requests : req[r].token # NoToken => family[req[r].token] # NoToken
    BY DEF Inv, FamilyOK
<1>c. UNCHANGED <<stored, row>> =>
          /\ stored' \subseteq stored
          /\ \A t \in Tokens : Live(t)' => Live(t)
          /\ \A t \in stored' : row[t].reason = "ROTATED" => row'[t].reason = "ROTATED"
    BY DEF Live
<1>1. ASSUME NEW r \in Requests, NEW b \in Browsers, NEW u \in Users, BeginLogin(r, b, u)
      PROVE  NothingGained
    BY <1>1, <1>a, Arrives DEF BeginLogin
<1>2. ASSUME NEW r \in Requests, NEW b \in Browsers, BeginRefresh(r, b)
      PROVE  NothingGained
    BY <1>2, <1>a, Arrives DEF BeginRefresh
<1>3. ASSUME NEW r \in Requests, NEW b \in Browsers, BeginLogout(r, b)
      PROVE  NothingGained
    BY <1>3, <1>a, Arrives DEF BeginLogout
<1>4. ASSUME NEW r \in Requests, FindAccount(r)
      PROVE  NothingGained
  <2>1. CASE Reply(r, "refused", NoToken)
      BY <1>4, <1>a, <1>b, <1>c, <2>1, ReplySettles DEF FindAccount, Answers, NothingGained
  <2>2. CASE StartSession(r, req[r].user)
    <3> DEFINE new == [req[r] EXCEPT !.pc = "insert", !.user = req[r].user, !.now = clock]
    <3>1. req' = [req EXCEPT ![r] = new] /\ new.pc = "insert" /\ new.token = req[r].token
        BY <1>a, <2>2 DEF StartSession, TypeOK, Request
    <3>2. req[r].token = NoToken
        BY <1>4 DEF FindAccount, Inv, LoginOK
    <3> HIDE DEF new
    <3> QED BY <1>4, <1>a, <1>b, <1>c, <3>1, <3>2, GoesOn DEF FindAccount, NothingGained
  <2> QED BY <1>4, <2>1, <2>2 DEF FindAccount
<1>5. ASSUME NEW r \in Requests, FindToken(r)
      PROVE  NothingGained
  <2> DEFINE next == AfterFind(req[r].token, req[r].now)
  <2>1. CASE next = "refused"
    <3>1. Reply(r, "refused", NoToken)
        BY <1>5, <2>1 DEF FindToken
    <3> QED BY <1>5, <1>a, <1>b, <1>c, <3>1, ReplySettles DEF FindToken, Answers, NothingGained
  <2>2. CASE next # "refused"
    <3> DEFINE new == [req[r] EXCEPT !.pc = next, !.user = row[req[r].token].user]
    <3>0. req[r] \in Request
        BY <1>a DEF TypeOK
    <3>1. req' = [req EXCEPT ![r] = new] /\ new.pc = next /\ new.token = req[r].token
      <4>1. req' = [req EXCEPT ![r] = new]
          BY <1>5, <1>a, <2>2 DEF FindToken, TypeOK
      <4>2. new.pc = next /\ new.token = req[r].token
          BY <3>0 DEF Request
      <4> QED BY <4>1, <4>2
    <3>2. next \in {"revokeAll", "rotate"}
      <4>1. req[r].token \in stored
          BY <2>2 DEF AfterFind, Live
      <4>2. row[req[r].token].reason \in Reasons
          BY <1>a, <4>1 DEF TypeOK, Row
      <4> QED BY <2>2, <4>1, <4>2, Zenon DEF AfterFind, Live, Reasons
    <3>3. next \notin {"findAccount", "reloadAccount", "insert"}
        BY <3>2
    <3> HIDE DEF new, next
    <3>4. /\ LoginOK'
          /\ \A q \in Requests : Renewing(q)' => Renewing(q) /\ req'[q].token = req[q].token
          /\ \A q \in Requests : req'[q].token # NoToken => family[req'[q].token] # NoToken
        BY <3>1, <3>3, GoesOn
    <3> QED BY <1>5, <1>a, <1>b, <1>c, <3>4 DEF FindToken, NothingGained
  <2> QED BY <2>1, <2>2
<1>6. ASSUME NEW r \in Requests, RevokeAll(r)
      PROVE  NothingGained
    BY <1>6, <1>a, <1>b, RevokeShrinks, ReplySettles DEF RevokeAll, Answers, Reasons, NothingGained
<1>8. ASSUME NEW r \in Requests, ReloadAccount(r)
      PROVE  NothingGained
  <2>1. CASE Reply(r, "refused", NoToken)
      BY <1>8, <1>a, <1>b, <1>c, <2>1, ReplySettles DEF ReloadAccount, Answers, NothingGained
  <2>2. CASE StartSession(r, req[r].user)
    <3> DEFINE new == [req[r] EXCEPT !.pc = "insert", !.user = req[r].user, !.now = clock]
    <3>1. req' = [req EXCEPT ![r] = new] /\ new.pc = "insert" /\ new.token = req[r].token
        BY <1>a, <2>2 DEF StartSession, TypeOK, Request
    <3>2. Renewing(r) \/ req[r].token = NoToken
        BY <1>8 DEF ReloadAccount, Renewing
    <3> HIDE DEF new
    <3> QED BY <1>8, <1>a, <1>b, <1>c, <3>1, <3>2, GoesOn DEF ReloadAccount, NothingGained
  <2> QED BY <1>8, <2>1, <2>2 DEF ReloadAccount
<1>10. ASSUME NEW r \in Requests, LogOut(r)
       PROVE  NothingGained
    BY <1>10, <1>a, <1>b, RevokeShrinks, ReplySettles DEF LogOut, Answers, Reasons, NothingGained
<1>11. ASSUME NEW r \in Requests, Answer(r)
       PROVE  NothingGained
  <2>1. Idle.pc \notin {"findAccount", "reloadAccount", "insert"} /\ Idle.token = NoToken
      BY DEF Idle
  <2>2. \A b \in Browsers : jar'[b] # NoToken => family[jar'[b]] # NoToken
      BY <1>11, <1>a, <1>b DEF Answer, TypeOK, Answers
  <2> QED BY <1>11, <1>a, <1>c, <2>1, <2>2, Settled DEF Answer, NothingGained
<1>12. ASSUME NEW r \in Requests, Drop(r)
       PROVE  NothingGained
  <2>1. Idle.pc \notin {"findAccount", "reloadAccount", "insert"} /\ Idle.token = NoToken
      BY DEF Idle
  <2> QED BY <1>12, <1>a, <1>b, <1>c, <2>1, Settled DEF Drop, NothingGained
<1>13. ASSUME NEW u \in Users, DeleteAccount(u)
       PROVE  NothingGained
  <2>1. stored' \subseteq stored /\ \A t \in stored' : row'[t] = row[t]
      BY <1>13, <1>a DEF DeleteAccount, TokensOf, TypeOK
  <2>2. LoginOK'
      BY <1>13 DEF DeleteAccount, Inv, LoginOK
  <2> QED BY <1>13, <1>a, <1>b, <2>1, <2>2 DEF DeleteAccount, Live, Renewing, NothingGained
<1>14. CASE Tick
    BY <1>14, <1>a, <1>b, <1>c DEF Tick, Renewing, Inv, LoginOK, NothingGained
<1>15. CASE UNCHANGED vars
    BY <1>15, <1>a, <1>b, <1>c DEF vars, Renewing, Inv, LoginOK, NothingGained
<1> QED
    BY <1>1, <1>2, <1>3, <1>4, <1>5, <1>6, <1>8, <1>10, <1>11, <1>12,
       <1>13, <1>14, <1>15 DEF Next

LEMMA InvPreserved == Inv /\ [Next]_vars => Inv'
<1> SUFFICES ASSUME Inv, [Next]_vars PROVE Inv'
    OBVIOUS
<1>1. TypeOK'
    BY TypePreserved DEF Inv
<1> QED BY <1>1, OtherSteps, RotatePreserves, InsertPreserves, NothingGainedKeeps

\* However requests interleave, fail or are repeated, one login is one session:
\* the conditional UPDATE of auth.ts cannot mint two from one token.
THEOREM OneSessionPerLogin == Spec => []OneLivePerLogin
<1>1. Inv => OneLivePerLogin
    BY DEF Inv
<1> QED BY <1>1, InvInitially, InvPreserved, PTL DEF Spec

\* Only a rotated token has a successor, and it has one.
THEOREM SuccessorsAreOfRotated == Spec => []SuccessorOfRotated
<1>1. Inv => SuccessorOfRotated
    BY DEF Inv
<1> QED BY <1>1, InvInitially, InvPreserved, PTL DEF Spec

-----------------------------------------------------------------------------

LEMMA RevokeKeepsRevoked ==
    ASSUME TypeOK, NEW S, NEW at, NEW why, Revoke(S, at, why),
           NEW t \in stored, row[t].reason # "NONE"
    PROVE  row'[t] = row[t]
BY DEF Revoke, Live, TypeOK

LEMMA RevocationStep ==
    ASSUME Inv, [Next]_vars, NEW t \in stored, row[t].reason # "NONE"
    PROVE  row'[t] = row[t] \/ t \notin stored'
<1>a. TypeOK /\ t \in Tokens
    BY DEF Inv, TypeOK
<1>1. ASSUME NEW r \in Requests, RevokeAll(r) \/ Rotate(r) \/ LogOut(r)
      PROVE  row'[t] = row[t]
    BY <1>1, <1>a, RevokeKeepsRevoked DEF RevokeAll, Rotate, LogOut
<1>2. ASSUME NEW r \in Requests, NEW n \in Tokens, InsertToken(r, n)
      PROVE  row'[t] = row[t]
    BY <1>2, <1>a DEF InsertToken, Issued, Inv, FamilyOK, TypeOK
<1>3. ASSUME NEW u \in Users, DeleteAccount(u)
      PROVE  row'[t] = row[t] \/ t \notin stored'
    BY <1>3, <1>a DEF DeleteAccount
<1>4. ASSUME UNCHANGED row
      PROVE  row'[t] = row[t]
    BY <1>4
<1> QED BY <1>1, <1>2, <1>3, <1>4 DEF Next, vars, BeginLogin, BeginRefresh, BeginLogout, Arrive,
        FindAccount, FindToken, ReloadAccount, Answer, Drop, Tick

\* Why and when a session ended is never rewritten, and it is never revived.
THEOREM RevocationsAreFinal == Spec => RevocationIsFinal
<1>1. Inv /\ [Next]_vars =>
          [\A t \in stored : row[t].reason # "NONE" => row'[t] = row[t] \/ t \notin stored']_vars
    BY RevocationStep
<1> QED BY <1>1, InvInitially, InvPreserved, PTL DEF Spec, RevocationIsFinal

-----------------------------------------------------------------------------
(* Sessions implements SessionLifecycle. *)

\* The session login l opened is still to be used: a token of it is live, or being renewed.
Alive(l) == \/ \E t \in Tokens : Live(t) /\ family[t] = l
            \/ \E r \in Requests : Renewing(r) /\ family[req[r].token] = l

\* What sessionOf says, and that it is a function on tokens also after a step.
LEMMA SessionDef ==
    /\ \A l \in Tokens : sessionOf[l] = IF family[l] # l THEN "none"
                                        ELSE IF Alive(l) THEN "open" ELSE "ended"
    /\ \A l \in Tokens : sessionOf'[l] = IF family'[l] # l THEN "none"
                                         ELSE IF Alive(l)' THEN "open" ELSE "ended"
    /\ sessionOf \in [Tokens -> Lifecycle!States]
    /\ sessionOf' \in [Tokens -> Lifecycle!States]
BY DEF sessionOf, Alive, Lifecycle!States

\* Where no token is issued and no ended session comes alive, sessions can only end.
LEMMA SessionsEnd ==
    ASSUME UNCHANGED family, \A l \in Tokens : Alive(l)' => Alive(l)
    PROVE  Lifecycle!Next
<1>1. ASSUME NEW l \in Tokens
      PROVE  sessionOf'[l] = sessionOf[l] \/ (sessionOf[l] = "open" /\ sessionOf'[l] = "ended")
    BY <1>1, SessionDef
<1> QED BY <1>1, SessionDef DEF Lifecycle!Next, Lifecycle!End

LEMMA RotationIsQuiet ==
    ASSUME Inv, NEW r \in Requests, Rotate(r)
    PROVE  Lifecycle!Next
<1> DEFINE tok == req[r].token
<1>1. TypeOK /\ UNCHANGED <<stored, family>>
    BY DEF Inv, Rotate
<1>2. \A t \in Tokens : Live(t)' => Live(t)
    BY <1>1 DEF Rotate, Revoke, Live
<1>3. /\ \A q \in Requests \ {r} : req'[q] = req[q]
      /\ Renewing(r)' => Live(tok) /\ req'[r].token = tok
  <2>1. CASE Live(tok)
      BY <1>1, <2>1 DEF Rotate, Goto, TypeOK, Request
  <2>2. CASE ~Live(tok)
      BY <1>1, <2>2 DEF Rotate, Reply, TypeOK, Idle, Renewing
  <2> QED BY <2>1, <2>2
<1>4. ASSUME NEW l \in Tokens, Alive(l)'
      PROVE  Alive(l)
  <2>1. CASE \E t \in Tokens : Live(t)' /\ family'[t] = l
      BY <1>1, <1>2, <2>1 DEF Alive
  <2>2. ASSUME NEW q \in Requests, Renewing(q)', family'[req'[q].token] = l
        PROVE  Alive(l)
    <3>1. CASE q = r
        BY <1>1, <1>3, <2>2, <3>1 DEF Alive, Live, TypeOK
    <3>2. CASE q # r
        BY <1>1, <1>3, <2>2, <3>2 DEF Alive, Renewing
    <3> QED BY <3>1, <3>2
  <2> QED BY <1>4, <2>1, <2>2 DEF Alive
<1> QED BY <1>1, <1>4, SessionsEnd

\* A login's first token opens the session of that name; a later one keeps its session alive.
LEMMA InsertionOpens ==
    ASSUME Inv, NEW r \in Requests, NEW n \in Tokens, InsertToken(r, n)
    PROVE  Lifecycle!Next
<1> DEFINE tok == req[r].token
<1>1. TypeOK /\ FamilyOK /\ family[n] = NoToken /\ n # NoToken
    BY SessionConstants DEF Inv, InsertToken, Issued
<1>a. tok # NoToken => Renewing(r) /\ tok \in Tokens /\ family[tok] \in Tokens
    BY <1>1 DEF InsertToken, Renewing, FamilyOK, TypeOK, Request
<1>b. PICK root \in Tokens : root = IF tok = NoToken THEN n ELSE family[tok]
    BY <1>a
<1>2. /\ family' = [family EXCEPT ![n] = root]
      /\ stored' = stored \cup {n} /\ row'[n].reason = "NONE"
      /\ \A t \in Tokens \ {n} : row'[t] = row[t]
    BY <1>1, <1>b DEF InsertToken, TypeOK
<1>3. /\ \A q \in Requests \ {r} : req'[q] = req[q]
      /\ ~Renewing(r)'
    BY <1>1 DEF InsertToken, Reply, TypeOK, Idle, Renewing
<1>4. /\ \A t \in Tokens \ {n} : family'[t] = family[t] /\ (Live(t)' <=> Live(t))
      /\ ~Live(n) /\ Live(n)' /\ family'[n] = root
    BY <1>1, <1>2 DEF Live, FamilyOK, TypeOK
<1>5. \A q \in Requests \ {r} : Renewing(q)' <=> Renewing(q)
    BY <1>3 DEF Renewing
<1>6. \A q \in Requests : Renewing(q) => req[q].token # n
    BY <1>1 DEF FamilyOK, Renewing
<1>7. \A l \in Tokens \ {root} : Alive(l)' <=> Alive(l)
  <2> SUFFICES ASSUME NEW l \in Tokens \ {root}
               PROVE  Alive(l)' <=> Alive(l)
      OBVIOUS
  <2>1. (\E t \in Tokens : Live(t)' /\ family'[t] = l) <=> (\E t \in Tokens : Live(t) /\ family[t] = l)
      BY <1>4
  <2>2. ASSUME NEW q \in Requests
        PROVE  (Renewing(q)' /\ family'[req'[q].token] = l) <=> (Renewing(q) /\ family[req[q].token] = l)
    <3>1. CASE q = r
        BY <1>3, <1>b, <3>1 DEF Renewing
    <3>2. CASE q # r
      <4>1. Renewing(q) => family'[req[q].token] = family[req[q].token]
          BY <1>1, <1>2, <1>6 DEF TypeOK
      <4> QED BY <1>3, <1>5, <3>2, <4>1
    <3> QED BY <3>1, <3>2
  <2> QED BY <2>1, <2>2 DEF Alive
<1>8. Alive(root)'
    BY <1>4 DEF Alive
<1>10. CASE tok = NoToken
  <2>1. sessionOf[n] = "none" /\ sessionOf'[n] = "open"
      BY <1>b, <1>1, <1>4, <1>8, <1>10, SessionDef
  <2>2. \A l \in Tokens \ {n} : sessionOf'[l] = sessionOf[l]
      BY <1>b, <1>4, <1>7, <1>10, SessionDef
  <2>3. sessionOf' = [sessionOf EXCEPT ![n] = "open"]
      BY <2>1, <2>2, SessionDef
  <2> QED BY <2>1, <2>3, SessionDef DEF Lifecycle!Next, Lifecycle!Open
<1>11. CASE tok # NoToken
  <2>1. root # n /\ Alive(root)
    <3>1. root = family[tok] /\ root # n
        BY <1>b, <1>1, <1>a, <1>11, SessionConstants DEF FamilyOK, TypeOK
    <3> QED BY <1>a, <1>11, <3>1 DEF Alive
  <2>2. \A l \in Tokens : sessionOf'[l] = sessionOf[l]
      BY <1>1, <1>4, <1>7, <1>8, <2>1, SessionDef
  <2> QED BY <2>2, SessionDef DEF Lifecycle!Next, Lifecycle!End
<1> QED BY <1>10, <1>11

\* Whatever the requests do, each step is one of a session's life or none at all.
LEMMA StepOfLifecycle == Inv /\ [Next]_vars => Lifecycle!Next
<1> SUFFICES ASSUME Inv, [Next]_vars PROVE Lifecycle!Next
    OBVIOUS
<1>1. CASE NothingGained
  <2>1. \A l \in Tokens : Alive(l)' => Alive(l)
      BY <1>1 DEF NothingGained, Alive
  <2> QED BY <1>1, <2>1, SessionsEnd DEF NothingGained
<1> QED BY <1>1, OtherSteps, RotationIsQuiet, InsertionOpens

\* The refresh tokens implement sessions: a login opens one, however often it is renewed it stays
\* that one, and once logged out, swept up or deleted with its account it never comes back.
THEOREM TokensImplementSessions == Spec => ImplementsLifecycle
<1>1. Init => Lifecycle!Init
    BY SessionConstants DEF Init, sessionOf, Lifecycle!Init
<1>2. Inv /\ [Next]_vars => [Lifecycle!Next]_sessionOf
    BY StepOfLifecycle
<1> QED BY <1>1, <1>2, InvInitially, InvPreserved, PTL
       DEF Spec, ImplementsLifecycle, Lifecycle!Spec

-----------------------------------------------------------------------------
(* Rotation, reuse and ownership *)

\* A request about to rotate a token was begun before that token expires.
RotatingOK ==
    \A r \in Requests :
        req[r].pc = "rotate" /\ req[r].token \in stored =>
            req[r].now < row[req[r].token].expiresAt

\* The foreign key of refresh_tokens.
OwnersOK == \A t \in stored : row[t].user \in accounts

\* A request about to end an account's sessions has seen a rotated token of it, which is
\* there as long as the account.
SweepOK ==
    \A r \in Requests : req[r].pc = "revokeAll" =>
        \/ req[r].user \notin accounts
        \/ \E p \in stored : row[p].user = req[r].user /\ row[p].reason = "ROTATED"

\* A refresh that has found its token good.
Carrying(r) == req[r].pc \in {"rotate", "reloadAccount", "insert"} /\ req[r].token # NoToken

\* It goes on with the account of its session, also when no row of the session is left.
CarriedOK ==
    /\ \A r \in Requests, t \in stored :
          Carrying(r) /\ family[t] = family[req[r].token] => row[t].user = req[r].user
    /\ \A q, r \in Requests :
          Carrying(q) /\ Carrying(r) /\ family[req[q].token] = family[req[r].token] =>
              req[q].user = req[r].user

-----------------------------------------------------------------------------
(* What one statement does to the requests and the rows *)

LEMMA Replied ==
    ASSUME TypeOK, NEW r \in Requests, NEW a, NEW t, Reply(r, a, t)
    PROVE  /\ req'[r].pc = a /\ req'[r].token = t /\ req'[r].browser = req[r].browser
           /\ \A q \in Requests \ {r} : req'[q] = req[q]
BY DEF TypeOK, Reply, Idle

LEMMA Started ==
    ASSUME TypeOK, NEW r \in Requests, NEW u, StartSession(r, u)
    PROVE  /\ req'[r].pc = "insert" /\ req'[r].user = u
           /\ req'[r].token = req[r].token /\ req'[r].browser = req[r].browser
           /\ \A q \in Requests \ {r} : req'[q] = req[q]
<1>1. req[r] \in Request
    BY DEF TypeOK
<1>2. req' = [req EXCEPT ![r] = [req[r] EXCEPT !.pc = "insert", !.user = u, !.now = clock]]
    BY DEF StartSession, TypeOK
<1> QED BY <1>1, <1>2 DEF TypeOK, Request

LEMMA Arrived ==
    ASSUME TypeOK, NEW r \in Requests, NEW b, NEW pc, NEW t, NEW u, NEW now,
           Arrive(r, b, pc, t, u, now)
    PROVE  /\ req'[r].pc = pc /\ req'[r].token = t /\ req'[r].browser = b
           /\ \A q \in Requests \ {r} : req'[q] = req[q]
BY DEF TypeOK, Arrive

\* A refresh is refused, or finds a token to sweep an account for or to rotate.
LEMMA Found ==
    ASSUME TypeOK, NEW r \in Requests, FindToken(r), ~Reply(r, "refused", NoToken)
    PROVE  /\ req[r].token \in stored /\ req[r].token \in Tokens
           /\ \/ req'[r].pc = "revokeAll" /\ row[req[r].token].reason = "ROTATED"
              \/ /\ req'[r].pc = "rotate" /\ row[req[r].token].reason = "NONE"
                 /\ req[r].now < row[req[r].token].expiresAt
           /\ req'[r].user = row[req[r].token].user
           /\ req'[r].token = req[r].token /\ req'[r].browser = req[r].browser
           /\ req'[r].now = req[r].now
           /\ \A q \in Requests \ {r} : req'[q] = req[q]
<1> DEFINE t == req[r].token
           next == AfterFind(t, req[r].now)
<1>1. next # "refused" /\ req' = [req EXCEPT ![r].pc = next, ![r].user = row[t].user]
    BY DEF FindToken
<1>2. t \in stored /\ t \in Tokens
    BY <1>1 DEF AfterFind, Live, TypeOK
<1>3. row[t] \in Row /\ req[r] \in Request
    BY <1>2 DEF TypeOK
<1>4. row[t].reason \in Reasons /\ row[t].expiresAt \in Nat /\ req[r].now \in Nat
    BY <1>3 DEF Row, Request
<1>5. \/ next = "revokeAll" /\ row[t].reason = "ROTATED"
      \/ next = "rotate" /\ row[t].reason = "NONE" /\ ~(row[t].expiresAt <= req[r].now)
    BY <1>1, <1>2, <1>4, Zenon DEF AfterFind, Live, Reasons
<1>6. /\ req'[r].pc = next /\ req'[r].user = row[t].user /\ req'[r].token = t
      /\ req'[r].browser = req[r].browser /\ req'[r].now = req[r].now
      /\ \A q \in Requests \ {r} : req'[q] = req[q]
  <2> HIDE DEF next
  <2>1. req' = [req EXCEPT ![r] = [req[r] EXCEPT !.pc = next, !.user = row[t].user]]
      BY <1>1 DEF TypeOK
  <2> QED BY <1>3, <2>1 DEF TypeOK, Request
<1>7. ~(row[t].expiresAt <= req[r].now) => req[r].now < row[t].expiresAt
    BY <1>4
<1> QED BY <1>2, <1>5, <1>6, <1>7

LEMMA Revoked ==
    ASSUME TypeOK, NEW S, NEW at, NEW why, Revoke(S, at, why)
    PROVE  \A t \in Tokens :
              /\ row'[t].user = row[t].user /\ row'[t].expiresAt = row[t].expiresAt
              /\ IF t \in S /\ Live(t) THEN row'[t].reason = why /\ row'[t].revokedAt = at
                 ELSE row'[t] = row[t]
<1> SUFFICES ASSUME NEW t \in Tokens
             PROVE  /\ row'[t].user = row[t].user /\ row'[t].expiresAt = row[t].expiresAt
                    /\ IF t \in S /\ Live(t) THEN row'[t].reason = why /\ row'[t].revokedAt = at
                       ELSE row'[t] = row[t]
    OBVIOUS
<1>1. row[t] \in Row
    BY DEF TypeOK
<1>2. row'[t] = IF t \in S /\ Live(t) THEN [row[t] EXCEPT !.revokedAt = at, !.reason = why]
                ELSE row[t]
    BY DEF Revoke
<1> QED BY <1>1, <1>2 DEF Row

\* A sweep and a logout touch no rotated token, and are answered.
LEMMA Swept ==
    ASSUME TypeOK, NEW r \in Requests, RevokeAll(r) \/ LogOut(r)
    PROVE  /\ UNCHANGED stored
           /\ \A t \in Tokens : /\ row'[t].user = row[t].user /\ row'[t].expiresAt = row[t].expiresAt
                                /\ row[t].reason = "ROTATED" \/ row'[t].reason = "ROTATED" => row'[t] = row[t]
           /\ req'[r].pc \in {"refused", "cleared"} /\ req'[r].token = NoToken
           /\ req'[r].browser = req[r].browser
           /\ \A q \in Requests \ {r} : req'[q] = req[q]
<1>1. CASE RevokeAll(r)
  <2>1. Revoke(TokensOf(req[r].user), req[r].now, "REUSE_DETECTED") /\ Reply(r, "refused", NoToken)
      BY <1>1 DEF RevokeAll
  <2> QED BY <1>1, <2>1, Revoked, Replied DEF RevokeAll, Live
<1>2. CASE LogOut(r)
  <2>1. Revoke({req[r].token}, clock, "LOGGED_OUT") /\ Reply(r, "cleared", NoToken)
      BY <1>2 DEF LogOut
  <2> QED BY <1>2, <2>1, Revoked, Replied DEF LogOut, Live
<1> QED BY <1>1, <1>2

\* A rotation goes on with its token if that was live, and is refused if it was not.
LEMMA RotateMoves ==
    ASSUME TypeOK, NEW r \in Requests, Rotate(r)
    PROVE  /\ IF Live(req[r].token) THEN req'[r].pc = "reloadAccount" /\ req'[r].token = req[r].token
              ELSE req'[r].pc = "refused" /\ req'[r].token = NoToken
           /\ \A q \in Requests \ {r} : req'[q] = req[q]
<1>1. CASE Live(req[r].token)
    BY <1>1 DEF Rotate, Goto, TypeOK, Request
<1>2. CASE ~Live(req[r].token)
    BY <1>2, Replied DEF Rotate
<1> QED BY <1>1, <1>2

\* A new token was nobody's before, and changes no other row.
LEMMA Inserted ==
    ASSUME Inv, NEW r \in Requests, NEW n \in Tokens, InsertToken(r, n)
    PROVE  /\ stored' = stored \cup {n} /\ n \notin stored /\ n # NoToken
           /\ row'[n].user = req[r].user /\ row'[n].reason = "NONE" /\ req[r].user \in accounts
           /\ \A t \in Tokens \ {n} : row'[t] = row[t] /\ family'[t] = family[t]
           /\ family'[n] = IF req[r].token = NoToken THEN n ELSE family[req[r].token]
           /\ \A t \in Tokens : family[t] # n
           /\ \A q \in Requests : req[q].token # n
           /\ \A b \in Browsers : jar[b] # n
           /\ req'[r].pc = "session" /\ req'[r].token = n /\ req'[r].browser = req[r].browser
           /\ \A q \in Requests \ {r} : req'[q] = req[q]
<1>0. TypeOK /\ FamilyOK
    BY DEF Inv
<1>1. family[n] = NoToken /\ n # NoToken
    BY SessionConstants DEF InsertToken, Issued
<1>2. n \notin stored /\ (\A q \in Requests : req[q].token # n) /\ (\A b \in Browsers : jar[b] # n)
    BY <1>0, <1>1 DEF FamilyOK
<1>3. \A t \in Tokens : family[t] # n
    BY <1>0, <1>1 DEF FamilyOK
<1>4. /\ row'[n].user = req[r].user /\ row'[n].reason = "NONE"
      /\ \A t \in Tokens \ {n} : row'[t] = row[t] /\ family'[t] = family[t]
      /\ family'[n] = IF req[r].token = NoToken THEN n ELSE family[req[r].token]
    BY <1>0 DEF InsertToken, TypeOK
<1>5. Reply(r, "session", n) /\ stored' = stored \cup {n} /\ req[r].user \in accounts
    BY DEF InsertToken
<1> QED BY <1>0, <1>1, <1>2, <1>3, <1>4, <1>5, Replied

-----------------------------------------------------------------------------
-----------------------------------------------------------------------------
(* Sessions that are over *)

\* Everything but FindToken and InsertToken.
LEMMA RotatingKept ==
    ASSUME RotatingOK,
           \A t \in stored' : t \in stored /\ row'[t].expiresAt = row[t].expiresAt,
           \A q \in Requests : req'[q].pc = "rotate" => req'[q] = req[q]
    PROVE  RotatingOK'
BY DEF RotatingOK

\* A session stays over in a step that adds no token and brings no request to renew it.
LEMMA OverKept ==
    ASSUME NEW l \in Tokens, Over(l), UNCHANGED family,
           \A t \in Tokens : Live(t)' => Live(t) /\ row'[t].expiresAt = row[t].expiresAt,
           \A t \in Tokens : row[t].expiresAt <= clock => row[t].expiresAt <= clock',
           \A q \in Requests : CouldRenew(q)' =>
               (CouldRenew(q) /\ req'[q].token = req[q].token) \/ family[req'[q].token] # l
    PROVE  Over(l)'
BY DEF Over

\* A request the step leaves alone, and one that is past renewing, bring nothing.
LEMMA OthersRenewing ==
    ASSUME NEW q \in Requests, req'[q] = req[q], stored \subseteq Tokens, stored' \subseteq Tokens,
           \A t \in Tokens : Live(t)' => Live(t) /\ row'[t].expiresAt = row[t].expiresAt
    PROVE  CouldRenew(q)' => CouldRenew(q) /\ req'[q].token = req[q].token
<1>1. Live(req[q].token)' => req[q].token \in Tokens
    BY DEF Live
<1> QED BY <1>1 DEF CouldRenew, Renewing

LEMMA PastRenewing ==
    ASSUME NEW q \in Requests,
           req'[q].pc \notin {"findToken", "rotate"},
           req'[q].pc \in {"reloadAccount", "insert"} => req'[q].token = NoToken
    PROVE  ~CouldRenew(q)'
BY DEF CouldRenew, Renewing

LEMMA RotatingPreserved == Inv /\ RotatingOK /\ [Next]_vars => RotatingOK'
<1> SUFFICES ASSUME Inv, RotatingOK, [Next]_vars PROVE RotatingOK'
    OBVIOUS
<1>a. TypeOK /\ stored \subseteq Tokens
    BY DEF Inv, TypeOK
<1>b. ASSUME UNCHANGED <<stored, row>>, \A q \in Requests : req'[q].pc = "rotate" => req'[q] = req[q]
      PROVE  RotatingOK'
    BY <1>b, RotatingKept
<1>c. ASSUME NEW r \in Requests, req'[r].pc # "rotate", \A q \in Requests \ {r} : req'[q] = req[q]
      PROVE  \A q \in Requests : req'[q].pc = "rotate" => req'[q] = req[q]
    BY <1>c
<1>1. ASSUME NEW r \in Requests, NEW b, NEW pc, NEW t, NEW u, NEW now,
             Arrive(r, b, pc, t, u, now), pc # "rotate"
      PROVE  RotatingOK'
    BY <1>1, <1>a, <1>b, <1>c, Arrived DEF Arrive
<1>2. ASSUME NEW r \in Requests, NEW a \in Answers, NEW t, Reply(r, a, t), UNCHANGED <<stored, row>>
      PROVE  RotatingOK'
    BY <1>2, <1>a, <1>b, <1>c, Replied DEF Answers
<1>3. ASSUME NEW r \in Requests, FindAccount(r) \/ ReloadAccount(r)
      PROVE  RotatingOK'
  <2>1. UNCHANGED <<stored, row>> /\ (Reply(r, "refused", NoToken) \/ StartSession(r, req[r].user))
      BY <1>3 DEF FindAccount, ReloadAccount
  <2>2. CASE StartSession(r, req[r].user)
    <3>1. req'[r].pc # "rotate" /\ \A q \in Requests \ {r} : req'[q] = req[q]
        BY <1>a, <2>2, Started
    <3> QED BY <1>b, <1>c, <2>1, <3>1
  <2> QED BY <1>2, <2>1, <2>2 DEF Answers
<1>4. ASSUME NEW r \in Requests, FindToken(r)
      PROVE  RotatingOK'
  <2>1. UNCHANGED <<stored, row>>
      BY <1>4 DEF FindToken
  <2>2. CASE ~Reply(r, "refused", NoToken)
    <3>1. /\ req'[r].pc = "rotate" => req'[r].now < row[req'[r].token].expiresAt
          /\ \A q \in Requests \ {r} : req'[q] = req[q]
        BY <1>4, <1>a, <2>2, Found
    <3> QED BY <2>1, <3>1 DEF RotatingOK
  <2> QED BY <1>2, <2>1, <2>2 DEF Answers
<1>5. ASSUME NEW r \in Requests, RevokeAll(r) \/ LogOut(r)
      PROVE  RotatingOK'
  <2>1. /\ UNCHANGED stored
        /\ \A t \in Tokens : row'[t].expiresAt = row[t].expiresAt
        /\ req'[r].pc # "rotate" /\ \A q \in Requests \ {r} : req'[q] = req[q]
      BY <1>5, <1>a, Swept
  <2> QED BY <1>a, <1>c, <2>1, RotatingKept
<1>6. ASSUME NEW r \in Requests, Rotate(r)
      PROVE  RotatingOK'
  <2>1. UNCHANGED stored /\ \A t \in Tokens : row'[t].expiresAt = row[t].expiresAt
    <3>1. Revoke({req[r].token}, req[r].now, "ROTATED") /\ UNCHANGED stored
        BY <1>6 DEF Rotate
    <3> QED BY <1>a, <3>1, Revoked
  <2>2. req'[r].pc # "rotate" /\ \A q \in Requests \ {r} : req'[q] = req[q]
      BY <1>6, <1>a, RotateMoves
  <2> QED BY <1>a, <1>c, <2>1, <2>2, RotatingKept
<1>7. ASSUME NEW r \in Requests, NEW n \in Tokens, InsertToken(r, n)
      PROVE  RotatingOK'
  <2>1. /\ stored' = stored \cup {n}
        /\ \A t \in Tokens \ {n} : row'[t] = row[t]
        /\ \A q \in Requests : req[q].token # n
        /\ req'[r].pc = "session" /\ \A q \in Requests \ {r} : req'[q] = req[q]
      BY <1>7, Inserted
  <2> QED BY <1>a, <2>1 DEF RotatingOK
<1>8. ASSUME NEW r \in Requests, Answer(r) \/ Drop(r)
      PROVE  RotatingOK'
  <2>1. UNCHANGED <<stored, row>> /\ req' = [req EXCEPT ![r] = Idle]
      BY <1>8 DEF Answer, Drop
  <2>2. req'[r].pc # "rotate" /\ \A q \in Requests \ {r} : req'[q] = req[q]
      BY <1>a, <2>1 DEF TypeOK, Idle
  <2> QED BY <1>b, <1>c, <2>1, <2>2
<1>9. ASSUME NEW u \in Users, DeleteAccount(u)
      PROVE  RotatingOK'
  <2>1. UNCHANGED req /\ \A t \in stored' : t \in stored /\ row'[t] = row[t]
      BY <1>9, <1>a DEF DeleteAccount
  <2> QED BY <2>1, RotatingKept
<1>10. CASE Tick \/ UNCHANGED vars
    BY <1>10, <1>b DEF Tick, vars
<1> QED
    BY <1>1, <1>3, <1>4, <1>5, <1>6, <1>7, <1>8, <1>9, <1>10
       DEF Next, BeginLogin, BeginRefresh, BeginLogout

LEMMA OverStays == ASSUME Inv, RotatingOK, [Next]_vars, NEW l \in Tokens, Over(l) PROVE Over(l)'
<1>a. TypeOK /\ stored \subseteq Tokens /\ stored' \subseteq Tokens /\ FamilyOK
    BY TypePreserved DEF Inv, TypeOK
<1>b. \A t \in Tokens : row[t].expiresAt \in Nat
    BY <1>a DEF TypeOK, Row
<1>c. clock \in Nat /\ clock <= clock'
  <2>1. clock \in Nat
      BY <1>a, SessionConstants DEF TypeOK
  <2>2. clock' = clock \/ clock' = clock + 1
      BY DEF Next, vars, BeginLogin, BeginRefresh, BeginLogout, Arrive, FindAccount, FindToken,
             RevokeAll, Rotate, ReloadAccount, InsertToken, LogOut, Answer, Drop, DeleteAccount, Tick
  <2> QED BY <2>1, <2>2
<1>d. \A t \in Tokens : row[t].expiresAt <= clock => row[t].expiresAt <= clock'
  <2>1. clock' \in Nat
      BY TypePreserved, SessionConstants DEF Inv, TypeOK
  <2> QED BY <1>b, <1>c, <2>1
\* One request moves, to where it renews nothing, and no row becomes live.
<1>e. ASSUME UNCHANGED family, NEW r \in Requests,
             \A t \in Tokens : Live(t)' => Live(t) /\ row'[t].expiresAt = row[t].expiresAt,
             \A q \in Requests \ {r} : req'[q] = req[q],
             CouldRenew(r)' => (CouldRenew(r) /\ req'[r].token = req[r].token) \/ family[req'[r].token] # l
      PROVE  Over(l)'
    BY <1>a, <1>d, <1>e, OthersRenewing, OverKept
<1>f. ASSUME UNCHANGED <<stored, row>>
      PROVE  \A t \in Tokens : Live(t)' => Live(t) /\ row'[t].expiresAt = row[t].expiresAt
    BY <1>f DEF Live
<1>1. ASSUME NEW r \in Requests, NEW b, NEW pc, NEW t, NEW u, NEW now,
             Arrive(r, b, pc, t, u, now), pc \in {"findAccount", "refused", "cleared", "logOut"}
      PROVE  Over(l)'
  <2>1. UNCHANGED <<stored, row, family>>
      BY <1>1 DEF Arrive
  <2>2. req'[r].pc = pc /\ \A q \in Requests \ {r} : req'[q] = req[q]
      BY <1>a, <1>1, Arrived
  <2>3. ~CouldRenew(r)'
      BY <1>1, <2>2, PastRenewing
  <2> QED BY <1>e, <1>f, <2>1, <2>2, <2>3
<1>2. ASSUME NEW r \in Requests, NEW b \in Browsers, BeginRefresh(r, b)
      PROVE  Over(l)'
  <2>1. CASE jar[b] = NoToken
      BY <1>1, <1>2, <2>1 DEF BeginRefresh
  <2>2. CASE jar[b] # NoToken
    <3>1. Arrive(r, b, "findToken", jar[b], NoUser, clock)
        BY <1>2, <2>2 DEF BeginRefresh
    <3>2. /\ req'[r].pc = "findToken" /\ req'[r].token = jar[b] /\ req'[r].now = clock
          /\ \A q \in Requests \ {r} : req'[q] = req[q]
        BY <1>a, <3>1, Arrived DEF Arrive, TypeOK
    <3>3. UNCHANGED <<stored, row, family>>
        BY <3>1 DEF Arrive
    <3>4. ASSUME CouldRenew(r)'
          PROVE  family[req'[r].token] # l
      <4>1. Live(jar[b]) /\ clock < row[jar[b]].expiresAt /\ jar[b] \in Tokens
          BY <1>a, <3>2, <3>3, <3>4 DEF CouldRenew, Renewing, Live
      <4>2. ~(row[jar[b]].expiresAt <= clock)
          BY <1>b, <1>c, <4>1
      <4> QED BY <3>2, <4>1, <4>2 DEF Over
    <3> QED BY <1>e, <1>f, <3>2, <3>3, <3>4
  <2> QED BY <2>1, <2>2
<1>3. ASSUME NEW r \in Requests, NEW a \in Answers, NEW t, Reply(r, a, t),
             UNCHANGED <<stored, row, family>>
      PROVE  Over(l)'
    BY <1>3, <1>a, <1>e, <1>f, Replied, PastRenewing DEF Answers
<1>4. ASSUME NEW r \in Requests, FindAccount(r) \/ ReloadAccount(r)
      PROVE  Over(l)'
  <2>1. /\ UNCHANGED <<stored, row, family>>
        /\ Reply(r, "refused", NoToken) \/ StartSession(r, req[r].user)
      BY <1>4 DEF FindAccount, ReloadAccount
  <2>2. CASE StartSession(r, req[r].user)
    <3>1. /\ req'[r].pc = "insert" /\ req'[r].token = req[r].token
          /\ \A q \in Requests \ {r} : req'[q] = req[q]
        BY <1>a, <2>2, Started
    <3>2. CouldRenew(r)' => Renewing(r)
        BY <1>4, <3>1 DEF CouldRenew, Renewing, FindAccount, ReloadAccount, Inv, LoginOK
    <3> QED BY <1>e, <1>f, <2>1, <3>1, <3>2 DEF CouldRenew
  <2> QED BY <1>3, <2>1, <2>2 DEF Answers
<1>5. ASSUME NEW r \in Requests, FindToken(r)
      PROVE  Over(l)'
  <2>1. UNCHANGED <<stored, row, family>> /\ req[r].pc = "findToken"
      BY <1>5 DEF FindToken
  <2>2. CASE ~Reply(r, "refused", NoToken)
    <3>1. /\ req'[r].pc \in {"revokeAll", "rotate"}
          /\ req'[r].token = req[r].token /\ req'[r].now = req[r].now
          /\ \A q \in Requests \ {r} : req'[q] = req[q]
        BY <1>5, <1>a, <2>2, Found
    <3>2. CouldRenew(r)' => CouldRenew(r)
        BY <2>1, <3>1 DEF CouldRenew, Renewing, Live
    <3> QED BY <1>e, <1>f, <2>1, <3>1, <3>2
  <2> QED BY <1>3, <2>1, <2>2 DEF Answers
<1>6. ASSUME NEW r \in Requests, RevokeAll(r) \/ LogOut(r)
      PROVE  Over(l)'
  <2>1. /\ UNCHANGED stored /\ UNCHANGED family
        /\ \A t \in Tokens : row'[t].expiresAt = row[t].expiresAt
        /\ req'[r].pc \in {"refused", "cleared"} /\ \A q \in Requests \ {r} : req'[q] = req[q]
      BY <1>6, <1>a, Swept DEF RevokeAll, LogOut
  <2>2. \A t \in Tokens : Live(t)' => Live(t)
      BY <1>6, <1>a DEF RevokeAll, LogOut, Revoke, Live
  <2>3. ~CouldRenew(r)'
      BY <2>1, PastRenewing
  <2> QED BY <1>e, <2>1, <2>2, <2>3
<1>7. ASSUME NEW r \in Requests, Rotate(r)
      PROVE  Over(l)'
  <2> DEFINE tok == req[r].token
  <2>1. /\ Revoke({tok}, req[r].now, "ROTATED") /\ UNCHANGED <<stored, family>>
        /\ req[r].pc = "rotate"
      BY <1>7 DEF Rotate
  <2>2. \A t \in Tokens : Live(t)' => Live(t) /\ row'[t].expiresAt = row[t].expiresAt
    <3>1. \A t \in Tokens : row'[t].expiresAt = row[t].expiresAt
        BY <1>a, <2>1, Revoked
    <3>2. \A t \in Tokens : Live(t)' => Live(t)
        BY <2>1 DEF Revoke, Live
    <3> QED BY <3>1, <3>2
  <2>3. \A q \in Requests \ {r} : req'[q] = req[q]
      BY <1>7, <1>a, RotateMoves
  <2>4. CouldRenew(r)' => CouldRenew(r) /\ req'[r].token = tok
    <3>1. CASE Live(tok)
      <4>1. tok \in stored /\ req[r].now < row[tok].expiresAt
          BY <2>1, <3>1 DEF Live, RotatingOK
      <4>2. CouldRenew(r)
          BY <2>1, <3>1, <4>1 DEF CouldRenew
      <4>3. req'[r].token = tok
          BY <1>7, <1>a, <3>1, RotateMoves
      <4> QED BY <4>2, <4>3
    <3>2. CASE ~Live(tok)
        BY <1>7, <1>a, <3>2, RotateMoves, PastRenewing
    <3> QED BY <3>1, <3>2
  <2> QED BY <1>e, <2>1, <2>2, <2>3, <2>4
<1>8. ASSUME NEW r \in Requests, NEW n \in Tokens, InsertToken(r, n)
      PROVE  Over(l)'
  <2>1. /\ stored' = stored \cup {n} /\ n \notin stored
        /\ \A t \in Tokens \ {n} : row'[t] = row[t] /\ family'[t] = family[t]
        /\ family'[n] = IF req[r].token = NoToken THEN n ELSE family[req[r].token]
        /\ \A t \in Tokens : family[t] # n
        /\ \A q \in Requests : req[q].token # n
        /\ req'[r].pc = "session" /\ \A q \in Requests \ {r} : req'[q] = req[q]
      BY <1>8, Inserted
  <2>2. n # l /\ UNCHANGED clock
      BY <1>8, <2>1 DEF Over, InsertToken
  <2>3. family'[n] # l
    <3>1. CASE req[r].token = NoToken
        BY <2>1, <2>2, <3>1
    <3>2. CASE req[r].token # NoToken
      <4>1. CouldRenew(r)
          BY <1>8, <3>2 DEF InsertToken, CouldRenew, Renewing
      <4> QED BY <2>1, <3>2, <4>1 DEF Over
    <3> QED BY <3>1, <3>2
  <2>4. \A t \in Tokens \ {n} : Live(t)' => Live(t)
      BY <2>1 DEF Live
  <2>5. ASSUME NEW q \in Requests, CouldRenew(q)'
        PROVE  family'[req'[q].token] # l
    <3>1. q # r /\ req'[q] = req[q] /\ req[q].token # n
        BY <2>1, <2>5 DEF CouldRenew, Renewing
    <3>2. req[q].token \in Tokens
        BY <1>a, <2>5, <3>1 DEF CouldRenew, Renewing, Live, TypeOK, Request
    <3>3. CouldRenew(q)
        BY <2>1, <2>4, <2>5, <3>1, <3>2 DEF CouldRenew, Renewing
    <3> QED BY <2>1, <3>1, <3>2, <3>3 DEF Over
  <2> QED BY <2>1, <2>2, <2>3, <2>4, <2>5 DEF Over
<1>9. ASSUME NEW r \in Requests, Answer(r) \/ Drop(r)
      PROVE  Over(l)'
  <2>1. UNCHANGED <<stored, row, family>> /\ req' = [req EXCEPT ![r] = Idle]
      BY <1>9 DEF Answer, Drop
  <2>2. req'[r] = Idle /\ \A q \in Requests \ {r} : req'[q] = req[q]
      BY <1>a, <2>1 DEF TypeOK
  <2>3. ~CouldRenew(r)'
      BY <2>2, PastRenewing DEF Idle
  <2> QED BY <1>e, <1>f, <2>1, <2>2, <2>3
<1>10. ASSUME NEW u \in Users, DeleteAccount(u)
       PROVE  Over(l)'
  <2>1. /\ UNCHANGED <<req, family>> /\ stored' \subseteq stored
        /\ \A t \in stored' : row'[t] = row[t]
      BY <1>10, <1>a DEF DeleteAccount
  <2>2. \A t \in Tokens : Live(t)' => Live(t) /\ row'[t].expiresAt = row[t].expiresAt
      BY <2>1 DEF Live
  <2> QED BY <1>a, <1>d, <2>1, <2>2, OthersRenewing, OverKept
<1>11. CASE Tick \/ UNCHANGED vars
  <2>1. UNCHANGED <<req, family, stored, row>>
      BY <1>11 DEF Tick, vars
  <2> QED BY <1>a, <1>d, <1>f, <2>1, OthersRenewing, OverKept
<1> QED
    BY <1>1, <1>2, <1>4, <1>5, <1>6, <1>7, <1>8, <1>9, <1>10, <1>11
       DEF Next, BeginLogin, BeginLogout

\* A session that has run out, or was ended, is over for good: only a refresh that read the clock
\* before the expiry can renew it, however late it gets to the UPDATE and the INSERT.
THEOREM OverIsForGood == Spec => OverForGood
<1>1. Init => RotatingOK
    BY DEF Init, Idle, RotatingOK
<1>2. Inv /\ RotatingOK /\ [Next]_vars => [\A l \in Tokens : Over(l) => Over(l)']_vars
    BY OverStays
<1> QED BY <1>1, <1>2, InvInitially, InvPreserved, RotatingPreserved, PTL DEF Spec, OverForGood

-----------------------------------------------------------------------------
(* What sets off reuse detection *)

\* The two parts of ReuseNeedsRotation: who is about to sweep, and what was swept.
ReplayOK ==
    \A r \in Requests : req[r].pc = "revokeAll" /\ req[r].token \in stored =>
        row[req[r].token].reason = "ROTATED" /\ row[req[r].token].user = req[r].user

SweptOK ==
    \A t \in stored : row[t].reason = "REUSE_DETECTED" =>
        \E p \in stored : row[p].user = row[t].user /\ row[p].reason = "ROTATED"

ReuseOK == ReplayOK /\ SweptOK /\ OwnersOK /\ SweepOK

\* Everything but FindToken, RevokeAll and DeleteAccount.
LEMMA ReuseKept ==
    ASSUME ReuseOK, UNCHANGED accounts, stored \subseteq stored',
           \A t \in stored' : row'[t].user \in accounts,
           \A t \in stored' : row'[t].reason = "REUSE_DETECTED" =>
               t \in stored /\ row[t].reason = "REUSE_DETECTED",
           \A t \in stored : /\ row'[t].user = row[t].user
                             /\ row[t].reason = "ROTATED" => row'[t].reason = "ROTATED",
           \A q \in Requests : req[q].token \in stored' => req[q].token \in stored,
           \A q \in Requests : req'[q].pc = "revokeAll" => req'[q] = req[q]
    PROVE  ReuseOK'
<1>1. SweptOK'
  <2>1. ASSUME NEW t \in stored', row'[t].reason = "REUSE_DETECTED"
        PROVE  \E p \in stored' : row'[p].user = row'[t].user /\ row'[p].reason = "ROTATED"
    <3>1. t \in stored /\ row'[t].user = row[t].user /\ row[t].reason = "REUSE_DETECTED"
        BY <2>1
    <3>2. PICK p \in stored : row[p].user = row[t].user /\ row[p].reason = "ROTATED"
        BY <3>1 DEF ReuseOK, SweptOK
    <3> QED BY <3>1, <3>2
  <2> QED BY <2>1 DEF SweptOK
<1>2. OwnersOK'
    BY DEF OwnersOK
<1>3. SweepOK'
  <2>1. ASSUME NEW r \in Requests, req'[r].pc = "revokeAll", req'[r].user \in accounts'
        PROVE  \E p \in stored' : row'[p].user = req'[r].user /\ row'[p].reason = "ROTATED"
    <3>1. req'[r] = req[r]
        BY <2>1
    <3>2. PICK p \in stored : row[p].user = req[r].user /\ row[p].reason = "ROTATED"
        BY <2>1, <3>1 DEF ReuseOK, SweepOK
    <3> QED BY <3>1, <3>2
  <2> QED BY <2>1 DEF SweepOK
<1>4. ReplayOK'
    BY DEF ReuseOK, ReplayOK
<1> QED BY <1>1, <1>2, <1>3, <1>4 DEF ReuseOK

LEMMA ReusePreserved == Inv /\ ReuseOK /\ [Next]_vars => ReuseOK'
<1> SUFFICES ASSUME Inv, ReuseOK, [Next]_vars PROVE ReuseOK'
    OBVIOUS
<1>a. TypeOK /\ stored \subseteq Tokens
    BY DEF Inv, TypeOK
<1>b. ASSUME UNCHANGED <<accounts, stored, row>>,
             \A q \in Requests : req'[q].pc = "revokeAll" => req'[q] = req[q]
      PROVE  ReuseOK'
    BY <1>b, ReuseKept DEF ReuseOK, OwnersOK
<1>c. ASSUME NEW r \in Requests, req'[r].pc # "revokeAll", \A q \in Requests \ {r} : req'[q] = req[q]
      PROVE  \A q \in Requests : req'[q].pc = "revokeAll" => req'[q] = req[q]
    BY <1>c
<1>1. ASSUME NEW r \in Requests, NEW b, NEW pc, NEW t, NEW u, NEW now,
             Arrive(r, b, pc, t, u, now), pc # "revokeAll"
      PROVE  ReuseOK'
    BY <1>1, <1>a, <1>b, <1>c, Arrived DEF Arrive
<1>2. ASSUME NEW r \in Requests, NEW a \in Answers, NEW t, Reply(r, a, t),
             UNCHANGED <<accounts, stored, row>>
      PROVE  ReuseOK'
    BY <1>2, <1>a, <1>b, <1>c, Replied DEF Answers
<1>3. ASSUME NEW r \in Requests, FindAccount(r) \/ ReloadAccount(r)
      PROVE  ReuseOK'
  <2>1. /\ UNCHANGED <<accounts, stored, row>>
        /\ Reply(r, "refused", NoToken) \/ StartSession(r, req[r].user)
      BY <1>3 DEF FindAccount, ReloadAccount
  <2>2. CASE StartSession(r, req[r].user)
    <3>1. req'[r].pc # "revokeAll" /\ \A q \in Requests \ {r} : req'[q] = req[q]
        BY <1>a, <2>2, Started
    <3> QED BY <1>b, <1>c, <2>1, <3>1
  <2> QED BY <1>2, <2>1, <2>2 DEF Answers
<1>4. ASSUME NEW r \in Requests, FindToken(r)
      PROVE  ReuseOK'
  <2>1. UNCHANGED <<accounts, stored, row>>
      BY <1>4 DEF FindToken
  <2>2. CASE ~Reply(r, "refused", NoToken)
    <3>1. /\ req[r].token \in stored /\ req'[r].user = row[req[r].token].user
          /\ req'[r].token = req[r].token
          /\ req'[r].pc = "revokeAll" => row[req[r].token].reason = "ROTATED"
          /\ \A q \in Requests \ {r} : req'[q] = req[q]
        BY <1>4, <1>a, <2>2, Found
    <3>2. ReplayOK'
        BY <2>1, <3>1 DEF ReuseOK, ReplayOK
    <3> QED BY <2>1, <3>1, <3>2 DEF ReuseOK, SweptOK, OwnersOK, SweepOK
  <2> QED BY <1>2, <2>1, <2>2 DEF Answers
<1>5. ASSUME NEW r \in Requests, RevokeAll(r)
      PROVE  ReuseOK'
  <2> DEFINE u == req[r].user
  <2>1. /\ UNCHANGED stored
        /\ \A t \in Tokens : /\ row'[t].user = row[t].user
                             /\ row[t].reason = "ROTATED" => row'[t] = row[t]
        /\ req'[r].pc # "revokeAll" /\ \A q \in Requests \ {r} : req'[q] = req[q]
      BY <1>5, <1>a, Swept
  <2>2. Revoke(TokensOf(u), req[r].now, "REUSE_DETECTED") /\ req[r].pc = "revokeAll" /\ UNCHANGED accounts
      BY <1>5 DEF RevokeAll
  <2>3. \A t \in Tokens : row'[t] = row[t] \/ t \in TokensOf(u)
      BY <1>a, <2>2, Revoked
  <2>4. ASSUME NEW t \in stored, row'[t].reason = "REUSE_DETECTED"
        PROVE  \E p \in stored : row'[p].user = row'[t].user /\ row'[p].reason = "ROTATED"
    <3>1. PICK p \in stored : row[p].user = row[t].user /\ row[p].reason = "ROTATED"
      <4>1. CASE row'[t] = row[t]
          BY <2>4, <4>1 DEF ReuseOK, SweptOK
      <4>2. CASE t \in TokensOf(u)
        <5>1. row[t].user = u /\ u \in accounts
            BY <4>2 DEF TokensOf, ReuseOK, OwnersOK
        <5> QED BY <2>2, <5>1 DEF ReuseOK, SweepOK
      <4> QED BY <1>a, <2>3, <4>1, <4>2
    <3> QED BY <1>a, <2>1, <3>1
  <2>5. SweptOK'
      BY <2>1, <2>4 DEF SweptOK
  <2>6. OwnersOK'
      BY <1>a, <2>1, <2>2 DEF ReuseOK, OwnersOK
  <2>7. SweepOK'
    <3>1. ASSUME NEW q \in Requests, req'[q].pc = "revokeAll", req'[q].user \in accounts
          PROVE  \E p \in stored : row'[p].user = req'[q].user /\ row'[p].reason = "ROTATED"
      <4>1. req'[q] = req[q]
          BY <2>1, <3>1
      <4>2. PICK p \in stored : row[p].user = req[q].user /\ row[p].reason = "ROTATED"
          BY <3>1, <4>1 DEF ReuseOK, SweepOK
      <4> QED BY <1>a, <2>1, <4>1, <4>2
    <3> QED BY <2>1, <2>2, <3>1 DEF SweepOK
  <2>8. ReplayOK'
      BY <1>a, <2>1 DEF ReuseOK, ReplayOK
  <2> QED BY <2>5, <2>6, <2>7, <2>8 DEF ReuseOK
<1>6. ASSUME NEW r \in Requests, Rotate(r) \/ LogOut(r)
      PROVE  ReuseOK'
  <2>1. /\ UNCHANGED <<accounts, stored>>
        /\ \A t \in Tokens : /\ row'[t].user = row[t].user
                             /\ row[t].reason = "ROTATED" => row'[t].reason = "ROTATED"
                             /\ row'[t].reason = "REUSE_DETECTED" => row[t].reason = "REUSE_DETECTED"
    <3>1. CASE Rotate(r)
      <4>1. Revoke({req[r].token}, req[r].now, "ROTATED") /\ UNCHANGED <<accounts, stored>>
          BY <3>1 DEF Rotate
      <4> QED BY <1>a, <4>1, Revoked DEF Live
    <3>2. CASE LogOut(r)
      <4>1. Revoke({req[r].token}, clock, "LOGGED_OUT") /\ UNCHANGED <<accounts, stored>>
          BY <3>2 DEF LogOut
      <4> QED BY <1>a, <4>1, Revoked DEF Live
    <3> QED BY <1>6, <3>1, <3>2
  <2>2. req'[r].pc # "revokeAll" /\ \A q \in Requests \ {r} : req'[q] = req[q]
    <3>1. CASE Goto(r, "reloadAccount")
        BY <1>a, <3>1 DEF Goto, TypeOK, Request
    <3>2. CASE Reply(r, "refused", NoToken) \/ Reply(r, "cleared", NoToken)
        BY <1>a, <3>2, Replied
    <3> QED BY <1>6, <3>1, <3>2 DEF Rotate, LogOut
  <2> QED BY <1>a, <1>c, <2>1, <2>2, ReuseKept DEF ReuseOK, OwnersOK
<1>7. ASSUME NEW r \in Requests, NEW n \in Tokens, InsertToken(r, n)
      PROVE  ReuseOK'
  <2>1. /\ stored' = stored \cup {n} /\ n \notin stored
        /\ row'[n].user \in accounts /\ row'[n].reason = "NONE"
        /\ \A t \in Tokens \ {n} : row'[t] = row[t]
        /\ \A q \in Requests : req[q].token # n
        /\ req'[r].pc # "revokeAll" /\ \A q \in Requests \ {r} : req'[q] = req[q]
      BY <1>7, Inserted
  <2>2. \A t \in stored : row'[t] = row[t]
      BY <1>a, <2>1
  <2>3. \A t \in stored' : row'[t].user \in accounts
      BY <2>1, <2>2 DEF ReuseOK, OwnersOK
  <2>4. UNCHANGED accounts
      BY <1>7 DEF InsertToken
  <2> QED BY <1>c, <2>1, <2>2, <2>3, <2>4, ReuseKept
<1>8. ASSUME NEW r \in Requests, Answer(r) \/ Drop(r)
      PROVE  ReuseOK'
  <2>1. UNCHANGED <<accounts, stored, row>> /\ req' = [req EXCEPT ![r] = Idle]
      BY <1>8 DEF Answer, Drop
  <2>2. req'[r].pc # "revokeAll" /\ \A q \in Requests \ {r} : req'[q] = req[q]
      BY <1>a, <2>1 DEF TypeOK, Idle
  <2> QED BY <1>b, <1>c, <2>1, <2>2
<1>9. ASSUME NEW u \in Users, DeleteAccount(u)
      PROVE  ReuseOK'
  <2>1. /\ UNCHANGED req /\ accounts' = accounts \ {u}
        /\ \A t \in stored : row[t].user # u => t \in stored'
        /\ \A t \in stored' : t \in stored /\ row[t].user # u /\ row'[t] = row[t]
      BY <1>9, <1>a DEF DeleteAccount, TokensOf
  <2>2. SweptOK'
      BY <2>1 DEF ReuseOK, SweptOK
  <2>3. OwnersOK'
      BY <2>1 DEF ReuseOK, OwnersOK
  <2>4. SweepOK'
      BY <2>1 DEF ReuseOK, SweepOK
  <2>5. ReplayOK'
      BY <2>1 DEF ReuseOK, ReplayOK
  <2> QED BY <2>2, <2>3, <2>4, <2>5 DEF ReuseOK
<1>10. CASE Tick \/ UNCHANGED vars
    BY <1>10, <1>b DEF Tick, vars
<1> QED
    BY <1>1, <1>3, <1>4, <1>5, <1>6, <1>7, <1>8, <1>9, <1>10
       DEF Next, BeginLogin, BeginRefresh, BeginLogout

LEMMA ReuseInitially == Init => ReuseOK
BY DEF Init, Idle, ReuseOK, ReplayOK, SweptOK, OwnersOK, SweepOK

\* Nobody is about to sweep an account up but a request that presented a rotated token of it, and
\* what was swept up is of an account with a rotated token: replaying a token that was logged out
\* or swept up earlier signs nobody out.
THEOREM SweepsNeedARotation == Spec => []ReuseNeedsRotation
<1>1. ReuseOK => ReuseNeedsRotation
    BY DEF ReuseOK, ReplayOK, SweptOK, ReuseNeedsRotation
<1> QED BY <1>1, ReuseInitially, InvInitially, InvPreserved, ReusePreserved, PTL DEF Spec

-----------------------------------------------------------------------------
(* Whose session it is *)

ChainOK == ChainKeepsOwner /\ CarriedOK

\* Everything but FindToken and InsertToken.
LEMMA ChainKept ==
    ASSUME ChainOK, UNCHANGED family, stored' \subseteq stored,
           \A t \in stored' : row'[t].user = row[t].user,
           \A q \in Requests : Carrying(q)' =>
               Carrying(q) /\ req'[q].token = req[q].token /\ req'[q].user = req[q].user
    PROVE  ChainOK'
<1>1. ChainKeepsOwner'
    BY DEF ChainOK, ChainKeepsOwner
<1>2. CarriedOK'
  <2>1. ASSUME NEW r \in Requests, NEW t \in stored', Carrying(r)',
               family'[t] = family'[req'[r].token]
        PROVE  row'[t].user = req'[r].user
      BY <2>1 DEF ChainOK, CarriedOK
  <2>2. ASSUME NEW q \in Requests, NEW r \in Requests, Carrying(q)', Carrying(r)',
               family'[req'[q].token] = family'[req'[r].token]
        PROVE  req'[q].user = req'[r].user
      BY <2>2 DEF ChainOK, CarriedOK
  <2> QED BY <2>1, <2>2 DEF CarriedOK
<1> QED BY <1>1, <1>2 DEF ChainOK

LEMMA ChainPreserved == Inv /\ ChainOK /\ [Next]_vars => ChainOK'
<1> SUFFICES ASSUME Inv, ChainOK, [Next]_vars PROVE ChainOK'
    OBVIOUS
<1>a. TypeOK /\ stored \subseteq Tokens /\ FamilyOK /\ LoginOK
    BY DEF Inv, TypeOK
<1>b. ASSUME UNCHANGED <<family, stored>>, \A t \in stored : row'[t].user = row[t].user,
             NEW r \in Requests, ~Carrying(r)', \A q \in Requests \ {r} : req'[q] = req[q]
      PROVE  ChainOK'
  <2>1. \A q \in Requests : Carrying(q)' =>
            Carrying(q) /\ req'[q].token = req[q].token /\ req'[q].user = req[q].user
      BY <1>b DEF Carrying
  <2> QED BY <1>b, <2>1, ChainKept
<1>1. ASSUME NEW r \in Requests, NEW b, NEW pc, NEW t, NEW u, NEW now,
             Arrive(r, b, pc, t, u, now), pc \notin {"rotate", "reloadAccount", "insert"}
      PROVE  ChainOK'
  <2>1. UNCHANGED <<family, stored, row>>
      BY <1>1 DEF Arrive
  <2> QED BY <1>1, <1>a, <1>b, <2>1, Arrived DEF Carrying
<1>2. ASSUME NEW r \in Requests, Reply(r, "refused", NoToken), UNCHANGED <<family, stored, row>>
      PROVE  ChainOK'
    BY <1>2, <1>a, <1>b, Replied DEF Carrying
<1>3. ASSUME NEW r \in Requests, FindAccount(r)
      PROVE  ChainOK'
  <2>1. UNCHANGED <<family, stored, row>> /\ req[r].token = NoToken
      BY <1>3, <1>a DEF FindAccount, LoginOK
  <2>2. CASE StartSession(r, req[r].user)
    <3>1. ~Carrying(r)' /\ \A q \in Requests \ {r} : req'[q] = req[q]
        BY <1>a, <2>1, <2>2, Started DEF Carrying
    <3> QED BY <1>b, <2>1, <3>1
  <2> QED BY <1>2, <1>3, <2>1, <2>2 DEF FindAccount
<1>4. ASSUME NEW r \in Requests, FindToken(r)
      PROVE  ChainOK'
  <2> DEFINE tok == req[r].token
  <2>1. UNCHANGED <<family, stored, row>>
      BY <1>4 DEF FindToken
  <2>2. CASE ~Reply(r, "refused", NoToken)
    <3>1. /\ tok \in stored /\ req'[r].token = tok /\ req'[r].user = row[tok].user
          /\ \A q \in Requests \ {r} : req'[q] = req[q]
        BY <1>4, <1>a, <2>2, Found
    <3>2. ChainKeepsOwner'
        BY <2>1 DEF ChainOK, ChainKeepsOwner
    <3>3. ASSUME NEW q \in Requests, NEW t \in stored, Carrying(q)',
                 family[t] = family[req'[q].token]
          PROVE  row[t].user = req'[q].user
      <4>1. CASE q = r
          BY <3>1, <3>3, <4>1 DEF ChainOK, ChainKeepsOwner
      <4>2. CASE q # r
          BY <3>1, <3>3, <4>2 DEF ChainOK, CarriedOK, Carrying
      <4> QED BY <4>1, <4>2
    <3>4. ASSUME NEW p \in Requests, NEW q \in Requests, Carrying(p)', Carrying(q)',
                 family[req'[p].token] = family[req'[q].token]
          PROVE  req'[p].user = req'[q].user
      <4>1. CASE p # r /\ q # r
          BY <3>1, <3>4, <4>1 DEF ChainOK, CarriedOK, Carrying
      <4>2. CASE p = r
          BY <3>1, <3>3, <3>4, <4>2
      <4>3. CASE q = r
          BY <3>1, <3>3, <3>4, <4>3
      <4> QED BY <4>1, <4>2, <4>3
    <3> QED BY <2>1, <3>2, <3>3, <3>4 DEF ChainOK, CarriedOK
  <2> QED BY <1>2, <2>1, <2>2
<1>5. ASSUME NEW r \in Requests, RevokeAll(r) \/ LogOut(r)
      PROVE  ChainOK'
  <2>1. UNCHANGED family
      BY <1>5 DEF RevokeAll, LogOut
  <2>2. /\ UNCHANGED stored /\ \A t \in Tokens : row'[t].user = row[t].user
        /\ ~Carrying(r)' /\ \A q \in Requests \ {r} : req'[q] = req[q]
      BY <1>5, <1>a, Swept DEF Carrying
  <2> QED BY <1>a, <1>b, <2>1, <2>2
<1>6. ASSUME NEW r \in Requests, Rotate(r)
      PROVE  ChainOK'
  <2>1. /\ Revoke({req[r].token}, req[r].now, "ROTATED") /\ UNCHANGED <<family, stored>>
        /\ req[r].pc = "rotate"
      BY <1>6 DEF Rotate
  <2>2. \A t \in stored : row'[t].user = row[t].user
      BY <1>a, <2>1, Revoked
  <2>3. CASE Goto(r, "reloadAccount")
    <3>1. /\ req'[r].token = req[r].token /\ req'[r].user = req[r].user
          /\ \A q \in Requests \ {r} : req'[q] = req[q]
        BY <1>a, <2>3 DEF Goto, TypeOK, Request
    <3>2. \A q \in Requests : Carrying(q)' =>
              Carrying(q) /\ req'[q].token = req[q].token /\ req'[q].user = req[q].user
        BY <2>1, <3>1 DEF Carrying
    <3> QED BY <2>1, <2>2, <3>2, ChainKept
  <2>4. CASE Reply(r, "refused", NoToken)
    <3>1. ~Carrying(r)' /\ \A q \in Requests \ {r} : req'[q] = req[q]
        BY <1>a, <2>4, Replied DEF Carrying
    <3> QED BY <1>b, <2>1, <2>2, <3>1
  <2> QED BY <1>6, <2>3, <2>4 DEF Rotate
<1>7. ASSUME NEW r \in Requests, ReloadAccount(r)
      PROVE  ChainOK'
  <2>1. UNCHANGED <<family, stored, row>> /\ req[r].pc = "reloadAccount"
      BY <1>7 DEF ReloadAccount
  <2>2. CASE StartSession(r, req[r].user)
    <3>1. /\ req'[r].token = req[r].token /\ req'[r].user = req[r].user
          /\ \A q \in Requests \ {r} : req'[q] = req[q]
        BY <1>a, <2>2, Started
    <3>2. \A q \in Requests : Carrying(q)' =>
              Carrying(q) /\ req'[q].token = req[q].token /\ req'[q].user = req[q].user
        BY <2>1, <3>1 DEF Carrying
    <3> QED BY <2>1, <3>2, ChainKept
  <2> QED BY <1>2, <1>7, <2>1, <2>2 DEF ReloadAccount
<1>8. ASSUME NEW r \in Requests, NEW n \in Tokens, InsertToken(r, n)
      PROVE  ChainOK'
  <2> DEFINE tok == req[r].token
             root == IF tok = NoToken THEN n ELSE family[tok]
  <2>1. /\ stored' = stored \cup {n} /\ row'[n].user = req[r].user /\ family'[n] = root
        /\ \A t \in Tokens \ {n} : row'[t] = row[t] /\ family'[t] = family[t]
        /\ \A t \in Tokens : family[t] # n
        /\ \A q \in Requests : req[q].token # n
        /\ req'[r].pc = "session" /\ \A q \in Requests \ {r} : req'[q] = req[q]
        /\ n \notin stored
      BY <1>8, Inserted
  <2>2. req[r].pc = "insert"
      BY <1>8 DEF InsertToken
  <2>3. \A t \in stored : t \in Tokens /\ row'[t] = row[t] /\ family'[t] = family[t]
      BY <1>a, <2>1
  <2>4. \A q \in Requests : Carrying(q)' =>
            /\ Carrying(q) /\ q # r /\ req'[q] = req[q] /\ req[q].token \in Tokens
            /\ family'[req'[q].token] = family[req[q].token]
    <3>1. \A q \in Requests : req[q].token \in Tokens \cup {NoToken}
        BY <1>a DEF TypeOK, Request
    <3> QED BY <2>1, <3>1 DEF Carrying
\* The new token's family is the renewed one's, or nobody's.
  <2>5. \A t \in stored : family[t] = root => row[t].user = req[r].user
    <3>1. CASE tok = NoToken
        BY <2>1, <2>3, <3>1
    <3>2. CASE tok # NoToken
        BY <2>2, <3>2 DEF ChainOK, CarriedOK, Carrying
    <3> QED BY <3>1, <3>2
  <2>6. \A q \in Requests : Carrying(q)' /\ family[req[q].token] = root =>
            req[q].user = req[r].user
    <3>1. CASE tok = NoToken
        BY <2>1, <2>4, <3>1
    <3>2. CASE tok # NoToken
        BY <2>2, <2>4, <3>2 DEF ChainOK, CarriedOK, Carrying
    <3> QED BY <3>1, <3>2
  <2> HIDE DEF root
  <2>7. ChainKeepsOwner'
      BY <2>1, <2>3, <2>5 DEF ChainOK, ChainKeepsOwner
  <2>8. ASSUME NEW q \in Requests, NEW t \in stored', Carrying(q)',
               family'[t] = family'[req'[q].token]
        PROVE  row'[t].user = req'[q].user
    <3>1. CASE t = n
        BY <2>1, <2>4, <2>6, <2>8, <3>1
    <3>2. CASE t # n
        BY <2>1, <2>3, <2>4, <2>8, <3>2 DEF ChainOK, CarriedOK
    <3> QED BY <3>1, <3>2
  <2>9. ASSUME NEW p \in Requests, NEW q \in Requests, Carrying(p)', Carrying(q)',
               family'[req'[p].token] = family'[req'[q].token]
        PROVE  req'[p].user = req'[q].user
      BY <2>4, <2>9 DEF ChainOK, CarriedOK
  <2>10. CarriedOK'
      BY <2>8, <2>9 DEF CarriedOK
  <2> QED BY <2>7, <2>10 DEF ChainOK
<1>9. ASSUME NEW r \in Requests, Answer(r) \/ Drop(r)
      PROVE  ChainOK'
  <2>1. UNCHANGED <<family, stored, row>> /\ req' = [req EXCEPT ![r] = Idle]
      BY <1>9 DEF Answer, Drop
  <2>2. ~Carrying(r)' /\ \A q \in Requests \ {r} : req'[q] = req[q]
      BY <1>a, <2>1 DEF TypeOK, Idle, Carrying
  <2> QED BY <1>b, <2>1, <2>2
<1>10. ASSUME NEW u \in Users, DeleteAccount(u)
       PROVE  ChainOK'
  <2>1. UNCHANGED <<req, family>> /\ stored' \subseteq stored /\ \A t \in stored' : row'[t] = row[t]
      BY <1>10, <1>a DEF DeleteAccount
  <2> QED BY <2>1, ChainKept DEF Carrying
<1>11. CASE Tick \/ UNCHANGED vars
  <2>1. UNCHANGED <<req, family, stored, row>>
      BY <1>11 DEF Tick, vars
  <2> QED BY <2>1, ChainKept DEF Carrying
<1> QED
    BY <1>1, <1>3, <1>4, <1>5, <1>6, <1>7, <1>8, <1>9, <1>10, <1>11
       DEF Next, BeginLogin, BeginRefresh, BeginLogout

LEMMA ChainInitially == Init => ChainOK
BY DEF Init, Idle, ChainOK, ChainKeepsOwner, CarriedOK, Carrying

\* A renewal, however it interleaves with others and with the end of the account, never moves a
\* session to another account.
THEOREM RenewalsKeepTheOwner == Spec => []ChainKeepsOwner
<1>1. ChainOK => ChainKeepsOwner
    BY DEF ChainOK
<1> QED BY <1>1, ChainInitially, InvInitially, InvPreserved, ChainPreserved, PTL DEF Spec

-----------------------------------------------------------------------------
(* Whose cookies are whose *)

\* Two browsers never hold or present the same token.
KeptApart ==
    /\ \A b, c \in Browsers : jar[b] = jar[c] /\ jar[b] # NoToken => b = c
    /\ \A r \in Requests, b \in Browsers :
          req[r].token = jar[b] /\ jar[b] # NoToken => req[r].browser = b
    /\ \A q, r \in Requests :
          req[q].token = req[r].token /\ req[q].token # NoToken => req[q].browser = req[r].browser

\* Everything but arrivals, answers and InsertToken.
LEMMA ApartKept ==
    ASSUME KeptApart, UNCHANGED jar,
           \A q \in Requests : \/ req'[q].token = NoToken
                               \/ req'[q].token = req[q].token /\ req'[q].browser = req[q].browser
    PROVE  KeptApart'
<1>1. ASSUME NEW r \in Requests, NEW b \in Browsers, req'[r].token = jar'[b], jar'[b] # NoToken
      PROVE  req'[r].browser = b
    BY <1>1 DEF KeptApart
<1>2. ASSUME NEW q \in Requests, NEW r \in Requests, req'[q].token = req'[r].token,
             req'[q].token # NoToken
      PROVE  req'[q].browser = req'[r].browser
    BY <1>2 DEF KeptApart
<1> QED BY <1>1, <1>2 DEF KeptApart

LEMMA ApartPreserved == Inv /\ KeptApart /\ [Next]_vars => KeptApart'
<1> SUFFICES ASSUME Inv, KeptApart, [Next]_vars PROVE KeptApart'
    OBVIOUS
<1>a. TypeOK
    BY DEF Inv
<1>1. ASSUME NEW r \in Requests, NEW b \in Browsers, NEW pc, NEW t \in {NoToken, jar[b]}, NEW u,
             NEW now, Arrive(r, b, pc, t, u, now)
      PROVE  KeptApart'
  <2>1. /\ req'[r].token = t /\ req'[r].browser = b
        /\ \A q \in Requests \ {r} : req'[q] = req[q]
      BY <1>1, <1>a, Arrived
  <2>2. UNCHANGED jar
      BY <1>1 DEF Arrive
  <2> QED BY <2>1, <2>2 DEF KeptApart
<1>2. ASSUME NEW r \in Requests, NEW a, Reply(r, a, NoToken), UNCHANGED jar
      PROVE  KeptApart'
    BY <1>2, <1>a, Replied, ApartKept
<1>3. ASSUME NEW r \in Requests, UNCHANGED jar, req'[r].token = req[r].token,
             req'[r].browser = req[r].browser, \A q \in Requests \ {r} : req'[q] = req[q]
      PROVE  KeptApart'
    BY <1>3, ApartKept
<1>4. ASSUME NEW r \in Requests, FindAccount(r) \/ ReloadAccount(r)
      PROVE  KeptApart'
  <2>1. UNCHANGED jar /\ (Reply(r, "refused", NoToken) \/ StartSession(r, req[r].user))
      BY <1>4 DEF FindAccount, ReloadAccount
  <2>2. CASE StartSession(r, req[r].user)
      BY <1>3, <1>a, <2>1, <2>2, Started
  <2> QED BY <1>2, <2>1, <2>2
<1>5. ASSUME NEW r \in Requests, FindToken(r)
      PROVE  KeptApart'
  <2>1. UNCHANGED jar
      BY <1>5 DEF FindToken
  <2>2. CASE ~Reply(r, "refused", NoToken)
    <3>1. /\ req'[r].token = req[r].token /\ req'[r].browser = req[r].browser
          /\ \A q \in Requests \ {r} : req'[q] = req[q]
        BY <1>5, <1>a, <2>2, Found
    <3> QED BY <1>3, <2>1, <3>1
  <2> QED BY <1>2, <2>1, <2>2
<1>6. ASSUME NEW r \in Requests, RevokeAll(r) \/ LogOut(r)
      PROVE  KeptApart'
    BY <1>2, <1>6 DEF RevokeAll, LogOut
<1>7. ASSUME NEW r \in Requests, Rotate(r)
      PROVE  KeptApart'
  <2>1. UNCHANGED jar /\ (Reply(r, "refused", NoToken) \/ Goto(r, "reloadAccount"))
      BY <1>7 DEF Rotate
  <2>2. CASE Goto(r, "reloadAccount")
    <3>1. /\ req'[r].token = req[r].token /\ req'[r].browser = req[r].browser
          /\ \A q \in Requests \ {r} : req'[q] = req[q]
        BY <1>a, <2>2 DEF Goto, TypeOK, Request
    <3> QED BY <1>3, <2>1, <3>1
  <2> QED BY <1>2, <2>1, <2>2
<1>8. ASSUME NEW r \in Requests, NEW n \in Tokens, InsertToken(r, n)
      PROVE  KeptApart'
  <2>1. UNCHANGED jar
      BY <1>8 DEF InsertToken
  <2>2. /\ \A q \in Requests : req[q].token # n
        /\ \A b \in Browsers : jar[b] # n
        /\ req'[r].token = n /\ \A q \in Requests \ {r} : req'[q] = req[q]
      BY <1>8, Inserted
  <2> QED BY <2>1, <2>2 DEF KeptApart
<1>9. ASSUME NEW r \in Requests, Answer(r)
      PROVE  KeptApart'
  <2> DEFINE b == req[r].browser
  <2>1. req'[r].token = NoToken /\ \A q \in Requests \ {r} : req'[q] = req[q]
      BY <1>9, <1>a DEF Answer, TypeOK, Idle
  <2>2. /\ jar'[b] \in {req[r].token, NoToken, jar[b]}
        /\ \A c \in Browsers \ {b} : jar'[c] = jar[c]
    <3>1. b \in Browsers
        BY <1>9, <1>a DEF Answer, Answers, TypeOK, Idle
    <3> QED BY <1>9, <1>a, <3>1 DEF Answer, Answers, TypeOK
  <2>3. ASSUME NEW c \in Browsers, NEW d \in Browsers, jar'[c] = jar'[d], jar'[c] # NoToken
        PROVE  c = d
      BY <2>2, <2>3 DEF KeptApart
  <2>4. ASSUME NEW q \in Requests, NEW c \in Browsers, req'[q].token = jar'[c], jar'[c] # NoToken
        PROVE  req'[q].browser = c
      BY <2>1, <2>2, <2>4 DEF KeptApart
  <2>5. ASSUME NEW p \in Requests, NEW q \in Requests, req'[p].token = req'[q].token,
               req'[p].token # NoToken
        PROVE  req'[p].browser = req'[q].browser
      BY <2>1, <2>5 DEF KeptApart
  <2> QED BY <2>3, <2>4, <2>5 DEF KeptApart
<1>10. ASSUME NEW r \in Requests, Drop(r)
       PROVE  KeptApart'
    BY <1>10, <1>a, ApartKept DEF Drop, TypeOK, Idle
<1>11. CASE UNCHANGED <<jar, req>>
    BY <1>11, ApartKept
<1> QED
    BY <1>1, <1>4, <1>5, <1>6, <1>7, <1>8, <1>9, <1>10, <1>11
       DEF Next, BeginLogin, BeginRefresh, BeginLogout, DeleteAccount, Tick, vars

-----------------------------------------------------------------------------
(* Who sets off reuse detection *)

Retired(t) == t \in stored /\ row[t].reason = "ROTATED"

Presenting == {"findToken", "rotate", "reloadAccount", "insert", "logOut"}

\* A token is on its way to replace a retired cookie.
Replacing(r, b) == Renewing(r) \/ (req[r].pc = "session" /\ req[r].token # jar[b])

\* A browser with one request at a time, which presents its cookie, holds a retired one only
\* while the answer with the next is on its way.
Calm(b) ==
    /\ \A q, r \in Requests : req[q].browser = b /\ req[r].browser = b => q = r
    /\ Retired(jar[b]) => \E r \in Requests : req[r].browser = b /\ Replacing(r, b)
    /\ \A r \in Requests : req[r].browser = b =>
          /\ req[r].pc \in Presenting => req[r].token \in {jar[b], NoToken}
          /\ req[r].pc = "session" => ~Retired(req[r].token)
          /\ req[r].pc # "revokeAll"

Undisturbed == \A b \in Browsers \ disturbed : Calm(b)

\* The one request of a calm browser.
LEMMA CalmRequest ==
    ASSUME NEW b \in Browsers, Calm(b), NEW r \in Requests, req[r].browser = b
    PROVE  /\ Retired(jar[b]) => Replacing(r, b)
           /\ req[r].pc \in Presenting => req[r].token \in {jar[b], NoToken}
           /\ req[r].pc = "session" => ~Retired(req[r].token)
           /\ req[r].pc # "revokeAll"
           /\ \A q \in Requests \ {r} : req[q].browser # b
BY DEF Calm

\* A step of one request, by which at most its own token is retired, disturbs no other browser.
LEMMA OthersCalm ==
    ASSUME KeptApart, TypeOK', NEW r \in Requests, NEW b \in Browsers, Calm(b), jar'[b] = jar[b],
           req[r].browser # b, req'[r].browser # b, \A q \in Requests \ {r} : req'[q] = req[q],
           \A t \in stored' : Retired(t)' => Retired(t) \/ t = req[r].token
    PROVE  Calm(b)'
<1>1. NoToken \notin stored'
    BY SessionConstants DEF TypeOK
<1>2. Retired(jar[b])' => Retired(jar[b])
    BY <1>1 DEF KeptApart, Retired
<1>3. \A q \in Requests : req'[q].browser = b => q # r /\ req'[q] = req[q] /\ req[q].browser = b
    OBVIOUS
<1>4. \A q \in Requests : req'[q].browser = b /\ Retired(req[q].token)' => Retired(req[q].token)
    BY <1>1, <1>3 DEF KeptApart, Retired
<1>5. Retired(jar[b])' => \E q \in Requests : req'[q].browser = b /\ Replacing(q, b)'
  <2>1. SUFFICES ASSUME Retired(jar[b])'
                 PROVE  \E q \in Requests : req'[q].browser = b /\ Replacing(q, b)'
      OBVIOUS
  <2>2. PICK q \in Requests : req[q].browser = b /\ Replacing(q, b)
      BY <1>2, <2>1 DEF Calm
  <2>3. req'[q] = req[q]
      BY <2>2
  <2> QED BY <2>2, <2>3 DEF Replacing, Renewing
<1>6. \A q \in Requests : req'[q].browser = b =>
          /\ req'[q].pc \in Presenting => req'[q].token \in {jar'[b], NoToken}
          /\ req'[q].pc = "session" => ~Retired(req[q].token)'
          /\ req'[q].pc # "revokeAll"
    BY <1>3, <1>4 DEF Calm
<1>7. \A p, q \in Requests : req'[p].browser = b /\ req'[q].browser = b => p = q
    BY <1>3 DEF Calm
<1> QED BY <1>5, <1>6, <1>7 DEF Calm

\* The browser of a request stays calm if the request does what follows.
LEMMA AloneCalm ==
    ASSUME NEW b \in Browsers, NEW r \in Requests,
           \A q \in Requests \ {r} : req'[q].browser # b,
           Retired(jar[b])' => req'[r].browser = b /\ Replacing(r, b)',
           req'[r].browser = b =>
               /\ req'[r].pc \in Presenting => req'[r].token \in {jar'[b], NoToken}
               /\ req'[r].pc = "session" => ~Retired(req[r].token)'
               /\ req'[r].pc # "revokeAll"
    PROVE  Calm(b)'
<1>1. Retired(jar[b])' => \E q \in Requests : req'[q].browser = b /\ Replacing(q, b)'
    OBVIOUS
<1>2. \A q \in Requests : req'[q].browser = b =>
          /\ req'[q].pc \in Presenting => req'[q].token \in {jar'[b], NoToken}
          /\ req'[q].pc = "session" => ~Retired(req[q].token)'
          /\ req'[q].pc # "revokeAll"
    OBVIOUS
<1> QED BY <1>1, <1>2 DEF Calm

\* The two together, for a statement of a handler.
LEMMA MoveCalm ==
    ASSUME TypeOK', KeptApart, Undisturbed, UNCHANGED <<jar, disturbed>>,
           NEW r \in Requests, NEW c, req[r].browser = c, req'[r].browser = c,
           \A q \in Requests \ {r} : req'[q] = req[q],
           \A t \in stored' : Retired(t)' => Retired(t) \/ t = req[r].token,
           ASSUME c \in Browsers, Calm(c)
           PROVE  /\ Retired(jar[c])' => Replacing(r, c)'
                  /\ req'[r].pc \in Presenting => req'[r].token \in {jar[c], NoToken}
                  /\ req'[r].pc = "session" => ~Retired(req[r].token)'
                  /\ req'[r].pc # "revokeAll"
    PROVE  Undisturbed'
<1>1. SUFFICES ASSUME NEW b \in Browsers \ disturbed PROVE Calm(b)'
    BY DEF Undisturbed
<1>2. Calm(b)
    BY DEF Undisturbed
<1>3. CASE b # c
    BY <1>2, <1>3, OthersCalm
<1>4. CASE b = c
  <2>1. \A q \in Requests \ {r} : req'[q].browser # b
      BY <1>2, <1>4, CalmRequest
  <2> QED BY <1>2, <1>4, <2>1, AloneCalm
<1> QED BY <1>3, <1>4

LEMMA CalmPreserved ==
    ASSUME Inv, Inv', KeptApart, ReuseOK, ChainOK, Undisturbed, [Next]_vars
    PROVE  Undisturbed'
<1>a. TypeOK /\ TypeOK' /\ LoginOK
    BY DEF Inv
<1>b. NoToken \notin stored
    BY <1>a, SessionConstants DEF TypeOK
<1>c. \A r \in Requests : req[r].pc # "idle" => req[r].browser \in Browsers
    BY <1>a DEF TypeOK, Idle
\* A refusal reaches a browser whose cookie is not retired.
<1>d. ASSUME NEW r \in Requests, NEW a \in {"refused", "cleared"}, Reply(r, a, NoToken),
             UNCHANGED <<jar, disturbed, stored>>,
             \A t \in stored : Retired(t)' => Retired(t),
             NEW c, c = req[r].browser,
             c \in Browsers /\ Calm(c) => ~Retired(jar[c])
      PROVE  Undisturbed'
  <2>1. /\ req'[r].pc = a /\ req'[r].browser = c
        /\ \A q \in Requests \ {r} : req'[q] = req[q]
      BY <1>a, <1>d, Replied
  <2>2. ASSUME c \in Browsers, Calm(c)
        PROVE  ~Retired(jar[c])'
      BY <1>d, <2>2 DEF Retired
  <2>3. a \notin Presenting /\ a # "session" /\ a # "revokeAll"
      BY DEF Presenting
  <2> QED BY <1>a, <1>d, <2>1, <2>2, <2>3, MoveCalm
\* A handler moves on without retiring anything.
<1>e. ASSUME NEW r \in Requests, NEW c, req[r].browser = c, req'[r].browser = c,
             UNCHANGED <<jar, disturbed, stored, row>>,
             \A q \in Requests \ {r} : req'[q] = req[q],
             req'[r].token = req[r].token, req'[r].pc \notin {"session", "revokeAll"},
             Renewing(r) => Renewing(r)',
             req[r].pc # "session",
             req[r].pc \in Presenting \/ req[r].token = NoToken
      PROVE  Undisturbed'
  <2>1. ASSUME c \in Browsers, Calm(c)
        PROVE  /\ Retired(jar[c])' => Replacing(r, c)'
               /\ req'[r].token \in {jar[c], NoToken}
    <3>1. Retired(jar[c]) => Replacing(r, c)
        BY <1>e, <2>1, CalmRequest
    <3>2. req[r].pc \in Presenting => req[r].token \in {jar[c], NoToken}
        BY <1>e, <2>1, CalmRequest
    <3> QED BY <1>e, <3>1, <3>2 DEF Retired, Replacing
  <2>2. \A t \in stored' : Retired(t)' => Retired(t) \/ t = req[r].token
      BY <1>e DEF Retired
  <2> QED BY <1>a, <1>e, <2>1, <2>2, MoveCalm
<1>1. ASSUME NEW r \in Requests, NEW b \in Browsers, NEW pc, NEW t \in {NoToken, jar[b]}, NEW u,
             NEW now, Arrive(r, b, pc, t, u, now), pc \notin {"session", "revokeAll"}
      PROVE  Undisturbed'
  <2>1. /\ req'[r].pc = pc /\ req'[r].token = t /\ req'[r].browser = b
        /\ \A q \in Requests \ {r} : req'[q] = req[q]
      BY <1>1, <1>a, Arrived
  <2>2. /\ UNCHANGED <<stored, row, jar>> /\ disturbed \subseteq disturbed'
        /\ b \notin disturbed' => b \notin disturbed /\ \A q \in Requests : req[q].browser # b
        /\ req[r].browser = NoBrowser
      BY <1>1, <1>a DEF Arrive, Busy, Idle
  <2>3. \A x \in stored' : Retired(x)' => Retired(x)
      BY <2>2 DEF Retired
  <2>4. ASSUME NEW c \in Browsers \ disturbed'
        PROVE  Calm(c)'
    <3>1. Calm(c)
        BY <2>2, <2>4 DEF Undisturbed
    <3>2. CASE c # b
        BY <1>a, <2>1, <2>2, <2>3, <3>1, <3>2, OthersCalm, SessionConstants
    <3>3. CASE c = b
      <4>1. ~Retired(jar[c])'
        <5>1. ~Retired(jar[c])
            BY <2>2, <2>4, <3>1, <3>3 DEF Calm
        <5> QED BY <2>2, <5>1 DEF Retired
      <4>2. \A q \in Requests \ {r} : req'[q].browser # c
          BY <2>1, <2>2, <2>4, <3>3
      <4> QED BY <1>1, <2>1, <2>2, <3>3, <4>1, <4>2, AloneCalm
    <3> QED BY <3>2, <3>3
  <2> QED BY <2>4 DEF Undisturbed
<1>2. ASSUME NEW r \in Requests, FindAccount(r)
      PROVE  Undisturbed'
  <2> DEFINE c == req[r].browser
  <2>1. UNCHANGED <<jar, disturbed, stored, row>> /\ req[r].pc = "findAccount" /\ req[r].token = NoToken
      BY <1>2, <1>a DEF FindAccount, LoginOK
  <2>2. CASE Reply(r, "refused", NoToken)
    <3>1. ASSUME c \in Browsers, Calm(c)
          PROVE  ~Retired(jar[c])
      <4>1. Retired(jar[c]) => Replacing(r, c)
          BY <3>1, CalmRequest
      <4> QED BY <2>1, <4>1 DEF Replacing, Renewing
    <3>2. \A t \in stored : Retired(t)' => Retired(t)
        BY <2>1 DEF Retired
    <3> QED BY <1>d, <2>1, <2>2, <3>1, <3>2
  <2>3. CASE StartSession(r, req[r].user)
    <3>1. /\ req'[r].pc = "insert" /\ req'[r].token = req[r].token /\ req'[r].browser = c
          /\ \A q \in Requests \ {r} : req'[q] = req[q]
        BY <1>a, <2>3, Started
    <3>2. Renewing(r) => Renewing(r)'
        BY <2>1 DEF Renewing
    <3> QED BY <1>e, <2>1, <3>1, <3>2
  <2> QED BY <1>2, <2>2, <2>3 DEF FindAccount
<1>3. ASSUME NEW r \in Requests, FindToken(r)
      PROVE  Undisturbed'
  <2> DEFINE c == req[r].browser
  <2>1. UNCHANGED <<jar, disturbed, stored, row>> /\ req[r].pc = "findToken"
      BY <1>3 DEF FindToken
  <2>2. ASSUME c \in Browsers, Calm(c)
        PROVE  ~Retired(jar[c]) /\ req[r].token \in {jar[c], NoToken}
    <3>1. /\ Retired(jar[c]) => Replacing(r, c)
          /\ req[r].pc \in Presenting => req[r].token \in {jar[c], NoToken}
        BY <2>2, CalmRequest
    <3> QED BY <2>1, <3>1 DEF Replacing, Renewing, Presenting
  <2>3. \A t \in stored : Retired(t)' => Retired(t)
      BY <2>1 DEF Retired
  <2>4. CASE Reply(r, "refused", NoToken)
      BY <1>d, <2>1, <2>2, <2>3, <2>4
  <2>5. CASE ~Reply(r, "refused", NoToken)
    <3>1. /\ req[r].token \in stored /\ req'[r].token = req[r].token /\ req'[r].browser = c
          /\ \/ req'[r].pc = "revokeAll" /\ row[req[r].token].reason = "ROTATED"
             \/ req'[r].pc = "rotate"
          /\ \A q \in Requests \ {r} : req'[q] = req[q]
        BY <1>3, <1>a, <2>5, Found
    <3>2. ASSUME c \in Browsers, Calm(c)
          PROVE  /\ ~Retired(jar[c])' /\ req'[r].token \in {jar[c], NoToken}
                 /\ req'[r].pc = "rotate"
      <4>1. ~Retired(jar[c]) /\ req[r].token = jar[c]
          BY <1>b, <2>2, <3>1, <3>2
      <4> QED BY <2>1, <3>1, <4>1 DEF Retired
    <3> QED BY <1>a, <2>1, <2>3, <3>1, <3>2, MoveCalm
  <2> QED BY <2>4, <2>5
<1>4. ASSUME NEW r \in Requests, RevokeAll(r) \/ LogOut(r)
      PROVE  Undisturbed'
  <2> DEFINE c == req[r].browser
  <2>1. PICK a \in {"refused", "cleared"} : Reply(r, a, NoToken)
      BY <1>4 DEF RevokeAll, LogOut
  <2>2. UNCHANGED <<jar, disturbed, stored>> /\ req[r].pc \in {"revokeAll", "logOut"}
      BY <1>4 DEF RevokeAll, LogOut
  <2>3. \A t \in stored : Retired(t)' => Retired(t)
    <3>1. \A t \in Tokens : row'[t].reason = "ROTATED" => row'[t] = row[t]
        BY <1>4, <1>a, Swept
    <3> QED BY <1>a, <3>1 DEF Retired, TypeOK
  <2>4. ASSUME c \in Browsers, Calm(c)
        PROVE  ~Retired(jar[c])
    <3>1. Retired(jar[c]) => Replacing(r, c)
        BY <2>4, CalmRequest
    <3> QED BY <2>2, <3>1 DEF Replacing, Renewing
  <2> QED BY <1>d, <2>1, <2>2, <2>3, <2>4
<1>5. ASSUME NEW r \in Requests, Rotate(r)
      PROVE  Undisturbed'
  <2> DEFINE c == req[r].browser
             tok == req[r].token
  <2>1. /\ UNCHANGED <<jar, disturbed, stored>> /\ req[r].pc = "rotate"
        /\ Revoke({tok}, req[r].now, "ROTATED")
      BY <1>5 DEF Rotate
  <2>2. \A t \in Tokens : row'[t] = row[t] \/ (t = tok /\ Live(tok))
      BY <1>a, <2>1, Revoked
  <2>3. ASSUME c \in Browsers, Calm(c)
        PROVE  ~Retired(jar[c]) /\ tok \in {jar[c], NoToken}
    <3>1. /\ Retired(jar[c]) => Replacing(r, c)
          /\ req[r].pc \in Presenting => req[r].token \in {jar[c], NoToken}
        BY <2>3, CalmRequest
    <3> QED BY <2>1, <3>1 DEF Replacing, Renewing, Presenting
  <2>4. CASE Live(tok)
    <3>1. /\ req'[r].pc = "reloadAccount" /\ req'[r].token = tok /\ req'[r].browser = c
          /\ \A q \in Requests \ {r} : req'[q] = req[q]
        BY <1>5, <1>a, <2>4 DEF Rotate, Goto, TypeOK, Request
    <3>2. Renewing(r)'
        BY <1>b, <2>4, <3>1 DEF Renewing, Live
    <3>3. \A t \in stored' : Retired(t)' => Retired(t) \/ t = tok
        BY <1>a, <2>1, <2>2 DEF Retired, TypeOK
    <3> QED BY <1>a, <2>1, <2>3, <3>1, <3>2, <3>3, MoveCalm DEF Replacing
  <2>5. CASE ~Live(tok)
    <3>1. Reply(r, "refused", NoToken)
        BY <1>5, <2>5 DEF Rotate
    <3>2. \A t \in stored : Retired(t)' => Retired(t)
        BY <1>a, <2>2, <2>5 DEF Retired, TypeOK
    <3> QED BY <1>d, <2>1, <2>3, <3>1, <3>2
  <2> QED BY <2>4, <2>5
<1>6. ASSUME NEW r \in Requests, ReloadAccount(r)
      PROVE  Undisturbed'
  <2> DEFINE c == req[r].browser
             tok == req[r].token
  <2>1. UNCHANGED <<jar, disturbed, stored, row>> /\ req[r].pc = "reloadAccount"
      BY <1>6 DEF ReloadAccount
  <2>2. CASE req[r].user \notin accounts
\* A deleted account leaves no row to be retired.
    <3>1. ASSUME c \in Browsers, Calm(c)
          PROVE  ~Retired(jar[c])
      <4>1. SUFFICES ASSUME Retired(jar[c]) PROVE FALSE
          OBVIOUS
      <4>2. Replacing(r, c) /\ tok \in {jar[c], NoToken}
          BY <2>1, <3>1, <4>1, CalmRequest DEF Presenting
      <4>3. tok # NoToken /\ tok = jar[c] /\ tok \in stored
          BY <2>1, <4>1, <4>2 DEF Replacing, Renewing, Retired
      <4>4. row[tok].user = req[r].user
          BY <2>1, <4>3 DEF ChainOK, CarriedOK, Carrying
      <4> QED BY <2>2, <4>3, <4>4 DEF ReuseOK, OwnersOK
    <3>2. \A t \in stored : Retired(t)' => Retired(t)
        BY <2>1 DEF Retired
    <3>3. Reply(r, "refused", NoToken)
        BY <1>6, <2>2 DEF ReloadAccount
    <3> QED BY <1>d, <2>1, <3>1, <3>2, <3>3
  <2>3. CASE req[r].user \in accounts
    <3>1. StartSession(r, req[r].user)
        BY <1>6, <2>3 DEF ReloadAccount
    <3>2. /\ req'[r].pc = "insert" /\ req'[r].token = tok /\ req'[r].browser = c
          /\ \A q \in Requests \ {r} : req'[q] = req[q]
        BY <1>a, <3>1, Started
    <3>3. Renewing(r) => Renewing(r)'
        BY <3>2 DEF Renewing
    <3> QED BY <1>e, <2>1, <3>2, <3>3 DEF Presenting
  <2> QED BY <2>2, <2>3
<1>7. ASSUME NEW r \in Requests, NEW n \in Tokens, InsertToken(r, n)
      PROVE  Undisturbed'
  <2> DEFINE c == req[r].browser
  <2>1. UNCHANGED <<jar, disturbed>>
      BY <1>7 DEF InsertToken
  <2>2. /\ stored' = stored \cup {n} /\ row'[n].reason = "NONE"
        /\ \A t \in Tokens \ {n} : row'[t] = row[t]
        /\ \A b \in Browsers : jar[b] # n
        /\ req'[r].pc = "session" /\ req'[r].token = n /\ req'[r].browser = c
        /\ \A q \in Requests \ {r} : req'[q] = req[q]
      BY <1>7, Inserted
  <2>3. \A t \in stored' : Retired(t)' => Retired(t) \/ t = req[r].token
      BY <1>a, <2>2 DEF Retired, TypeOK
  <2>4. ~Retired(req[r].token)'
      BY <2>2 DEF Retired
  <2>5. ASSUME c \in Browsers
        PROVE  Replacing(r, c)'
      BY <2>1, <2>2, <2>5 DEF Replacing
  <2>6. "session" \notin Presenting
      BY DEF Presenting
  <2> QED BY <1>a, <2>1, <2>2, <2>3, <2>4, <2>5, <2>6, MoveCalm
<1>8. ASSUME NEW r \in Requests, Answer(r)
      PROVE  Undisturbed'
  <2> DEFINE c == req[r].browser
  <2>1. /\ UNCHANGED <<stored, row, disturbed>> /\ req[r].pc \in Answers
        /\ req'[r] = Idle /\ \A q \in Requests \ {r} : req'[q] = req[q]
      BY <1>8, <1>a DEF Answer, TypeOK
  <2>2. c \in Browsers
      BY <1>c, <2>1 DEF Answers
  <2>3. /\ \A b \in Browsers \ {c} : jar'[b] = jar[b]
        /\ jar'[c] = CASE req[r].pc = "session" -> req[r].token
                       [] req[r].pc = "cleared" -> NoToken
                       [] req[r].pc = "refused" -> jar[c]
      BY <1>8, <1>a, <2>2 DEF Answer, TypeOK
  <2>4. ASSUME NEW b \in Browsers \ disturbed'
        PROVE  Calm(b)'
    <3>1. Calm(b)
        BY <2>1, <2>4 DEF Undisturbed
    <3>2. req'[r].browser # b
        BY <2>1, SessionConstants DEF Idle
    <3>3. CASE b # c
      <4>1. \A t \in stored' : Retired(t)' => Retired(t) \/ t = req[r].token
          BY <2>1 DEF Retired
      <4> QED BY <1>a, <2>1, <2>3, <3>1, <3>2, <3>3, <4>1, OthersCalm
    <3>4. CASE b = c
      <4>1. /\ \A q \in Requests \ {r} : req[q].browser # b
            /\ Retired(jar[b]) => Replacing(r, b)
            /\ req[r].pc = "session" => ~Retired(req[r].token)
          BY <3>1, <3>4, CalmRequest
      <4>2. ~Retired(jar[b])'
        <5>1. CASE req[r].pc = "session"
          <6>1. jar'[b] = req[r].token
              BY <2>3, <3>4, <5>1
          <6> QED BY <2>1, <4>1, <5>1, <6>1 DEF Retired
        <5>2. CASE req[r].pc = "cleared"
          <6>1. jar'[b] = NoToken
              BY <2>3, <3>4, <5>2
          <6> QED BY <1>b, <2>1, <6>1 DEF Retired
        <5>3. CASE req[r].pc = "refused"
          <6>1. jar'[b] = jar[b]
              BY <2>3, <3>4, <5>3
          <6> QED BY <2>1, <4>1, <5>3, <6>1 DEF Retired, Replacing, Renewing
        <5> QED BY <2>1, <5>1, <5>2, <5>3 DEF Answers
      <4> QED BY <2>1, <3>2, <4>1, <4>2, AloneCalm
    <3> QED BY <3>3, <3>4
  <2> QED BY <2>4 DEF Undisturbed
<1>9. ASSUME NEW r \in Requests, Drop(r)
      PROVE  Undisturbed'
  <2>1. /\ UNCHANGED <<stored, row, jar>> /\ disturbed' = disturbed \cup {req[r].browser}
        /\ req'[r] = Idle /\ \A q \in Requests \ {r} : req'[q] = req[q]
      BY <1>9, <1>a DEF Drop, TypeOK
  <2>2. \A t \in stored' : Retired(t)' => Retired(t) \/ t = req[r].token
      BY <2>1 DEF Retired
  <2>3. ASSUME NEW b \in Browsers \ disturbed'
        PROVE  Calm(b)'
    <3>1. Calm(b) /\ req[r].browser # b /\ req'[r].browser # b
        BY <2>1, <2>3, SessionConstants DEF Undisturbed, Idle
    <3> QED BY <1>a, <2>1, <2>2, <3>1, OthersCalm
  <2> QED BY <2>3 DEF Undisturbed
<1>10. ASSUME UNCHANGED <<req, jar, disturbed>>, stored' \subseteq stored,
              \A t \in stored' : row'[t] = row[t]
       PROVE  Undisturbed'
  <2>1. ASSUME NEW b \in Browsers \ disturbed
        PROVE  Calm(b)'
      BY <1>10, <2>1 DEF Undisturbed, Calm, Retired, Replacing, Renewing
  <2> QED BY <1>10, <2>1 DEF Undisturbed
<1>11. ASSUME NEW u \in Users, DeleteAccount(u)
       PROVE  Undisturbed'
  <2>1. /\ UNCHANGED <<req, jar, disturbed>> /\ stored' \subseteq stored
        /\ \A t \in stored' : row'[t] = row[t]
      BY <1>11, <1>a DEF DeleteAccount, TypeOK
  <2> QED BY <1>10, <2>1
<1>12. CASE Tick \/ UNCHANGED vars
    BY <1>10, <1>12 DEF Tick, vars
<1>13. ASSUME NEW r \in Requests, NEW b \in Browsers,
              NEW pc \in {"findAccount", "refused", "findToken", "cleared", "logOut"},
              NEW t \in {NoToken, jar[b]}, NEW u, NEW now, Arrive(r, b, pc, t, u, now)
       PROVE  Undisturbed'
    BY <1>1, <1>13
<1>14. ASSUME NEW r \in Requests, NEW b \in Browsers, NEW u \in Users, BeginLogin(r, b, u)
       PROVE  Undisturbed'
  <2>1. Arrive(r, b, "findAccount", NoToken, u, 0)
      BY <1>14 DEF BeginLogin
  <2> QED BY <1>13, <2>1, Zenon
<1>15. ASSUME NEW r \in Requests, NEW b \in Browsers,
              BeginRefresh(r, b) \/ BeginLogout(r, b)
       PROVE  Undisturbed'
  <2>1. CASE jar[b] = NoToken
    <3>1. \/ Arrive(r, b, "refused", jar[b], NoUser, 0)
          \/ Arrive(r, b, "cleared", jar[b], NoUser, 0)
        BY <1>15, <2>1 DEF BeginRefresh, BeginLogout
    <3> QED BY <1>13, <3>1, Zenon
  <2>2. CASE jar[b] # NoToken
    <3>1. \/ Arrive(r, b, "findToken", jar[b], NoUser, clock)
          \/ Arrive(r, b, "logOut", jar[b], NoUser, 0)
        BY <1>15, <2>2 DEF BeginRefresh, BeginLogout
    <3> QED BY <1>13, <3>1, Zenon
  <2> QED BY <2>1, <2>2
<1> QED
    BY <1>2, <1>3, <1>4, <1>5, <1>6, <1>7, <1>8, <1>9, <1>11, <1>12, <1>14, <1>15 DEF Next

LEMMA CalmInitially == Init => KeptApart /\ Undisturbed
BY SessionConstants DEF Init, Idle, KeptApart, Undisturbed, Calm, Retired

\* Only a browser that sent two requests at once, or lost an answer, ever replays a rotated token:
\* no interleaving of other browsers' requests makes one that did neither end its account's
\* sessions.
THEOREM OnlyDisturbedBrowsersReplay == Spec => []OnlyDisturbedReplay
<1>1. Inv /\ Undisturbed => OnlyDisturbedReplay
  <2> SUFFICES ASSUME Inv, Undisturbed, NEW r \in Requests, req[r].pc = "revokeAll"
               PROVE  req[r].browser \in disturbed
      BY DEF OnlyDisturbedReplay
  <2>1. req[r].browser \in Browsers
      BY DEF Inv, TypeOK, Idle
  <2> QED BY <2>1 DEF Undisturbed, Calm
<1>2. Inv /\ KeptApart /\ ReuseOK /\ ChainOK /\ Undisturbed /\ [Next]_vars => Undisturbed'
    BY InvPreserved, CalmPreserved
<1> QED
    BY <1>1, <1>2, InvInitially, InvPreserved, ReuseInitially, ReusePreserved, ChainInitially,
       ChainPreserved, CalmInitially, ApartPreserved, PTL DEF Spec

=============================================================================
