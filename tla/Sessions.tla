------------------------------ MODULE Sessions ------------------------------
(***************************************************************************)
(* Signing in, staying signed in and signing out: src/services/auth.ts     *)
(* over src/repositories/users.ts, with the refresh cookie of              *)
(* src/routes/auth.ts.                                                     *)
(*                                                                         *)
(* A handler is a request that moves from one awaited statement to the     *)
(* next; each statement is one atomic step on the database and the steps   *)
(* of different requests interleave.  No statement pair is in a            *)
(* transaction, so a request may also stop after any of them.              *)
(***************************************************************************)
EXTENDS Integers, FiniteSets

CONSTANTS
    Users,       \* login accounts
    Tokens,      \* refresh tokens that randomBytes can still produce
    Requests,    \* slots for requests in flight
    Browsers,    \* each keeps one refresh cookie
    NoUser, NoToken, NoBrowser,
    Ttl,         \* refreshTokenTtlDays, in clock ticks
    MaxTime      \* bound on the clock

ASSUME SessionConstants ==
    /\ NoUser \notin Users
    /\ NoToken \notin Tokens
    /\ NoBrowser \notin Browsers
    /\ Ttl \in Nat \ {0}
    /\ MaxTime \in Nat

VARIABLES
    accounts,    \* rows of users
    stored,      \* tokens with a row in refresh_tokens
    row,         \* that row
    req,         \* the requests
    jar,         \* the cookie each browser holds
    clock,       \* deps.now()
    family,      \* history: the login a token descends from, itself for a login's own
    parent,      \* history: the token whose rotation produced this one
    disturbed    \* history: browsers that lost an answer or overlapped two requests

vars == <<accounts, stored, row, req, jar, clock, family, parent, disturbed>>

\* "NONE" is the NULL of revoked_reason.
Reasons == {"NONE", "ROTATED", "LOGGED_OUT", "REUSE_DETECTED"}

NeverRevoked == -1

Row == [user : Users \cup {NoUser}, expiresAt : Nat,
        revokedAt : Nat \cup {NeverRevoked}, reason : Reasons]

NoRow == [user |-> NoUser, expiresAt |-> 0, revokedAt |-> NeverRevoked, reason |-> "NONE"]

\* Where a request stands: the statement it runs next, or the answer it sends.
Steps == {"findAccount", "findToken", "revokeAll", "rotate", "reloadAccount",
          "insert", "logOut"}
Answers == {"session", "refused", "cleared"}

Request == [pc : {"idle"} \cup Steps \cup Answers, browser : Browsers \cup {NoBrowser},
            token : Tokens \cup {NoToken}, user : Users \cup {NoUser}, now : Nat]

Idle == [pc |-> "idle", browser |-> NoBrowser, token |-> NoToken,
         user |-> NoUser, now |-> 0]

Live(t) == t \in stored /\ row[t].reason = "NONE"

Issued == {t \in Tokens : family[t] # NoToken}

\* A refresh that has retired its token and not yet stored the next one.
Renewing(r) == req[r].pc \in {"reloadAccount", "insert"} /\ req[r].token # NoToken

Init ==
    /\ accounts = Users
    /\ stored = {}
    /\ row = [t \in Tokens |-> NoRow]
    /\ req = [r \in Requests |-> Idle]
    /\ jar = [b \in Browsers |-> NoToken]
    /\ clock = 0
    /\ family = [t \in Tokens |-> NoToken]
    /\ parent = [t \in Tokens |-> NoToken]
    /\ disturbed = {}

-----------------------------------------------------------------------------
(* Requests arriving and answers reaching the browser. *)

Busy(b) == \E r \in Requests : req[r].browser = b

Arrive(r, b, pc, t, u, now) ==
    /\ req[r] = Idle
    /\ req' = [req EXCEPT ![r] = [pc |-> pc, browser |-> b, token |-> t,
                                  user |-> u, now |-> now]]
    /\ disturbed' = IF Busy(b) THEN disturbed \cup {b} ELSE disturbed
    /\ UNCHANGED <<accounts, stored, row, jar, clock, family, parent>>

BeginLogin(r, b, u) == Arrive(r, b, "findAccount", NoToken, u, 0)

\* refresh() refuses a request without a cookie before it reaches the database.
BeginRefresh(r, b) ==
    Arrive(r, b, IF jar[b] = NoToken THEN "refused" ELSE "findToken", jar[b], NoUser,
           IF jar[b] = NoToken THEN 0 ELSE clock)

BeginLogout(r, b) ==
    Arrive(r, b, IF jar[b] = NoToken THEN "cleared" ELSE "logOut", jar[b], NoUser, 0)

\* Mutant of Answer: a renewal forgets Set-Cookie.
AnswerWithoutCookie(r) ==
    /\ req[r].pc \in Answers
    /\ jar' = [jar EXCEPT ![req[r].browser] =
                 IF req[r].pc = "session" /\ @ = NoToken THEN req[r].token
                 ELSE IF req[r].pc = "cleared" THEN NoToken ELSE @]
    /\ req' = [req EXCEPT ![r] = Idle]
    /\ UNCHANGED <<accounts, stored, row, clock, family, parent, disturbed>>

\* Set-Cookie on a session, clearCookie on a logout; a 401 leaves the cookie.
Answer(r) ==
    /\ req[r].pc \in Answers
    /\ jar' = [jar EXCEPT ![req[r].browser] =
                 CASE req[r].pc = "session" -> req[r].token
                   [] req[r].pc = "cleared" -> NoToken
                   [] req[r].pc = "refused" -> @]
    /\ req' = [req EXCEPT ![r] = Idle]
    /\ UNCHANGED <<accounts, stored, row, clock, family, parent, disturbed>>

\* A statement fails (the request answers 500), the process dies, or the answer
\* is lost on its way: what was written stays, and the cookie does not change.
Drop(r) ==
    /\ req[r] # Idle
    /\ req' = [req EXCEPT ![r] = Idle]
    /\ disturbed' = disturbed \cup {req[r].browser}
    /\ UNCHANGED <<accounts, stored, row, jar, clock, family, parent>>

-----------------------------------------------------------------------------
(* The statements of src/services/auth.ts. *)

Goto(r, pc) == req' = [req EXCEPT ![r].pc = pc]

\* The handler is done; only its answer is still to arrive.
Reply(r, answer, t) ==
    req' = [req EXCEPT ![r] = [Idle EXCEPT !.pc = answer, !.browser = req[r].browser,
                                           !.token = t]]

\* The first statement of startSession reads the clock again.
StartSession(r, u) ==
    req' = [req EXCEPT ![r].pc = "insert", ![r].user = u, ![r].now = clock]

\* login: unknown address and wrong password are refused alike.
FindAccount(r) ==
    /\ req[r].pc = "findAccount"
    /\ \/ req[r].user \in accounts /\ StartSession(r, req[r].user)
       \/ Reply(r, "refused", NoToken)
    /\ UNCHANGED <<accounts, stored, row, jar, clock, family, parent, disturbed>>

\* Mutants of AfterFind: a token is still good at the instant it expires; every
\* revoked token counts as a replay.
AfterFindInclusive(t, now) ==
    IF ~Live(t) THEN IF t \in stored /\ row[t].reason = "ROTATED" THEN "revokeAll" ELSE "refused"
    ELSE IF row[t].expiresAt < now THEN "refused" ELSE "rotate"

AfterFindAnyRevoked(t, now) ==
    IF t \notin stored THEN "refused"
    ELSE IF row[t].reason # "NONE" THEN "revokeAll"
    ELSE IF row[t].expiresAt <= now THEN "refused" ELSE "rotate"

\* What refresh decides on the row it read; req.now is the clock at its start.
AfterFind(t, now) ==
    CASE t \notin stored                -> "refused"
      [] t \in stored /\ row[t].reason = "ROTATED" -> "revokeAll"
      [] t \in stored /\ row[t].reason \in {"LOGGED_OUT", "REUSE_DETECTED"} -> "refused"
      [] Live(t) -> IF row[t].expiresAt <= now THEN "refused" ELSE "rotate"

FindToken(r) ==
    /\ req[r].pc = "findToken"
    /\ LET next == AfterFind(req[r].token, req[r].now) IN
          IF next = "refused" THEN Reply(r, "refused", NoToken)
          ELSE req' = [req EXCEPT ![r].pc = next, ![r].user = row[req[r].token].user]
    /\ UNCHANGED <<accounts, stored, row, jar, clock, family, parent, disturbed>>

\* Mutants of Revoke: without WHERE revoked_at IS NULL; without revoked_at.
RevokeAgain(S, at, why) ==
    row' = [t \in Tokens |->
              IF t \in S /\ t \in stored
              THEN [row[t] EXCEPT !.revokedAt = at, !.reason = why] ELSE row[t]]

RevokeUndated(S, at, why) ==
    row' = [t \in Tokens |->
              IF t \in S /\ Live(t) THEN [row[t] EXCEPT !.reason = why] ELSE row[t]]

\* UPDATE ... WHERE revoked_at IS NULL, over a set of tokens.
Revoke(S, at, why) ==
    row' = [t \in Tokens |->
              IF t \in S /\ Live(t) THEN [row[t] EXCEPT !.revokedAt = at, !.reason = why]
              ELSE row[t]]

TokensOf(u) == {t \in stored : row[t].user = u}

RevokeAll(r) ==
    /\ req[r].pc = "revokeAll"
    /\ Revoke(TokensOf(req[r].user), req[r].now, "REUSE_DETECTED")
    /\ Reply(r, "refused", NoToken)
    /\ UNCHANGED <<accounts, stored, jar, clock, family, parent, disturbed>>

\* Mutant of Rotate: the result of the UPDATE is not looked at.
RotateUnchecked(r) ==
    /\ req[r].pc = "rotate"
    /\ Revoke({req[r].token}, req[r].now, "ROTATED")
    /\ Goto(r, "reloadAccount")
    /\ UNCHANGED <<accounts, stored, jar, clock, family, parent, disturbed>>

\* The UPDATE that decides which of two refreshes goes on.
Rotate(r) ==
    /\ req[r].pc = "rotate"
    /\ Revoke({req[r].token}, req[r].now, "ROTATED")
    /\ IF Live(req[r].token) THEN Goto(r, "reloadAccount") ELSE Reply(r, "refused", NoToken)
    /\ UNCHANGED <<accounts, stored, jar, clock, family, parent, disturbed>>

\* Mutant of ReloadAccount: the account is read without its WHERE.
ReloadAnyAccount(r) ==
    /\ req[r].pc = "reloadAccount"
    /\ IF accounts # {} THEN \E u \in accounts : StartSession(r, u)
                        ELSE Reply(r, "refused", NoToken)
    /\ UNCHANGED <<accounts, stored, row, jar, clock, family, parent, disturbed>>

ReloadAccount(r) ==
    /\ req[r].pc = "reloadAccount"
    /\ IF req[r].user \in accounts THEN StartSession(r, req[r].user)
                                   ELSE Reply(r, "refused", NoToken)
    /\ UNCHANGED <<accounts, stored, row, jar, clock, family, parent, disturbed>>

\* createRefreshToken: the foreign key refuses a user deleted since, which
\* leaves only Drop for the request.
InsertToken(r, t) ==
    /\ req[r].pc = "insert"
    /\ req[r].user \in accounts
    /\ t \notin Issued
    /\ stored' = stored \cup {t}
    /\ row' = [row EXCEPT ![t] = [user |-> req[r].user, expiresAt |-> req[r].now + Ttl,
                                  revokedAt |-> NeverRevoked, reason |-> "NONE"]]
    /\ parent' = [parent EXCEPT ![t] = req[r].token]
    /\ family' = [family EXCEPT ![t] =
                    IF req[r].token = NoToken THEN t ELSE family[req[r].token]]
    /\ Reply(r, "session", t)
    /\ UNCHANGED <<accounts, jar, clock, disturbed>>

LogOut(r) ==
    /\ req[r].pc = "logOut"
    /\ Revoke({req[r].token}, clock, "LOGGED_OUT")
    /\ Reply(r, "cleared", NoToken)
    /\ UNCHANGED <<accounts, stored, jar, clock, family, parent, disturbed>>

-----------------------------------------------------------------------------
(* Outside the application. *)

\* No route deletes a login; an operator may, and its tokens go with it.
DeleteAccount(u) ==
    /\ u \in accounts
    /\ accounts' = accounts \ {u}
    /\ stored' = stored \ TokensOf(u)
    /\ row' = [t \in Tokens |-> IF t \in TokensOf(u) THEN NoRow ELSE row[t]]
    /\ UNCHANGED <<req, jar, clock, family, parent, disturbed>>

Tick ==
    /\ clock < MaxTime
    /\ clock' = clock + 1
    /\ UNCHANGED <<accounts, stored, row, req, jar, family, parent, disturbed>>

Next ==
    \/ \E r \in Requests, b \in Browsers, u \in Users : BeginLogin(r, b, u)
    \/ \E r \in Requests, b \in Browsers : BeginRefresh(r, b)
    \/ \E r \in Requests, b \in Browsers : BeginLogout(r, b)
    \/ \E r \in Requests : FindAccount(r)
    \/ \E r \in Requests : FindToken(r)
    \/ \E r \in Requests : RevokeAll(r)
    \/ \E r \in Requests : Rotate(r)
    \/ \E r \in Requests : ReloadAccount(r)
    \/ \E r \in Requests, t \in Tokens : InsertToken(r, t)
    \/ \E r \in Requests : LogOut(r)
    \/ \E r \in Requests : Answer(r)
    \/ \E r \in Requests : Drop(r)
    \/ \E u \in Users : DeleteAccount(u)
    \/ Tick

Spec == Init /\ [][Next]_vars

-----------------------------------------------------------------------------
(* Properties. *)

\* With the check constraint of refresh_tokens: revoked_at and revoked_reason are
\* set together.
TypeOK ==
    /\ accounts \subseteq Users
    /\ stored \subseteq Tokens
    /\ row \in [Tokens -> Row]
    /\ \A t \in Tokens : row[t].revokedAt = NeverRevoked <=> row[t].reason = "NONE"
    /\ req \in [Requests -> Request]
    /\ \A r \in Requests : req[r] # Idle => req[r].pc # "idle" /\ req[r].browser \in Browsers
    /\ jar \in [Browsers -> Tokens \cup {NoToken}]
    /\ clock \in 0..MaxTime
    /\ family \in [Tokens -> Tokens \cup {NoToken}]
    /\ parent \in [Tokens -> Tokens \cup {NoToken}]
    /\ disturbed \subseteq Browsers

\* One login is one session: of all the tokens descending from it at most one is
\* live, and none is while a refresh is between retiring a token and storing the
\* next.  (auth.ts: "a race cannot mint two sessions from one token".)
OneLivePerLogin ==
    /\ \A s, t \in Tokens : Live(s) /\ Live(t) /\ family[s] = family[t] => s = t
    /\ \A q, r \in Requests :
          Renewing(q) /\ Renewing(r) /\ family[req[q].token] = family[req[r].token] => q = r
    /\ \A t \in Tokens, r \in Requests :
          Live(t) /\ Renewing(r) => family[t] # family[req[r].token]

\* A token has a successor only if it ended by being rotated, and never two: one
\* that was logged out or swept up by reuse detection begot nothing.
SuccessorOfRotated ==
    /\ \A t \in Tokens : parent[t] \in stored => row[parent[t]].reason = "ROTATED"
    /\ \A s, t \in Tokens : parent[s] = parent[t] /\ parent[s] # NoToken => s = t

\* Reuse detection is provoked by a rotated token of the same account and by
\* nothing else: who replays a token that was logged out, or that an earlier
\* detection swept up, is refused and signs nobody out of other devices.
ReuseNeedsRotation ==
    /\ \A r \in Requests : req[r].pc = "revokeAll" /\ req[r].token \in stored =>
          row[req[r].token].reason = "ROTATED" /\ row[req[r].token].user = req[r].user
    /\ \A t \in stored : row[t].reason = "REUSE_DETECTED" =>
          \E p \in stored : row[p].user = row[t].user /\ row[p].reason = "ROTATED"

\* A browser that has one request in flight at a time and receives every answer
\* never presents a rotated token, so it is never the one to end the account's
\* sessions.
OnlyDisturbedReplay ==
    \A r \in Requests : req[r].pc = "revokeAll" => req[r].browser \in disturbed

\* Renewing never moves a session to another account.
ChainKeepsOwner ==
    \A s, t \in stored : family[s] = family[t] => row[s].user = row[t].user

\* The first revocation of a token is the one on record: no later logout,
\* rotation or sweep rewrites why or when it ended, and none revives it.
RevocationIsFinal ==
    [][\A t \in stored : row[t].reason # "NONE" => row'[t] = row[t] \/ t \notin stored']_vars

\* A refresh that may still renew its session: it is past the UPDATE that retires
\* the token, or read the clock in time and the token is still good.
CouldRenew(r) ==
    \/ Renewing(r)
    \/ /\ req[r].pc \in {"findToken", "rotate"}
       /\ Live(req[r].token)
       /\ req[r].now < row[req[r].token].expiresAt

\* The session of login l has run out or been ended, with nobody left who came in time.
Over(l) ==
    /\ family[l] = l
    /\ \A t \in Tokens : Live(t) /\ family[t] = l => row[t].expiresAt <= clock
    /\ \A r \in Requests : CouldRenew(r) => family[req[r].token] # l

\* A session that is over is over for good.  The UPDATE that rotates a token and
\* the INSERT of the next do not look at the expiry again, so a refresh begun in
\* time may finish late and gives the session a new term; one that begins at the
\* expiry or later must not, whatever else is in flight.
OverForGood == [][\A l \in Tokens : Over(l) => Over(l)']_vars

\* The rows of refresh_tokens and the refreshes in flight seen as sessions.
sessionOf ==
    [l \in Tokens |->
        IF family[l] # l THEN "none"
        ELSE IF \/ \E t \in Tokens : Live(t) /\ family[t] = l
                \/ \E r \in Requests : Renewing(r) /\ family[req[r].token] = l
             THEN "open"
             ELSE "ended"]

Lifecycle == INSTANCE SessionLifecycle WITH Logins <- Tokens, session <- sessionOf

\* The token machinery implements the promise of SessionLifecycle: an ended
\* session never comes back, and no step but a login opens one.
ImplementsLifecycle == Lifecycle!Spec
=============================================================================
