-------------------------- MODULE MCSessionsReuse ---------------------------
(* What reuse detection is documented to achieve, against what it does when  *)
(* a refresh of another session of the account stands between its two        *)
(* statements.                                                               *)
EXTENDS MCSessions

\* History: the logins whose session reuse detection has ended although another
\* login's token was the one replayed.
VARIABLE condemned

DetectsReuse(r) == req[r].pc = "revokeAll" /\ req'[r].pc = "refused"

ReuseInit == Init /\ condemned = {}

ReuseNext ==
    /\ Next
    /\ condemned' = condemned \cup
          {family[t] : t \in {s \in stored :
              \E r \in Requests :
                  /\ DetectsReuse(r)
                  /\ row[s].user = req[r].user
                  /\ family[s] # family[req[r].token]}}

ReuseSpec == ReuseInit /\ [][ReuseNext]_<<vars, condemned>>

\* auth.ts: "there is no way to tell which is the owner -- so every session for
\* the account ends": no session of the account that was there at that moment, on
\* other devices than the replayed token's, is live afterwards.
ReuseEndsEverySession == \A t \in Tokens : Live(t) => family[t] \notin condemned
=============================================================================
