-------------------------- MODULE SessionLifecycle --------------------------
(***************************************************************************)
(* What signing in promises, whatever the tokens and the requests do: a    *)
(* session is opened once, by one login; it may be renewed any number of   *)
(* times without becoming a second session; and once it has ended it never *)
(* comes back.  Sessions implements this through its refresh-token rows.   *)
(***************************************************************************)

CONSTANT Logins   \* one name for every login there may ever be

VARIABLE session  \* session[l] is the state of the session login l opened

States == {"none", "open", "ended"}

Init == session = [l \in Logins |-> "none"]

Open(l) ==
    /\ session[l] = "none"
    /\ session' = [session EXCEPT ![l] = "open"]

\* A logout ends one session, a detected replay all of an account's.
End ==
    \A l \in Logins : \/ session'[l] = session[l]
                      \/ session[l] = "open" /\ session'[l] = "ended"

Next == session' \in [Logins -> States] /\ ((\E l \in Logins : Open(l)) \/ End)

Spec == Init /\ [][Next]_session

=============================================================================
