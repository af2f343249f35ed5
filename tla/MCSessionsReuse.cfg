\* Two devices signed in with the one account: the first replays a rotated token
\* while the second is renewing its own.
CONSTANTS
    Users = {u1}
    Tokens = {t1, t2, t3}
    Requests = {r1, r2}
    Browsers = {b1, b2}
    NoUser = NoUser
    NoToken = NoToken
    NoBrowser = NoBrowser
    Ttl = 1
    MaxTime = 0
SPECIFICATION ReuseSpec
INVARIANT ReuseEndsEverySession
CHECK_DEADLOCK FALSE
