\* Three tokens are one login renewed twice, or two logins of which one renews;
\* two requests are every pairwise race, two tabs of the one browser.
CONSTANTS
    Users = {u1, u2}
    Tokens = {t1, t2, t3}
    Requests = {r1, r2}
    Browsers = {b1}
    NoUser = NoUser
    NoToken = NoToken
    NoBrowser = NoBrowser
    Ttl = 1
    MaxTime = 1
SPECIFICATION Spec
SYMMETRY Interchangeable
INVARIANTS
    TypeOK
    OneLivePerLogin
    SuccessorOfRotated
    ReuseNeedsRotation
    OnlyDisturbedReplay
    ChainKeepsOwner
PROPERTIES
    RevocationIsFinal
    OverForGood
    ImplementsLifecycle
CHECK_DEADLOCK FALSE
