----------------------------- MODULE MCSessions -----------------------------
(* Sessions on a small instance: which accounts, tokens, requests and        *)
(* browsers are which makes no difference to any property checked.           *)
EXTENDS Sessions, TLC

Interchangeable ==
    Permutations(Users) \cup Permutations(Tokens)
        \cup Permutations(Requests) \cup Permutations(Browsers)
=============================================================================
