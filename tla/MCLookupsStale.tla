--------------------------- MODULE MCLookupsStale ---------------------------
(* What invalidate() is documented to achieve, against what it does when a   *)
(* load is in flight.                                                        *)
EXTENDS LookupCache

\* History: the bands' version when a band request last finished.
VARIABLE told

ToldInit == Init /\ told = 0

ToldNext ==
    /\ Next
    /\ told' = IF \E w \in Writers : Invalidate(w) THEN db["bands"] ELSE told

ToldSpec == ToldInit /\ [][ToldNext]_<<vars, told>>

\* cache.ts: invalidate "drops what is held, so the next read reloads".  What is
\* held for the next read is never older than a band request already finished.
NextReadReloads == Fresh => held.value["bands"] >= told
=============================================================================
