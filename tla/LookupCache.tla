---------------------------- MODULE LookupCache ----------------------------
(***************************************************************************)
(* Reference data held in memory: src/shared/cache.ts, filled by           *)
(* src/repositories/lookups.ts and read through src/services/lookups.ts,   *)
(* with the writers of src/services/payBands.ts that invalidate it and the *)
(* employee writes that do not.                                            *)
(*                                                                         *)
(* One process.  JavaScript runs an uninterrupted stretch of a handler as  *)
(* one step; steps interleave at every await.  What a part of the data     *)
(* says is abstracted to its version, so "older" has a meaning.            *)
(***************************************************************************)
EXTENDS Integers, FiniteSets

CONSTANTS
    Readers,      \* concurrent callers of get()
    Writers,      \* concurrent band requests
    Loads,        \* load() promises; a settled one is reused when nobody needs it
    NoLoad,
    Ttl,          \* ttlMs, in clock ticks
    MaxVersion    \* bound on the changes of each part

ASSUME LookupConstants ==
    /\ NoLoad \notin Loads
    /\ Ttl \in Nat \ {0}
    /\ MaxVersion \in Nat

VARIABLES
    db,        \* the version of each part in the database
    banded,    \* whether the level and country being edited has a band
    held,      \* held, with the ticks left before expiresAt
    inFlight,  \* inFlight
    loads,     \* the promises: what each query returned so far
    reader,    \* the callers of get()
    writer,    \* the band requests
    quiet,     \* history: the bands' version at the last invalidation that met no load
    served     \* history: the newest version of each part given to any caller

vars == <<db, banded, held, inFlight, loads, reader, writer, quiet, served>>

\* loadLookupData sends a query per table.  The bands are invalidated when they
\* change; the countries stand for all that is not: themselves, and the departments,
\* levels and rates edited by hand.
Parts == {"bands", "countries"}

Unread == -1

Version == 0..MaxVersion

NoValue == [p \in Parts |-> 0]

Entry == [value : [Parts -> Version], left : 0..Ttl]

\* undefined: nothing held, or held no longer.
NothingHeld == [value |-> NoValue, left |-> 0]

Load == [status : {"idle", "reading", "settled", "rejected"},
         got : [Parts -> Version \cup {Unread}]]

IdleLoad == [status |-> "idle", got |-> [p \in Parts |-> Unread]]

\* "floor" and "before" are history: quiet and served when the call began.
Reader == [pc : {"idle", "waiting", "answered", "failed"}, load : Loads \cup {NoLoad},
           value : [Parts -> Version], floor : Version, before : [Parts -> Version]]

IdleReader ==
    [pc |-> "idle", load |-> NoLoad, value |-> NoValue, floor |-> 0, before |-> NoValue]

Fresh == held.left > 0

Init ==
    /\ db = [p \in Parts |-> 0]
    /\ banded \in BOOLEAN
    /\ held = NothingHeld
    /\ inFlight = NoLoad
    /\ loads = [l \in Loads |-> IdleLoad]
    /\ reader = [r \in Readers |-> IdleReader]
    /\ writer = [w \in Writers |-> "idle"]
    /\ quiet = 0
    /\ served = [p \in Parts |-> 0]

-----------------------------------------------------------------------------
(* get() *)

Begin(r, pc, l, value) ==
    reader' = [reader EXCEPT ![r] = [pc |-> pc, load |-> l, value |-> value,
                                     floor |-> quiet, before |-> served]]

Join(r, l) == Begin(r, "waiting", l, NoValue)

\* Mutant: each use puts the expiry off.
GetHeldSliding(r) ==
    /\ reader[r].pc = "idle"
    /\ Fresh
    /\ Begin(r, "answered", NoLoad, held.value)
    /\ held' = [held EXCEPT !.left = Ttl]
    /\ UNCHANGED <<db, banded, inFlight, loads, writer, quiet, served>>

GetHeld(r) ==
    /\ reader[r].pc = "idle"
    /\ Fresh
    /\ Begin(r, "answered", NoLoad, held.value)
    /\ UNCHANGED <<db, banded, held, inFlight, loads, writer, quiet, served>>

\* Mutant: every miss runs a load of its own.
GetLoadingAlone(r, l) ==
    /\ reader[r].pc = "idle"
    /\ ~Fresh
    /\ loads[l].status = "idle"
    /\ loads' = [loads EXCEPT ![l].status = "reading"]
    /\ inFlight' = l
    /\ Join(r, l)
    /\ UNCHANGED <<db, banded, held, writer, quiet, served>>

\* inFlight ??= load()
GetLoading(r, l) ==
    /\ reader[r].pc = "idle"
    /\ ~Fresh
    /\ inFlight = NoLoad
    /\ loads[l].status = "idle"
    /\ loads' = [loads EXCEPT ![l].status = "reading"]
    /\ inFlight' = l
    /\ Join(r, l)
    /\ UNCHANGED <<db, banded, held, writer, quiet, served>>

\* Mutant: waits for inFlight without asking whether there is one.
GetJoiningNothing(r) ==
    /\ reader[r].pc = "idle"
    /\ ~Fresh
    /\ Join(r, inFlight)
    /\ UNCHANGED <<db, banded, held, inFlight, loads, writer, quiet, served>>

GetJoining(r) ==
    /\ reader[r].pc = "idle"
    /\ ~Fresh
    /\ inFlight # NoLoad
    /\ Join(r, inFlight)
    /\ UNCHANGED <<db, banded, held, inFlight, loads, writer, quiet, served>>

Newer(v, w) == IF v > w THEN v ELSE w

\* The caller has its answer, or its error.
Return(r) ==
    /\ reader[r].pc \in {"answered", "failed"}
    /\ served' = IF reader[r].pc = "answered"
                 THEN [p \in Parts |-> Newer(reader[r].value[p], served[p])]
                 ELSE served
    /\ reader' = [reader EXCEPT ![r] = IdleReader]
    /\ UNCHANGED <<db, banded, held, inFlight, loads, writer, quiet>>

-----------------------------------------------------------------------------
(* load() and what is chained to it *)

\* The five queries run on connections of their own, each on its own snapshot.
Read(l, p) ==
    /\ loads[l].status = "reading"
    /\ loads[l].got[p] = Unread
    /\ loads' = [loads EXCEPT ![l].got[p] = db[p]]
    /\ UNCHANGED <<db, banded, held, inFlight, reader, writer, quiet, served>>

\* then: the result is held, whatever was invalidated since the queries ran.
Settle(l) ==
    /\ loads[l].status = "reading"
    /\ \A p \in Parts : loads[l].got[p] # Unread
    /\ held' = [value |-> loads[l].got, left |-> Ttl]
    /\ loads' = [loads EXCEPT ![l].status = "settled"]
    /\ UNCHANGED <<db, banded, inFlight, reader, writer, quiet, served>>

\* One query fails: Promise.all rejects without waiting for the others.
Reject(l) ==
    /\ loads[l].status = "reading"
    /\ loads' = [loads EXCEPT ![l].status = "rejected"]
    /\ UNCHANGED <<db, banded, held, inFlight, reader, writer, quiet, served>>

\* Mutant: the callers of a failed load are never told.
HandSuccess(l) ==
    reader' = [r \in Readers |->
                 IF reader[r].load = l /\ loads[l].status = "settled"
                 THEN [reader[r] EXCEPT !.pc = "answered", !.load = NoLoad,
                                        !.value = loads[l].got]
                 ELSE reader[r]]

\* The callers wait for what finally returns.
Hand(l) ==
    reader' = [r \in Readers |->
                 IF reader[r].pc # "waiting" \/ reader[r].load # l
                 THEN reader[r]
                 ELSE IF loads[l].status = "settled"
                 THEN [reader[r] EXCEPT !.pc = "answered", !.load = NoLoad,
                                        !.value = loads[l].got]
                 ELSE [reader[r] EXCEPT !.pc = "failed", !.load = NoLoad]]

\* Mutant: cleared in the then, so that a rejected promise stays.
ClearSettled(l) ==
    /\ loads[l].status \in {"settled", "rejected"}
    /\ inFlight' = IF loads[l].status = "settled" THEN NoLoad ELSE inFlight
    /\ loads' = IF loads[l].status = "settled" THEN [loads EXCEPT ![l] = IdleLoad] ELSE loads
    /\ Hand(l)
    /\ UNCHANGED <<db, banded, held, writer, quiet, served>>

\* finally
Clear(l) ==
    /\ loads[l].status \in {"settled", "rejected"}
    /\ inFlight' = NoLoad
    /\ loads' = [loads EXCEPT ![l] = IdleLoad]
    /\ Hand(l)
    /\ UNCHANGED <<db, banded, held, writer, quiet, served>>

Tick ==
    /\ Fresh
    /\ held' = [held EXCEPT !.left = @ - 1]
    /\ UNCHANGED <<db, banded, inFlight, loads, reader, writer, quiet, served>>

-----------------------------------------------------------------------------
(* Writes *)

\* save: upsertBand, once the request has passed its checks.
Save(w) ==
    /\ writer[w] = "idle"
    /\ db["bands"] < MaxVersion
    /\ db' = [db EXCEPT !["bands"] = @ + 1]
    /\ banded' = TRUE
    /\ writer' = [writer EXCEPT ![w] = "written"]
    /\ UNCHANGED <<held, inFlight, loads, reader, quiet, served>>

\* remove: deleteBand, and a 404 without invalidating when there was no band.
Remove(w) ==
    /\ writer[w] = "idle"
    /\ banded
    /\ db["bands"] < MaxVersion
    /\ db' = [db EXCEPT !["bands"] = @ + 1]
    /\ banded' = FALSE
    /\ writer' = [writer EXCEPT ![w] = "written"]
    /\ UNCHANGED <<held, inFlight, loads, reader, quiet, served>>

\* The answer to the statement is lost although it committed: the handler throws
\* before it invalidates.
LoseWrite(w) ==
    /\ writer[w] = "written"
    /\ writer' = [writer EXCEPT ![w] = "idle"]
    /\ UNCHANGED <<db, banded, held, inFlight, loads, reader, quiet, served>>

\* Mutant: a saved band does not touch the cache.
InvalidateNothing(w) ==
    /\ writer[w] = "written"
    /\ quiet' = IF inFlight = NoLoad THEN db["bands"] ELSE quiet
    /\ writer' = [writer EXCEPT ![w] = "idle"]
    /\ UNCHANGED <<db, banded, held, inFlight, loads, reader, served>>

\* Mutant: the load in flight is forgotten too, but not stopped from settling.
InvalidateInFlight(w) ==
    /\ writer[w] = "written"
    /\ held' = NothingHeld
    /\ inFlight' = NoLoad
    /\ quiet' = IF inFlight = NoLoad THEN db["bands"] ELSE quiet
    /\ writer' = [writer EXCEPT ![w] = "idle"]
    /\ UNCHANGED <<db, banded, loads, reader, served>>

Invalidate(w) ==
    /\ writer[w] = "written"
    /\ held' = NothingHeld
    /\ quiet' = IF inFlight = NoLoad THEN db["bands"] ELSE quiet
    /\ writer' = [writer EXCEPT ![w] = "idle"]
    /\ UNCHANGED <<db, banded, inFlight, loads, reader, served>>

\* An employee created or imported in a new country changes SELECT DISTINCT
\* country; a department, a level or a rate is edited by hand.  Neither tells
\* the cache.
ChangeUnannounced(p) ==
    /\ p # "bands"
    /\ db[p] < MaxVersion
    /\ db' = [db EXCEPT ![p] = @ + 1]
    /\ UNCHANGED <<banded, held, inFlight, loads, reader, writer, quiet, served>>

\* The process is replaced: memory and requests are gone, the database is not.
Restart ==
    /\ held' = NothingHeld
    /\ inFlight' = NoLoad
    /\ loads' = [l \in Loads |-> IdleLoad]
    /\ reader' = [r \in Readers |-> IdleReader]
    /\ writer' = [w \in Writers |-> "idle"]
    /\ UNCHANGED <<db, banded, quiet, served>>

Next ==
    \/ \E r \in Readers : GetHeld(r)
    \/ \E r \in Readers, l \in Loads : GetLoading(r, l)
    \/ \E r \in Readers : GetJoining(r)
    \/ \E r \in Readers : Return(r)
    \/ \E l \in Loads, p \in Parts : Read(l, p)
    \/ \E l \in Loads : Settle(l)
    \/ \E l \in Loads : Reject(l)
    \/ \E l \in Loads : Clear(l)
    \/ Tick
    \/ \E w \in Writers : Save(w)
    \/ \E w \in Writers : Remove(w)
    \/ \E w \in Writers : LoseWrite(w)
    \/ \E w \in Writers : Invalidate(w)
    \/ \E p \in Parts : ChangeUnannounced(p)
    \/ Restart

Spec == Init /\ [][Next]_vars

\* Postgres answers or fails every query, the event loop runs what is queued, and
\* time passes.
FairSpec ==
    /\ Spec
    /\ \A l \in Loads, p \in Parts : WF_vars(Read(l, p))
    /\ \A l \in Loads : WF_vars(Settle(l)) /\ WF_vars(Clear(l))
    /\ WF_vars(Tick)

-----------------------------------------------------------------------------
(* What the cache promises *)

\* Values have their types, and who waits waits for a promise that exists: get()
\* never returns an inFlight already cleared.
TypeOK ==
    /\ db \in [Parts -> Version]
    /\ banded \in BOOLEAN
    /\ held \in Entry
    /\ inFlight \in Loads \cup {NoLoad}
    /\ loads \in [Loads -> Load]
    /\ reader \in [Readers -> Reader]
    /\ \A r \in Readers : reader[r].pc = "waiting" <=> reader[r].load # NoLoad
    /\ writer \in [Writers -> {"idle", "written"}]
    /\ quiet \in Version
    /\ served \in [Parts -> Version]

\* "One load, however many callers are waiting": every load not yet finished is the
\* one in flight, and every caller waiting waits for it.
OneLoadAtATime ==
    /\ \A l \in Loads : loads[l].status # "idle" <=> l = inFlight
    /\ \A r \in Readers : reader[r].pc = "waiting" => reader[r].load = inFlight

\* Once a band's invalidation has met no load in flight, no later caller is given
\* the bands as they were before it.
InvalidationIsSeen ==
    \A r \in Readers : reader[r].pc = "answered" => reader[r].value["bands"] >= reader[r].floor

\* Whatever races with it, a caller is never given data older than an earlier
\* caller had already been given: the dropdowns do not go back in time.
NeverGoesBack ==
    \A r \in Readers, p \in Parts :
        reader[r].pc = "answered" => reader[r].value[p] >= reader[r].before[p]

\* A load whose query failed "is retried rather than remembered".
FailureIsForgotten ==
    \A l \in Loads : loads[l].status = "rejected" ~> inFlight # l

\* Whoever waits gets the data or the error.
NobodyWaitsForEver ==
    \A r \in Readers : reader[r].pc = "waiting" ~> reader[r].pc # "waiting"

Stale(p) == Fresh /\ held.value[p] # db[p]

\* A change made behind the cache's back "appears within the hour", however often
\* the old value is asked for meanwhile.
StalenessEnds == \A p \in Parts : Stale(p) ~> ~Stale(p)
=============================================================================
