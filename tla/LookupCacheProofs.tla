------------------------- MODULE LookupCacheProofs --------------------------
(***************************************************************************)
(* Theorems about LookupCache for every set of callers, writers and loads, *)
(* every Ttl and every bound on the versions.                              *)
(***************************************************************************)
EXTENDS LookupCache, TLAPS

\* How far a load has come says what has been read and whether an entry is held.
LoadOK(l) ==
    /\ loads[l].status = "idle" => \A p \in Parts : loads[l].got[p] = Unread
    /\ loads[l].status \in {"reading", "rejected"} => ~Fresh
    /\ loads[l].status = "settled" =>
          \A p \in Parts : loads[l].got[p] # Unread /\ (Fresh => held.value[p] = loads[l].got[p])

LoadsOK == \A l \in Loads : LoadOK(l)

\* v is no newer than what is in the database, in memory and on its way there.
NoNewer(v, p) ==
    /\ v <= db[p]
    /\ Fresh => v <= held.value[p]
    /\ \A l \in Loads : loads[l].got[p] # Unread => v <= loads[l].got[p]

\* The last quiet invalidation is older than anything the next caller can be given.
QuietOK ==
    /\ NoNewer(quiet, "bands")
    /\ \A r \in Readers : reader[r].floor <= quiet

\* So is what any caller has been given.
ServedOK ==
    \A p \in Parts :
        /\ NoNewer(served[p], p)
        /\ \A r \in Readers :
              /\ reader[r].before[p] <= served[p]
              /\ reader[r].pc = "answered" => NoNewer(reader[r].value[p], p)

\* Nothing in memory is ahead of the database.
BehindOK ==
    \A p \in Parts :
        /\ Fresh => held.value[p] <= db[p]
        /\ \A l \in Loads : loads[l].got[p] <= db[p]

Inv ==
    /\ TypeOK
    /\ OneLoadAtATime
    /\ LoadsOK
    /\ QuietOK
    /\ ServedOK
    /\ BehindOK
    /\ InvalidationIsSeen
    /\ NeverGoesBack

-----------------------------------------------------------------------------

LEMMA Bands == "bands" \in Parts
BY DEF Parts

LEMMA Initially == Init => Inv
<1> SUFFICES ASSUME Init PROVE Inv
    OBVIOUS
<1>1. 0 \in Version /\ Ttl \in Nat /\ Unread = -1 /\ 0 \in 0..Ttl
    BY LookupConstants DEF Version, Unread
<1>2. IdleReader \in Reader /\ IdleLoad \in Load /\ NothingHeld \in Entry
    BY <1>1 DEF NoValue, IdleReader, Reader, IdleLoad, Load, NothingHeld, Entry
<1>3. TypeOK
    BY <1>1, <1>2 DEF Init, TypeOK, IdleReader
<1>4. ~Fresh
    BY DEF Init, Fresh, NothingHeld
<1>5. OneLoadAtATime /\ LoadsOK
    BY <1>4, LookupConstants DEF Init, OneLoadAtATime, LoadsOK, LoadOK, IdleLoad, IdleReader
<1>6. QuietOK /\ ServedOK /\ BehindOK
    BY <1>1, <1>4, Bands
       DEF Init, QuietOK, ServedOK, BehindOK, NoNewer, IdleLoad, IdleReader, NoValue
<1>7. InvalidationIsSeen /\ NeverGoesBack
    BY DEF Init, InvalidationIsSeen, NeverGoesBack, IdleReader, NoValue
<1> QED BY <1>3, <1>5, <1>6, <1>7 DEF Inv

\* What a call of get() leaves behind.
LEMMA Begun ==
    ASSUME TypeOK, NEW r \in Readers, NEW pc \in {"waiting", "answered"},
           NEW l \in Loads \cup {NoLoad}, NEW v \in [Parts -> Version],
           pc = "waiting" <=> l # NoLoad,
           Begin(r, pc, l, v)
    PROVE  /\ reader' \in [Readers -> Reader]
           /\ \A x \in Readers : reader'[x].pc = "waiting" <=> reader'[x].load # NoLoad
           /\ reader'[r].pc = pc /\ reader'[r].load = l /\ reader'[r].value = v
           /\ reader'[r].floor = quiet /\ reader'[r].before = served
           /\ \A x \in Readers \ {r} : reader'[x] = reader[x]
<1> DEFINE new == [pc |-> pc, load |-> l, value |-> v, floor |-> quiet, before |-> served]
<1>1. reader' = [reader EXCEPT ![r] = new]
    BY DEF Begin
<1>2. new \in Reader
    BY DEF TypeOK, Reader
<1> QED BY <1>1, <1>2 DEF TypeOK

LEMMA Returned ==
    ASSUME TypeOK, NEW r \in Readers, reader' = [reader EXCEPT ![r] = IdleReader]
    PROVE  /\ reader' \in [Readers -> Reader]
           /\ \A x \in Readers : reader'[x].pc = "waiting" <=> reader'[x].load # NoLoad
           /\ reader'[r].pc = "idle" /\ reader'[r].load = NoLoad /\ reader'[r].floor = 0
           /\ \A p \in Parts : reader'[r].before[p] = 0
           /\ \A x \in Readers \ {r} : reader'[x] = reader[x]
<1>1. 0 \in Version
    BY LookupConstants DEF Version
<1>2. IdleReader \in Reader
    BY <1>1 DEF NoValue, IdleReader, Reader
<1> QED BY <1>2 DEF TypeOK, IdleReader, NoValue

\* What finally leaves behind: those who waited have the load's data or its error.
LEMMA Handed ==
    ASSUME TypeOK, NEW l \in Loads, NEW r \in Readers, Hand(l),
           loads[l].status = "settled" => \A p \in Parts : loads[l].got[p] # Unread
    PROVE  /\ reader'[r] \in Reader
           /\ reader'[r].pc = "waiting" <=> reader'[r].load # NoLoad
           /\ reader'[r].floor = reader[r].floor /\ reader'[r].before = reader[r].before
           /\ \/ reader'[r] = reader[r] /\ ~(reader[r].pc = "waiting" /\ reader[r].load = l)
              \/ reader'[r].pc = "failed" /\ reader'[r].load = NoLoad
              \/ /\ reader'[r].pc = "answered" /\ reader'[r].value = loads[l].got
                 /\ reader'[r].load = NoLoad
                 /\ loads[l].status = "settled"
                 /\ reader[r].pc = "waiting"
<1>1. reader[r] \in Reader /\ (reader[r].pc = "waiting" <=> reader[r].load # NoLoad)
    BY DEF TypeOK
<1>2. loads[l] \in Load
    BY DEF TypeOK
<1>3. CASE reader[r].pc # "waiting" \/ reader[r].load # l
    BY <1>1, <1>3 DEF Hand
<1>4. CASE ~(reader[r].pc # "waiting" \/ reader[r].load # l) /\ loads[l].status = "settled"
  <2>1. reader'[r] = [reader[r] EXCEPT !.pc = "answered", !.load = NoLoad, !.value = loads[l].got]
      BY <1>4 DEF Hand
  <2>2. loads[l].got \in [Parts -> Version]
      BY <1>2, <1>4 DEF Load
  <2> QED BY <1>1, <1>4, <2>1, <2>2 DEF Reader
<1>5. CASE ~(reader[r].pc # "waiting" \/ reader[r].load # l) /\ loads[l].status # "settled"
  <2>1. reader'[r] = [reader[r] EXCEPT !.pc = "failed", !.load = NoLoad]
      BY <1>5 DEF Hand
  <2> QED BY <1>1, <1>5, <2>1 DEF Reader
<1> QED BY <1>3, <1>4, <1>5

LEMMA TypePreserved == Inv /\ [Next]_vars => TypeOK'
<1> SUFFICES ASSUME Inv, [Next]_vars PROVE TypeOK'
    OBVIOUS
<1>1. TypeOK /\ LoadsOK
    BY DEF Inv
<1>2. 0 \in Version /\ NoValue \in [Parts -> Version] /\ Ttl \in 0..Ttl /\ 0 \in 0..Ttl
    BY LookupConstants DEF NoValue, Version
<1>3. IdleReader \in Reader /\ IdleLoad \in Load /\ NothingHeld \in Entry
    BY <1>2 DEF IdleReader, Reader, IdleLoad, Load, NothingHeld, Entry
<1>4. ASSUME NEW r \in Readers, GetHeld(r) PROVE TypeOK'
  <2>1. held.value \in [Parts -> Version]
      BY <1>1 DEF TypeOK, Entry
  <2> QED BY <1>1, <1>4, <2>1, Begun DEF GetHeld, TypeOK
<1>5. ASSUME NEW r \in Readers, NEW l \in Loads, GetLoading(r, l) PROVE TypeOK'
  <2>1. reader' \in [Readers -> Reader]
        /\ \A x \in Readers : reader'[x].pc = "waiting" <=> reader'[x].load # NoLoad
      BY <1>1, <1>2, <1>5, Begun, LookupConstants DEF GetLoading, Join
  <2>2. loads' \in [Loads -> Load]
      BY <1>1, <1>5 DEF GetLoading, TypeOK, Load
  <2> QED BY <1>1, <1>5, <2>1, <2>2 DEF GetLoading, TypeOK
<1>6. ASSUME NEW r \in Readers, GetJoining(r) PROVE TypeOK'
  <2>1. reader' \in [Readers -> Reader]
        /\ \A x \in Readers : reader'[x].pc = "waiting" <=> reader'[x].load # NoLoad
      BY <1>1, <1>2, <1>6, Begun DEF GetJoining, Join, TypeOK
  <2> QED BY <1>1, <1>6, <2>1 DEF GetJoining, TypeOK
<1>7. ASSUME NEW r \in Readers, Return(r) PROVE TypeOK'
  <2>1. reader[r].value \in [Parts -> Version]
      BY <1>1 DEF TypeOK, Reader
  <2>2. served' \in [Parts -> Version]
      BY <1>1, <1>7, <2>1 DEF Return, TypeOK, Newer
  <2> QED BY <1>1, <1>7, <2>2, Returned DEF Return, TypeOK
<1>8. ASSUME NEW l \in Loads, NEW p \in Parts, Read(l, p) PROVE TypeOK'
  <2>1. loads' \in [Loads -> Load]
      BY <1>1, <1>8 DEF Read, TypeOK, Load
  <2> QED BY <1>1, <1>8, <2>1 DEF Read, TypeOK
<1>9. ASSUME NEW l \in Loads, Settle(l) PROVE TypeOK'
  <2>1. loads' \in [Loads -> Load]
      BY <1>1, <1>9 DEF Settle, TypeOK, Load
  <2>2. loads[l].got \in [Parts -> Version]
      BY <1>1, <1>9 DEF Settle, TypeOK, Load
  <2>3. held' \in Entry
      BY <1>2, <1>9, <2>2 DEF Settle, Entry
  <2> QED BY <1>1, <1>9, <2>1, <2>3 DEF Settle, TypeOK
<1>10. ASSUME NEW l \in Loads, Reject(l) PROVE TypeOK'
  <2>1. loads' \in [Loads -> Load]
      BY <1>1, <1>10 DEF Reject, TypeOK, Load
  <2> QED BY <1>1, <1>10, <2>1 DEF Reject, TypeOK
<1>11. ASSUME NEW l \in Loads, Clear(l) PROVE TypeOK'
  <2>1. Hand(l) /\ (loads[l].status = "settled" => \A p \in Parts : loads[l].got[p] # Unread)
      BY <1>1, <1>11 DEF Clear, LoadsOK, LoadOK
  <2>2. \A r \in Readers : reader'[r] \in Reader
                           /\ (reader'[r].pc = "waiting" <=> reader'[r].load # NoLoad)
      BY <1>1, <2>1, Handed
  <2>3. reader' = [r \in Readers |-> reader'[r]]
      BY <2>1 DEF Hand
  <2>4. loads' \in [Loads -> Load]
      BY <1>1, <1>3, <1>11 DEF Clear, TypeOK
  <2>5. reader' \in [Readers -> Reader]
      BY <2>2, <2>3
  <2> QED BY <1>1, <1>11, <2>2, <2>4, <2>5 DEF Clear, TypeOK
<1>12. ASSUME Tick PROVE TypeOK'
  <2>1. held' \in Entry
      BY <1>1, <1>12, LookupConstants DEF Tick, Fresh, TypeOK, Entry
  <2> QED BY <1>1, <1>12, <2>1 DEF Tick, TypeOK
<1>13. ASSUME NEW p \in Parts, db[p] < MaxVersion, db' = [db EXCEPT ![p] = @ + 1]
       PROVE  db' \in [Parts -> Version]
    BY <1>1, <1>13, LookupConstants DEF TypeOK, Version
<1>14. ASSUME NEW w \in Writers, Save(w) PROVE TypeOK'
    BY <1>1, <1>13, <1>14, Bands DEF Save, TypeOK
<1>15. ASSUME NEW w \in Writers, Remove(w) PROVE TypeOK'
    BY <1>1, <1>13, <1>15, Bands DEF Remove, TypeOK
<1>16. ASSUME NEW w \in Writers, LoseWrite(w) PROVE TypeOK'
    BY <1>1, <1>16 DEF LoseWrite, TypeOK
<1>17. ASSUME NEW w \in Writers, Invalidate(w) PROVE TypeOK'
  <2>1. quiet' \in Version
      BY <1>1, <1>17, Bands DEF Invalidate, TypeOK
  <2> QED BY <1>1, <1>3, <1>17, <2>1 DEF Invalidate, TypeOK
<1>18. ASSUME NEW p \in Parts, ChangeUnannounced(p) PROVE TypeOK'
    BY <1>1, <1>13, <1>18 DEF ChangeUnannounced, TypeOK
<1>19. ASSUME Restart PROVE TypeOK'
    BY <1>1, <1>3, <1>19 DEF Restart, TypeOK, IdleReader
<1>20. CASE UNCHANGED vars
    BY <1>1, <1>20 DEF vars, TypeOK
<1> QED BY <1>4, <1>5, <1>6, <1>7, <1>8, <1>9, <1>10, <1>11, <1>12, <1>14, <1>15, <1>16,
           <1>17, <1>18, <1>19, <1>20 DEF Next

-----------------------------------------------------------------------------

\* The numbers compared are integers.
LEMMA Numbers ==
    ASSUME TypeOK, NEW p \in Parts
    PROVE  /\ db[p] \in Nat /\ held.value[p] \in Nat /\ served[p] \in Nat /\ quiet \in Nat
           /\ held.left \in Nat
           /\ \A l \in Loads : loads[l].got[p] \in Int
           /\ \A r \in Readers : /\ reader[r].value[p] \in Nat
                                 /\ reader[r].before[p] \in Nat
                                 /\ reader[r].floor \in Nat
<1>1. (\A v \in Version : v \in Nat) /\ Unread \in Int
  <2>1. \A v \in Version : v \in Nat
      BY LookupConstants DEF Version
  <2>2. Unread \in Int
      BY DEF Unread
  <2> QED BY <2>1, <2>2
<1>2. \A l \in Loads : loads[l].got[p] \in Int
  <2>1. ASSUME NEW l \in Loads PROVE loads[l].got \in [Parts -> Version \cup {Unread}]
      BY DEF TypeOK, Load
  <2>2. ASSUME NEW l \in Loads PROVE loads[l].got[p] \in Version \cup {Unread}
      BY <2>1
  <2> QED BY <1>1, <2>2
<1>3. \A r \in Readers : reader[r] \in Reader
    BY DEF TypeOK
<1>4. held.value[p] \in Nat /\ held.left \in Nat
  <2>1. held.value \in [Parts -> Version] /\ held.left \in 0..Ttl
      BY DEF TypeOK, Entry
  <2>2. held.value[p] \in Version
      BY <2>1
  <2> QED BY <1>1, <2>1, <2>2, LookupConstants
<1> QED BY <1>1, <1>2, <1>3, <1>4, Bands DEF TypeOK, Reader

LEMMA OneLoadPreserved == Inv /\ [Next]_vars => OneLoadAtATime'
<1> SUFFICES ASSUME Inv, [Next]_vars PROVE OneLoadAtATime'
    OBVIOUS
<1>1. TypeOK /\ OneLoadAtATime /\ LoadsOK
    BY DEF Inv
<1>2. NoValue \in [Parts -> Version]
    BY LookupConstants DEF NoValue, Version
<1>3. ASSUME NEW r \in Readers, GetHeld(r) PROVE OneLoadAtATime'
  <2>1. held.value \in [Parts -> Version]
      BY <1>1 DEF TypeOK, Entry
  <2>2. reader'[r].pc = "answered" /\ \A x \in Readers \ {r} : reader'[x] = reader[x]
      BY <1>1, <1>3, <2>1, Begun DEF GetHeld
  <2> QED BY <1>1, <1>3, <2>2 DEF GetHeld, OneLoadAtATime
<1>4. ASSUME NEW r \in Readers, NEW l \in Loads, GetLoading(r, l) PROVE OneLoadAtATime'
  <2>1. reader'[r].load = l /\ \A x \in Readers \ {r} : reader'[x] = reader[x]
      BY <1>1, <1>2, <1>4, Begun, LookupConstants DEF GetLoading, Join
  <2>2. \A x \in Readers : reader[x].pc # "waiting"
      BY <1>1, <1>4 DEF GetLoading, TypeOK, OneLoadAtATime
  <2>3. \A m \in Loads : loads'[m].status # "idle" <=> m = l
      BY <1>1, <1>4, LookupConstants DEF GetLoading, TypeOK, Load, OneLoadAtATime
  <2> QED BY <1>4, <2>1, <2>2, <2>3 DEF GetLoading, OneLoadAtATime
<1>5. ASSUME NEW r \in Readers, GetJoining(r) PROVE OneLoadAtATime'
  <2>1. reader'[r].load = inFlight /\ \A x \in Readers \ {r} : reader'[x] = reader[x]
      BY <1>1, <1>2, <1>5, Begun DEF GetJoining, Join, TypeOK
  <2> QED BY <1>1, <1>5, <2>1 DEF GetJoining, OneLoadAtATime
<1>6. ASSUME NEW r \in Readers, Return(r) PROVE OneLoadAtATime'
    BY <1>1, <1>6, Returned DEF Return, OneLoadAtATime
<1>7. ASSUME NEW l \in Loads, NEW p \in Parts, Read(l, p) PROVE OneLoadAtATime'
  <2>1. \A m \in Loads : loads'[m].status = loads[m].status
      BY <1>1, <1>7 DEF Read, TypeOK, Load
  <2> QED BY <1>1, <1>7, <2>1 DEF Read, OneLoadAtATime
<1>8. ASSUME NEW l \in Loads, Settle(l) \/ Reject(l) PROVE OneLoadAtATime'
  <2>1. \A m \in Loads : loads'[m].status = "idle" <=> loads[m].status = "idle"
      BY <1>1, <1>8 DEF Settle, Reject, TypeOK, Load
  <2> QED BY <1>1, <1>8, <2>1 DEF Settle, Reject, OneLoadAtATime
<1>9. ASSUME NEW l \in Loads, Clear(l) PROVE OneLoadAtATime'
  <2>1. inFlight = l
      BY <1>1, <1>9 DEF Clear, OneLoadAtATime
  <2>2. \A m \in Loads : loads'[m].status = "idle"
      BY <1>1, <1>9, <2>1 DEF Clear, OneLoadAtATime, TypeOK, IdleLoad
  <2>3. Hand(l) /\ (loads[l].status = "settled" => \A p \in Parts : loads[l].got[p] # Unread)
      BY <1>1, <1>9 DEF Clear, LoadsOK, LoadOK
  <2>4. ASSUME NEW r \in Readers PROVE reader'[r].pc # "waiting"
      BY <1>1, <2>1, <2>3, Handed DEF OneLoadAtATime
  <2> QED BY <1>9, <2>2, <2>4, LookupConstants DEF Clear, OneLoadAtATime
<1>10. ASSUME UNCHANGED <<inFlight, loads, reader>> PROVE OneLoadAtATime'
    BY <1>1, <1>10 DEF OneLoadAtATime
<1>11. ASSUME Restart PROVE OneLoadAtATime'
    BY <1>11, LookupConstants DEF Restart, OneLoadAtATime, IdleReader, IdleLoad
<1> QED BY <1>3, <1>4, <1>5, <1>6, <1>7, <1>8, <1>9, <1>10, <1>11
        DEF Next, vars, Tick, Save, Remove, LoseWrite, Invalidate, ChangeUnannounced

\* A load's progress, step by step.
LEMMA LoadSteps ==
    ASSUME Inv, [Next]_vars, NEW l \in Loads
    PROVE  \/ loads'[l] = loads[l]
           \/ loads[l] = IdleLoad /\ loads'[l].status = "reading" /\ loads'[l].got = loads[l].got
              /\ ~Fresh /\ held' = held
           \/ \E p \in Parts : /\ loads[l].status = "reading" /\ loads'[l].status = "reading"
                               /\ loads'[l].got = [loads[l].got EXCEPT ![p] = db[p]]
                               /\ held' = held /\ db' = db
           \/ /\ loads[l].status = "reading" /\ loads'[l].status \in {"settled", "rejected"}
              /\ loads'[l].got = loads[l].got
              /\ db' = db
              /\ loads'[l].status = "settled" =>
                    /\ \A p \in Parts : loads[l].got[p] # Unread
                    /\ held' = [value |-> loads[l].got, left |-> Ttl]
              /\ loads'[l].status = "rejected" => held' = held
           \/ loads'[l] = IdleLoad
<1>1. TypeOK /\ LoadsOK
    BY DEF Inv
<1>2. loads[l] \in Load
    BY <1>1 DEF TypeOK
<1>3. ASSUME NEW r \in Readers, NEW m \in Loads, GetLoading(r, m), m = l
      PROVE  /\ loads[l] = IdleLoad /\ loads'[l].status = "reading"
             /\ loads'[l].got = loads[l].got /\ ~Fresh /\ held' = held
    BY <1>1, <1>2, <1>3 DEF GetLoading, TypeOK, Load, IdleLoad, LoadsOK, LoadOK
<1>4. ASSUME NEW p \in Parts, Read(l, p)
      PROVE  /\ loads[l].status = "reading" /\ loads'[l].status = "reading"
             /\ loads'[l].got = [loads[l].got EXCEPT ![p] = db[p]]
             /\ held' = held /\ db' = db
    BY <1>1, <1>2, <1>4 DEF Read, TypeOK, Load
<1>5. ASSUME NEW m \in Loads, m # l,
             (\E r \in Readers : GetLoading(r, m)) \/ (\E p \in Parts : Read(m, p))
                \/ Settle(m) \/ Reject(m) \/ Clear(m)
      PROVE  loads'[l] = loads[l]
    BY <1>1, <1>5 DEF GetLoading, Read, Settle, Reject, Clear, TypeOK
<1>6. ASSUME Settle(l)
      PROVE  /\ loads[l].status = "reading" /\ loads'[l].status = "settled"
             /\ loads'[l].got = loads[l].got /\ db' = db
             /\ \A p \in Parts : loads[l].got[p] # Unread
             /\ held' = [value |-> loads[l].got, left |-> Ttl]
    BY <1>1, <1>2, <1>6 DEF Settle, TypeOK, Load
<1>7. ASSUME Reject(l)
      PROVE  /\ loads[l].status = "reading" /\ loads'[l].status = "rejected"
             /\ loads'[l].got = loads[l].got /\ db' = db /\ held' = held
    BY <1>1, <1>2, <1>7 DEF Reject, TypeOK, Load
<1>8. ASSUME Clear(l) \/ Restart PROVE loads'[l] = IdleLoad
    BY <1>1, <1>8 DEF Clear, Restart, TypeOK
<1>9. ASSUME UNCHANGED loads PROVE loads'[l] = loads[l]
    BY <1>9
<1> QED BY <1>3, <1>4, <1>5, <1>6, <1>7, <1>8, <1>9
        DEF Next, vars, GetHeld, GetJoining, Return, Tick, Save, Remove, LoseWrite, Invalidate,
            ChangeUnannounced

\* The entry is only ever replaced by a load that settles.
LEMMA HeldSteps ==
    ASSUME Inv, [Next]_vars
    PROVE  \/ held'.value = held.value /\ (Fresh' => Fresh) /\ (~Fresh => ~Fresh')
           \/ ~Fresh'
           \/ \E l \in Loads : /\ loads[l].status = "reading" /\ loads'[l].status = "settled"
                               /\ \A p \in Parts : loads[l].got[p] # Unread
                               /\ held'.value = loads[l].got /\ db' = db
<1>1. TypeOK /\ held \in Entry
    BY DEF Inv, TypeOK
<1>2. ASSUME NEW l \in Loads, Settle(l)
      PROVE  /\ loads[l].status = "reading" /\ loads'[l].status = "settled"
             /\ \A p \in Parts : loads[l].got[p] # Unread
             /\ held'.value = loads[l].got /\ db' = db
    BY <1>1, <1>2 DEF Settle, TypeOK, Load
<1>3. ASSUME Tick PROVE held'.value = held.value /\ (Fresh' => Fresh) /\ (~Fresh => ~Fresh')
    BY <1>1, <1>3 DEF Tick, Fresh, Entry
<1>4. ASSUME held' = NothingHeld PROVE ~Fresh'
    BY <1>4 DEF Fresh, NothingHeld
<1>5. ASSUME held' = held PROVE held'.value = held.value /\ (Fresh' => Fresh) /\ (~Fresh => ~Fresh')
    BY <1>5 DEF Fresh
<1> QED BY <1>2, <1>3, <1>4, <1>5
        DEF Next, vars, GetHeld, GetLoading, GetJoining, Return, Read, Reject, Clear, Save,
            Remove, LoseWrite, Invalidate, ChangeUnannounced, Restart

LEMMA DbSteps ==
    ASSUME Inv, [Next]_vars, NEW p \in Parts PROVE db[p] <= db'[p]
<1>1. TypeOK /\ db[p] \in Nat
    BY Numbers DEF Inv
<1>2. ASSUME NEW q \in Parts, db' = [db EXCEPT ![q] = @ + 1] PROVE db[p] <= db'[p]
    BY <1>1, <1>2 DEF TypeOK
<1>3. ASSUME db' = db PROVE db[p] <= db'[p]
    BY <1>1, <1>3
<1> QED BY <1>2, <1>3, Bands
        DEF Next, vars, GetHeld, GetLoading, GetJoining, Return, Read, Settle, Reject, Clear,
            Tick, Save, Remove, LoseWrite, Invalidate, ChangeUnannounced, Restart

LEMMA LoadsPreserved == Inv /\ [Next]_vars => LoadsOK'
<1> SUFFICES ASSUME Inv, [Next]_vars, NEW l \in Loads
             PROVE  LoadOK(l)'
    BY DEF LoadsOK
<1>1. TypeOK /\ OneLoadAtATime /\ LoadsOK
    BY DEF Inv
<1>2. CASE loads'[l] = loads[l]
  <2>1. loads[l].status # "idle" => ~Fresh' \/ (held'.value = held.value /\ (Fresh' => Fresh))
      BY <1>1, <1>2, HeldSteps DEF OneLoadAtATime
  <2> QED BY <1>1, <1>2, <2>1 DEF LoadsOK, LoadOK
<1>3. CASE loads'[l] = IdleLoad
    BY <1>3 DEF IdleLoad, LoadOK
<1>4. CASE loads'[l].status = "reading" /\ ~Fresh /\ held' = held
    BY <1>4 DEF Fresh, LoadOK
<1>5. CASE loads'[l].status = "settled" /\ loads'[l].got = loads[l].got
           /\ (\A p \in Parts : loads[l].got[p] # Unread)
           /\ held' = [value |-> loads[l].got, left |-> Ttl]
    BY <1>5 DEF LoadOK
<1>6. CASE loads'[l].status = "rejected" /\ loads[l].status = "reading" /\ held' = held
    BY <1>1, <1>6 DEF LoadsOK, LoadOK, Fresh
<1> QED BY <1>1, <1>2, <1>3, <1>4, <1>5, <1>6, LoadSteps DEF LoadsOK, LoadOK

\* What is older than everything in the database and in memory stays so.
LEMMA StaysOld ==
    ASSUME Inv, [Next]_vars, NEW p \in Parts, NEW v \in Nat, NoNewer(v, p)
    PROVE  /\ v <= db'[p]
           /\ Fresh' => v <= held'.value[p]
           /\ \A l \in Loads : loads'[l].got[p] # Unread => v <= loads'[l].got[p]
<1>1. TypeOK /\ TypeOK'
    BY TypePreserved DEF Inv
<1>2. db[p] \in Nat /\ db'[p] \in Nat /\ db[p] <= db'[p]
    BY <1>1, Numbers, DbSteps, LookupConstants DEF TypeOK, Version
<1>3. v <= db'[p]
    BY <1>2 DEF NoNewer
<1>4. Fresh' => v <= held'.value[p]
    BY HeldSteps DEF NoNewer
<1>5. ASSUME NEW l \in Loads, loads'[l].got[p] # Unread PROVE v <= loads'[l].got[p]
  <2>1. CASE loads'[l].got = loads[l].got
      BY <1>5, <2>1 DEF NoNewer
  <2>2. CASE loads'[l] = IdleLoad
      BY <1>5, <2>2 DEF IdleLoad
  <2>3. ASSUME NEW q \in Parts, loads'[l].got = [loads[l].got EXCEPT ![q] = db[q]]
        PROVE  v <= loads'[l].got[p]
    <3>1. loads[l].got \in [Parts -> Version \cup {Unread}]
        BY <1>1 DEF TypeOK, Load
    <3>2. loads'[l].got[p] = IF p = q THEN db[p] ELSE loads[l].got[p]
        BY <2>3, <3>1
    <3> QED BY <1>5, <3>2 DEF NoNewer
  <2> QED BY <2>1, <2>2, <2>3, LoadSteps
<1> QED BY <1>3, <1>4, <1>5

LEMMA BehindPreserved == Inv /\ [Next]_vars => BehindOK'
<1> SUFFICES ASSUME Inv, [Next]_vars, NEW p \in Parts
             PROVE  /\ Fresh' => held'.value[p] <= db'[p]
                    /\ \A l \in Loads : loads'[l].got[p] <= db'[p]
    BY DEF BehindOK
<1>1. TypeOK /\ BehindOK
    BY DEF Inv
<1>2. db[p] \in Nat /\ held.value[p] \in Nat /\ db'[p] \in Nat /\ db[p] <= db'[p]
    BY <1>1, Numbers, DbSteps, TypePreserved, LookupConstants DEF TypeOK, Version
<1>3. Fresh' => held'.value[p] <= db'[p]
    BY <1>1, <1>2, HeldSteps DEF BehindOK
<1>4. ASSUME NEW l \in Loads PROVE loads'[l].got[p] <= db'[p]
  <2>1. loads[l].got[p] \in Int /\ loads[l].got[p] <= db[p]
      BY <1>1, Numbers DEF BehindOK
  <2>2. CASE loads'[l].got = loads[l].got
      BY <1>2, <2>1, <2>2
  <2>3. CASE loads'[l] = IdleLoad
      BY <1>2, <2>3 DEF IdleLoad, Unread
  <2>4. ASSUME NEW q \in Parts, loads'[l].got = [loads[l].got EXCEPT ![q] = db[q]]
        PROVE  loads'[l].got[p] <= db'[p]
    <3>1. loads[l].got \in [Parts -> Version \cup {Unread}]
        BY <1>1 DEF TypeOK, Load
    <3>2. loads'[l].got[p] = IF p = q THEN db[p] ELSE loads[l].got[p]
        BY <2>4, <3>1
    <3> QED BY <1>2, <2>1, <3>2
  <2> QED BY <2>2, <2>3, <2>4, LoadSteps
<1> QED BY <1>3, <1>4

\* What a step does to a caller, and to what callers have been given.
LEMMA ReaderSteps ==
    ASSUME Inv, [Next]_vars, NEW r \in Readers
    PROVE  \/ reader'[r] = reader[r]
           \/ /\ reader'[r].pc = "idle" /\ reader'[r].floor = 0
              /\ \A p \in Parts : reader'[r].before[p] = 0
           \/ /\ reader'[r].floor = quiet /\ reader'[r].before = served
              /\ quiet' = quiet /\ served' = served
              /\ \/ reader'[r].pc = "waiting"
                 \/ Fresh /\ reader'[r].pc = "answered" /\ reader'[r].value = held.value
           \/ /\ reader'[r].floor = reader[r].floor /\ reader'[r].before = reader[r].before
              /\ quiet' = quiet /\ served' = served
              /\ \/ reader'[r].pc = "failed"
                 \/ \E l \in Loads : /\ reader'[r].pc = "answered"
                                     /\ reader'[r].value = loads[l].got
                                     /\ loads[l].status = "settled"
                                     /\ \A p \in Parts : loads[l].got[p] # Unread
<1>1. TypeOK /\ LoadsOK
    BY DEF Inv
<1>2. NoValue \in [Parts -> Version]
    BY LookupConstants DEF NoValue, Version
<1>3. ASSUME NEW x \in Readers, GetHeld(x), reader'[r] # reader[r]
      PROVE  /\ reader'[r].floor = quiet /\ reader'[r].before = served
             /\ quiet' = quiet /\ served' = served
             /\ Fresh /\ reader'[r].pc = "answered" /\ reader'[r].value = held.value
  <2>1. held.value \in [Parts -> Version]
      BY <1>1 DEF TypeOK, Entry
  <2> QED BY <1>1, <1>3, <2>1, Begun DEF GetHeld
<1>4. ASSUME NEW x \in Readers, NEW l \in Loads, Join(x, l), reader'[r] # reader[r]
      PROVE  /\ reader'[r].floor = quiet /\ reader'[r].before = served
             /\ reader'[r].pc = "waiting"
    BY <1>1, <1>2, <1>4, Begun, LookupConstants DEF Join
<1>5. ASSUME NEW x \in Readers, Return(x), reader'[r] # reader[r]
      PROVE  /\ reader'[r].pc = "idle" /\ reader'[r].floor = 0
             /\ \A p \in Parts : reader'[r].before[p] = 0
    BY <1>1, <1>5, Returned DEF Return
<1>6. ASSUME NEW l \in Loads, Clear(l), reader'[r] # reader[r]
      PROVE  /\ reader'[r].floor = reader[r].floor /\ reader'[r].before = reader[r].before
             /\ quiet' = quiet /\ served' = served
             /\ \/ reader'[r].pc = "failed"
                \/ /\ reader'[r].pc = "answered" /\ reader'[r].value = loads[l].got
                   /\ loads[l].status = "settled"
                   /\ \A p \in Parts : loads[l].got[p] # Unread
  <2>1. Hand(l) /\ (loads[l].status = "settled" => \A p \in Parts : loads[l].got[p] # Unread)
      BY <1>1, <1>6 DEF Clear, LoadsOK, LoadOK
  <2> QED BY <1>1, <1>6, <2>1, Handed DEF Clear
<1>7. ASSUME Restart
      PROVE  /\ reader'[r].pc = "idle" /\ reader'[r].floor = 0
             /\ \A p \in Parts : reader'[r].before[p] = 0
    BY <1>7 DEF Restart, IdleReader, NoValue
<1>8. ASSUME NEW x \in Readers, GetJoining(x) PROVE Join(x, inFlight) /\ inFlight \in Loads
    BY <1>1, <1>8 DEF GetJoining, TypeOK
<1>9. reader' = reader => reader'[r] = reader[r]
    OBVIOUS
<1> QED BY <1>3, <1>4, <1>5, <1>6, <1>7, <1>8, <1>9
        DEF Next, vars, GetLoading, GetJoining, Read, Settle, Reject, Tick, Save, Remove,
            LoseWrite, Invalidate, ChangeUnannounced

LEMMA ServedSteps ==
    ASSUME Inv, [Next]_vars, NEW p \in Parts
    PROVE  /\ served[p] <= served'[p]
           /\ \/ served'[p] = served[p]
              \/ \E r \in Readers : reader[r].pc = "answered" /\ served'[p] = reader[r].value[p]
<1>1. TypeOK /\ served[p] \in Nat /\ \A r \in Readers : reader[r].value[p] \in Nat
    BY Numbers DEF Inv
<1>2. ASSUME NEW r \in Readers, Return(r)
      PROVE  /\ served[p] <= served'[p]
             /\ \/ served'[p] = served[p]
                \/ reader[r].pc = "answered" /\ served'[p] = reader[r].value[p]
    BY <1>1, <1>2 DEF Return, Newer
<1>3. ASSUME served' = served PROVE served[p] <= served'[p] /\ served'[p] = served[p]
    BY <1>1, <1>3
<1> QED BY <1>2, <1>3
        DEF Next, vars, GetHeld, GetLoading, GetJoining, Read, Settle, Reject, Clear, Tick,
            Save, Remove, LoseWrite, Invalidate, ChangeUnannounced, Restart

\* A caller is answered with data no older than what was served or invalidated.
LEMMA AnswersPreserved ==
    ASSUME Inv, [Next]_vars, NEW r \in Readers, NEW p \in Parts
    PROVE  /\ reader'[r].before[p] <= served'[p]
           /\ reader'[r].pc = "answered" =>
                /\ NoNewer(reader'[r].value[p], p)
                /\ reader'[r].before[p] <= reader'[r].value[p]
                /\ p = "bands" => reader'[r].floor <= reader'[r].value[p]
<1>1. TypeOK /\ OneLoadAtATime /\ LoadsOK /\ QuietOK /\ ServedOK /\ BehindOK
        /\ InvalidationIsSeen /\ NeverGoesBack
    BY DEF Inv
<1>2. /\ served[p] \in Nat /\ served'[p] \in Nat /\ quiet \in Nat /\ served[p] <= served'[p]
      /\ reader[r].before[p] \in Nat /\ reader[r].floor \in Nat /\ reader[r].value[p] \in Nat
    BY <1>1, Numbers, ServedSteps, TypePreserved, LookupConstants DEF TypeOK, Version
<1>3. CASE reader'[r] = reader[r]
    BY <1>1, <1>2, <1>3 DEF ServedOK, InvalidationIsSeen, NeverGoesBack
<1>4. CASE reader'[r].pc = "idle" /\ reader'[r].before[p] = 0
    BY <1>2, <1>4
<1>5. CASE /\ reader'[r].floor = quiet /\ reader'[r].before = served
           /\ \/ reader'[r].pc = "waiting"
              \/ Fresh /\ reader'[r].pc = "answered" /\ reader'[r].value = held.value
  <2>1. reader'[r].before[p] <= served'[p]
      BY <1>2, <1>5
  <2>2. ASSUME reader'[r].pc = "answered" PROVE Fresh /\ reader'[r].value = held.value
      BY <1>5, <2>2
  <2>3. ASSUME Fresh PROVE NoNewer(held.value[p], p)
    <3>1. held.value[p] \in Nat /\ held.value[p] <= db[p]
        BY <1>1, <2>3, Numbers DEF BehindOK
    <3>2. ASSUME NEW l \in Loads, loads[l].got[p] # Unread PROVE held.value[p] <= loads[l].got[p]
      <4>1. loads[l].status = "settled" \/ loads[l].status = "rejected"
          BY <1>1, <2>3, <3>2 DEF LoadsOK, LoadOK, TypeOK, Load
      <4> QED BY <1>1, <2>3, <3>1, <3>2, <4>1 DEF LoadsOK, LoadOK
    <3> QED BY <3>1, <3>2 DEF NoNewer
  <2>4. Fresh => served[p] <= held.value[p] /\ (p = "bands" => quiet <= held.value[p])
      BY <1>1 DEF ServedOK, QuietOK, NoNewer
  <2> QED BY <1>5, <2>1, <2>2, <2>3, <2>4
<1>6. CASE /\ reader'[r].floor = reader[r].floor /\ reader'[r].before = reader[r].before
           /\ \/ reader'[r].pc = "failed"
              \/ \E l \in Loads : /\ reader'[r].pc = "answered" /\ reader'[r].value = loads[l].got
                                  /\ loads[l].status = "settled"
                                  /\ \A q \in Parts : loads[l].got[q] # Unread
  <2>1. reader'[r].before[p] <= served'[p]
      BY <1>1, <1>2, <1>6 DEF ServedOK
  <2>2. CASE reader'[r].pc = "failed"
      BY <1>6, <2>1, <2>2
  <2>3. ASSUME NEW l \in Loads, reader'[r].pc = "answered", reader'[r].value = loads[l].got,
               loads[l].status = "settled", \A q \in Parts : loads[l].got[q] # Unread
        PROVE  /\ NoNewer(loads[l].got[p], p)
               /\ reader[r].before[p] <= loads[l].got[p]
               /\ p = "bands" => reader[r].floor <= loads[l].got[p]
    <3>1. loads[l].got[p] \in Int /\ loads[l].got[p] <= db[p]
        BY <1>1, Numbers DEF BehindOK
    <3>2. Fresh => loads[l].got[p] <= held.value[p]
        BY <1>1, <2>3, <3>1 DEF LoadsOK, LoadOK
    <3>3. ASSUME NEW m \in Loads, loads[m].got[p] # Unread PROVE loads[l].got[p] <= loads[m].got[p]
      <4>1. m = l
          BY <1>1, <2>3, <3>3 DEF OneLoadAtATime, LoadsOK, LoadOK
      <4> QED BY <3>1, <4>1
    <3>4. NoNewer(loads[l].got[p], p)
        BY <3>1, <3>2, <3>3 DEF NoNewer
    <3>5. served[p] <= loads[l].got[p] /\ (p = "bands" => quiet <= loads[l].got[p])
        BY <1>1, <2>3 DEF ServedOK, QuietOK, NoNewer
    <3>6. reader[r].before[p] <= served[p] /\ reader[r].floor <= quiet
        BY <1>1 DEF ServedOK, QuietOK
    <3> QED BY <1>2, <3>1, <3>4, <3>5, <3>6
  <2> QED BY <1>6, <2>1, <2>2, <2>3
<1> QED BY <1>3, <1>4, <1>5, <1>6, ReaderSteps

LEMMA ServedPreserved == Inv /\ [Next]_vars => ServedOK' /\ NeverGoesBack' /\ InvalidationIsSeen'
<1> SUFFICES ASSUME Inv, [Next]_vars PROVE ServedOK' /\ NeverGoesBack' /\ InvalidationIsSeen'
    OBVIOUS
<1>1. TypeOK /\ TypeOK' /\ ServedOK
    BY TypePreserved DEF Inv
<1>2. ASSUME NEW p \in Parts PROVE NoNewer(served[p], p)'
  <2>1. PICK v \in Nat : v = served'[p] /\ NoNewer(v, p)
    <3>1. served[p] \in Nat /\ \A r \in Readers : reader[r].value[p] \in Nat
        BY <1>1, Numbers
    <3> QED BY <1>1, <3>1, ServedSteps DEF ServedOK
  <2>2. /\ v <= db'[p]
        /\ Fresh' => v <= held'.value[p]
        /\ \A l \in Loads : loads'[l].got[p] # Unread => v <= loads'[l].got[p]
      BY <2>1, StaysOld
  <2> QED BY <2>1, <2>2 DEF NoNewer
<1>3. ASSUME NEW p \in Parts, NEW r \in Readers, reader'[r].pc = "answered"
      PROVE  NoNewer(reader[r].value[p], p)'
  <2>1. reader'[r].value \in [Parts -> Version]
      BY <1>1 DEF TypeOK, Reader
  <2>2. reader'[r].value[p] \in Nat
      BY <2>1, LookupConstants DEF Version
  <2>3. PICK v \in Nat : v = reader'[r].value[p] /\ NoNewer(v, p)
      BY <1>3, <2>2, AnswersPreserved
  <2>4. /\ v <= db'[p]
        /\ Fresh' => v <= held'.value[p]
        /\ \A l \in Loads : loads'[l].got[p] # Unread => v <= loads'[l].got[p]
      BY <2>3, StaysOld
  <2> QED BY <2>3, <2>4 DEF NoNewer
<1>4. ServedOK'
    BY <1>2, <1>3, AnswersPreserved DEF ServedOK
<1>5. NeverGoesBack'
    BY AnswersPreserved DEF NeverGoesBack
<1>6. InvalidationIsSeen'
    BY AnswersPreserved, Bands DEF InvalidationIsSeen
<1> QED BY <1>4, <1>5, <1>6

LEMMA QuietPreserved == Inv /\ [Next]_vars => QuietOK'
<1> SUFFICES ASSUME Inv, [Next]_vars PROVE QuietOK'
    OBVIOUS
<1>1. TypeOK /\ OneLoadAtATime /\ LoadsOK /\ QuietOK
    BY DEF Inv
<1>2. quiet \in Nat /\ db["bands"] \in Nat /\ \A r \in Readers : reader[r].floor \in Nat
    BY <1>1, Bands, Numbers
<1>3. ASSUME quiet' = quiet PROVE NoNewer(quiet, "bands")'
  <2>1. PICK v \in Nat : v = quiet /\ NoNewer(v, "bands")
      BY <1>1, <1>2 DEF QuietOK
  <2>2. /\ v <= db'["bands"]
        /\ Fresh' => v <= held'.value["bands"]
        /\ \A l \in Loads : loads'[l].got["bands"] # Unread => v <= loads'[l].got["bands"]
      BY <2>1, Bands, StaysOld
  <2> QED BY <1>3, <2>1, <2>2 DEF NoNewer
<1>4. ASSUME NEW w \in Writers, Invalidate(w), inFlight = NoLoad
      PROVE  NoNewer(quiet, "bands")' /\ quiet <= quiet'
  <2>1. quiet' = db["bands"] /\ db' = db /\ loads' = loads /\ ~Fresh'
      BY <1>4 DEF Invalidate, Fresh, NothingHeld
  <2>2. \A l \in Loads : loads[l].got["bands"] = Unread
      BY <1>1, <1>4, Bands, LookupConstants DEF OneLoadAtATime, LoadsOK, LoadOK
  <2> QED BY <1>1, <1>2, <2>1, <2>2 DEF NoNewer, QuietOK
<1>5. quiet' = quiet \/ \E w \in Writers : Invalidate(w) /\ inFlight = NoLoad
    BY DEF Next, vars, GetHeld, GetLoading, GetJoining, Return, Read, Settle, Reject, Clear,
           Tick, Save, Remove, LoseWrite, Invalidate, ChangeUnannounced, Restart
<1>6. NoNewer(quiet, "bands")' /\ quiet <= quiet' /\ quiet' \in Nat
  <2>1. quiet' \in Nat
      BY <1>1, <1>2, <1>5 DEF Invalidate
  <2> QED BY <1>2, <1>3, <1>4, <1>5, <2>1
<1>7. ASSUME NEW r \in Readers PROVE reader'[r].floor <= quiet'
    BY <1>1, <1>2, <1>6, ReaderSteps DEF QuietOK
<1> QED BY <1>6, <1>7 DEF QuietOK

LEMMA Preserved == Inv /\ [Next]_vars => Inv'
BY TypePreserved, OneLoadPreserved, LoadsPreserved, QuietPreserved, ServedPreserved,
   BehindPreserved
   DEF Inv

-----------------------------------------------------------------------------

LEMMA Invariance == Spec => []Inv
BY Initially, Preserved, PTL DEF Spec

\* Type correctness, with what it says of who waits: get() never hands out a promise
\* that finally has already cleared.
THEOREM CacheTypeCorrect == Spec => []TypeOK
BY Invariance, PTL DEF Inv

\* However many callers miss, one load runs and all of them wait for it.
THEOREM OneLoad == Spec => []OneLoadAtATime
BY Invariance, PTL DEF Inv

\* Invalidating while no load is in flight is enough for every later call to see the
\* band that was saved.
THEOREM QuietInvalidationIsSeen == Spec => []InvalidationIsSeen
BY Invariance, PTL DEF Inv

\* No interleaving of loads, expiries, invalidations and restarts hands a caller data
\* older than what was already handed out.
THEOREM CacheNeverGoesBack == Spec => []NeverGoesBack
BY Invariance, PTL DEF Inv
=============================================================================
