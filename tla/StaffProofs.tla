---------------------------- MODULE StaffProofs -----------------------------
(***************************************************************************)
(* Theorems about Staff for every set of addresses, files and requests.    *)
(***************************************************************************)
EXTENDS Staff, WellFoundedInduction, TLAPS

\* The rows a request sees: the committed ones and its own.
Seen(r) == staff \cup pending[r]

\* Whoever is there.
Present == staff \cup UNION {pending[r] : r \in Requests}

\* Ids are given out once, in ascending order, and no row is held twice.
IdsOK ==
    /\ \A i \in Present : i < nextId
    /\ \A r \in Requests : \A i \in pending[r] :
          i \notin staff /\ \A s \in Requests : i \in pending[s] => s = r

\* The unique index holds over committed and uncommitted rows together.
AddressesOK == \A i, j \in Present : person[i].email = person[j].email => i = j

\* Every manager was there before anybody who reports to them.
ManagersFirst == \A i \in Ids : person[i].manager < i

\* An imported row of the table that consists of P has the manager the file describes.
Fits(i, P) ==
    person[i].file # {} =>
        IF person[i].boss = NoEmail
        THEN person[i].manager = NoOne
        ELSE person[i].manager \in P /\ person[person[i].manager].email = person[i].boss

DescribedOK ==
    /\ \A i \in staff : Fits(i, staff)
    /\ \A r \in Requests : \A i \in pending[r] : Fits(i, Seen(r))

\* What a request believes is so: an id it found has the address it was found for, a
\* manager it asked for exists, and what it may insert next can be placed.
Believes(r, q) ==
    /\ \A e \in Emails : q.ids[e] # NoOne => /\ q.ids[e] \in Seen(r)
                                             /\ person[q.ids[e]].email = e
    /\ q.pc = "checking" /\ "manager" \notin q.toCheck => q.manager \in staff \cup {NoOne}
    /\ q.pc = "inserting" => \A x \in q.layer : Placeable(x, q.ids)

RequestsOK == \A r \in Requests : Believes(r, req[r])

Inv == TypeOK /\ IdsOK /\ AddressesOK /\ ManagersFirst /\ DescribedOK /\ RequestsOK

-----------------------------------------------------------------------------
(* Requests and rows *)

LEMMA IdleTyped == Idle \in Request /\ \A e \in Emails : Idle.ids[e] = NoOne
BY DEF Idle, Request, Ids, NoOne, Statuses

LEMMA RowTyped ==
    ASSUME NEW f \in Files, NEW x \in f
    PROVE  /\ x \in FileRow /\ x.email \in Emails /\ x.boss \in Emails \cup {NoEmail}
           /\ x.status \in Statuses /\ x.boss # x.email
BY StaffConstants DEF FileRow

LEMMA Initially == Init => Inv
<1> SUFFICES ASSUME Init PROVE Inv
    OBVIOUS
<1>1. Nobody \in Person /\ Nobody.manager = NoOne /\ Nobody.file = {}
    BY DEF Nobody, Person, Statuses
<1>2. TypeOK
    BY <1>1, IdleTyped, StaffConstants DEF Init, TypeOK
<1>3. Present = {}
    BY DEF Init, Present
<1>4. IdsOK /\ AddressesOK /\ DescribedOK
    BY <1>3 DEF Init, IdsOK, AddressesOK, DescribedOK, Seen
<1>5. ManagersFirst
    BY <1>1 DEF Init, ManagersFirst, NoOne, Ids
<1>6. RequestsOK
    BY IdleTyped DEF Init, RequestsOK, Believes, Idle
<1> QED BY <1>2, <1>4, <1>5, <1>6 DEF Inv

LEMMA OwnersTyped ==
    ASSUME TypeOK, NEW e
    PROVE  /\ Owners(e) \in SUBSET staff
           /\ Owners(e) # {} => IdOf(e) \in Owners(e)
           /\ IdOf(e) \in Ids \cup {NoOne}
           /\ IdOf(e) # NoOne => IdOf(e) \in staff /\ person[IdOf(e)].email = e
<1>1. Owners(e) # {} => IdOf(e) \in Owners(e)
    BY DEF IdOf
<1>2. Owners(e) = {} => IdOf(e) = NoOne
    BY DEF IdOf
<1> QED BY <1>1, <1>2 DEF Owners, TypeOK

-----------------------------------------------------------------------------
(* Steps that leave the table alone *)

Reads == UNCHANGED <<staff, person, pending, nextId>>

LEMMA ReadingKeeps ==
    ASSUME Inv, Reads, NEW r \in Requests, NEW q \in Request,
           req' = [req EXCEPT ![r] = q], Believes(r, q),
           pending[r] # {} => q.pc = "inserting"
    PROVE  Inv'
<1> USE DEF Reads
<1>1. TypeOK'
    BY DEF Inv, TypeOK
<1>2. IdsOK' /\ AddressesOK' /\ ManagersFirst' /\ DescribedOK'
    BY DEF Inv, IdsOK, AddressesOK, ManagersFirst, DescribedOK, Present, Seen, Fits
<1>3. RequestsOK'
  <2> SUFFICES ASSUME NEW s \in Requests PROVE Believes(s, req[s])'
      BY DEF RequestsOK
  <2>1. Believes(s, req'[s])
    <3>1. CASE s = r
        BY <3>1 DEF Inv, TypeOK
    <3>2. CASE s # r
        BY <3>2 DEF Inv, TypeOK, RequestsOK
    <3> QED BY <3>1, <3>2
  <2> QED BY <2>1 DEF Believes, Seen, Placeable
<1> QED BY <1>1, <1>2, <1>3 DEF Inv

\* Where a request ends without having inserted anything.
LEMMA FinishKeeps ==
    ASSUME Inv, Reads, NEW r \in Requests, Finish(r), pending[r] = {}
    PROVE  Inv'
<1>1. Believes(r, Idle)
    BY IdleTyped DEF Believes, Idle
<1> QED BY <1>1, IdleTyped, ReadingKeeps DEF Finish

\* A transaction is open only while its request is inserting.
LEMMA ClosedElsewhere ==
    ASSUME Inv, NEW r \in Requests, req[r].pc # "inserting"
    PROVE  pending[r] = {}
BY DEF Inv, TypeOK

LEMMA ClosedWhenIdle ==
    ASSUME Inv, NEW r \in Requests, req[r] = Idle
    PROVE  pending[r] = {}
<1>1. req[r].pc = "idle"
    BY DEF Idle
<1> QED BY <1>1, ClosedElsewhere

LEMMA CreateReads ==
    ASSUME Inv, NEW r \in Requests,
           \/ \E e \in Emails, m \in Ids \cup {NoOne}, s \in Statuses : BeginCreate(r, e, m, s)
           \/ CheckEmail(r)
           \/ CheckManager(r)
    PROVE  Inv'
<1>1. ASSUME NEW e \in Emails, NEW m \in Ids \cup {NoOne}, NEW s \in Statuses,
             BeginCreate(r, e, m, s)
      PROVE  Inv'
  <2> DEFINE q == [Idle EXCEPT !.pc = "checking", !.email = e, !.manager = m,
                               !.status = s, !.toCheck = {"email", "manager"}]
  <2>1. q \in Request /\ q.ids = Idle.ids /\ q.pc = "checking" /\ "manager" \in q.toCheck
      BY IdleTyped DEF Request, Idle
  <2>2. pending[r] = {}
      BY <1>1, ClosedWhenIdle DEF BeginCreate
  <2>3. Believes(r, q)
      BY <2>1, IdleTyped DEF Believes
  <2>4. Reads /\ req' = [req EXCEPT ![r] = q]
      BY <1>1 DEF BeginCreate, Reads
  <2> HIDE DEF q
  <2> QED BY <2>1, <2>2, <2>3, <2>4, ReadingKeeps
<1>2. CASE CheckEmail(r)
  <2> DEFINE q == [req[r] EXCEPT !.toCheck = @ \ {"email"}]
  <2>1. Reads /\ pending[r] = {} /\ req[r] \in Request
      BY <1>2, ClosedElsewhere DEF CheckEmail, Reads, Inv, TypeOK
  <2>2. CASE req' = [req EXCEPT ![r] = q]
    <3>1. q \in Request /\ q.ids = req[r].ids /\ q.pc = "checking" /\ q.manager = req[r].manager
          /\ ("manager" \notin q.toCheck => "manager" \notin req[r].toCheck)
        BY <1>2, <2>1 DEF CheckEmail, Request
    <3>2. Believes(r, q)
        BY <1>2, <3>1 DEF CheckEmail, Inv, RequestsOK, Believes
    <3> HIDE DEF q
    <3> QED BY <2>1, <2>2, <3>1, <3>2, ReadingKeeps
  <2>3. CASE Finish(r)
      BY <2>1, <2>3, FinishKeeps
  <2> QED BY <1>2, <2>2, <2>3 DEF CheckEmail, Checked
<1>3. CASE CheckManager(r)
  <2> DEFINE q == [req[r] EXCEPT !.toCheck = @ \ {"manager"}]
  <2>1. Reads /\ pending[r] = {} /\ req[r] \in Request
      BY <1>3, ClosedElsewhere DEF CheckManager, Reads, Inv, TypeOK
  <2>2. CASE req' = [req EXCEPT ![r] = q] /\ req[r].manager \in staff \cup {NoOne}
    <3>1. q \in Request /\ q.ids = req[r].ids /\ q.pc = "checking" /\ q.manager = req[r].manager
        BY <1>3, <2>1 DEF CheckManager, Request
    <3>2. Believes(r, q)
        BY <2>2, <3>1 DEF Inv, RequestsOK, Believes
    <3> HIDE DEF q
    <3> QED BY <2>1, <2>2, <3>1, <3>2, ReadingKeeps
  <2>3. CASE Finish(r)
      BY <2>1, <2>3, FinishKeeps
  <2> QED BY <1>3, <2>2, <2>3 DEF CheckManager, Checked
<1> QED BY <1>1, <1>2, <1>3

LEMMA ImportReads ==
    ASSUME Inv, NEW r \in Requests,
           \/ \E f \in Files : BeginImport(r, f)
           \/ \E e \in Emails : LookUp(r, e)
           \/ CheckFile(r)
    PROVE  Inv'
<1>1. ASSUME NEW f \in Files, BeginImport(r, f) PROVE Inv'
  <2> DEFINE q == [Idle EXCEPT !.pc = "lookingUp", !.file = f, !.toCheck = Mentioned(f)]
  <2>1. Mentioned(f) \subseteq Emails
      BY RowTyped DEF Mentioned
  <2>2. q \in Request /\ q.ids = Idle.ids /\ q.pc = "lookingUp"
      BY <2>1, IdleTyped DEF Request, Idle
  <2>3. pending[r] = {}
      BY <1>1, ClosedWhenIdle DEF BeginImport
  <2>4. Believes(r, q)
      BY <2>2, IdleTyped DEF Believes
  <2>5. Reads /\ req' = [req EXCEPT ![r] = q]
      BY <1>1 DEF BeginImport, Reads
  <2> HIDE DEF q
  <2> QED BY <2>2, <2>3, <2>4, <2>5, ReadingKeeps
<1>2. ASSUME NEW e \in Emails, LookUp(r, e) PROVE Inv'
  <2> DEFINE q == [req[r] EXCEPT !.toCheck = @ \ {e}, !.ids[e] = IdOf(e)]
  <2>1. Reads /\ pending[r] = {} /\ req[r] \in Request /\ req[r].pc = "lookingUp"
      BY <1>2, ClosedElsewhere DEF LookUp, Reads, Inv, TypeOK
  <2>2. IdOf(e) \in Ids \cup {NoOne} /\ (IdOf(e) # NoOne => IdOf(e) \in staff /\ person[IdOf(e)].email = e)
      BY OwnersTyped DEF Inv
  <2>3. q \in Request /\ q.ids = [req[r].ids EXCEPT ![e] = IdOf(e)] /\ q.pc = "lookingUp"
      BY <2>1, <2>2 DEF Request
  <2>4. Believes(r, q)
    <3>1. ASSUME NEW g \in Emails, q.ids[g] # NoOne
          PROVE  q.ids[g] \in Seen(r) /\ person[q.ids[g]].email = g
      <4>1. CASE g = e
          BY <2>1, <2>2, <2>3, <3>1, <4>1 DEF Request, Seen
      <4>2. CASE g # e
        <5>1. q.ids[g] = req[r].ids[g]
            BY <2>1, <2>3, <4>2 DEF Request
        <5> QED BY <3>1, <5>1 DEF Inv, RequestsOK, Believes
      <4> QED BY <4>1, <4>2
    <3> QED BY <2>3, <3>1 DEF Believes
  <2>5. req' = [req EXCEPT ![r] = q]
      BY <1>2, <2>1 DEF LookUp, Inv, TypeOK, Request
  <2> HIDE DEF q
  <2> QED BY <2>1, <2>3, <2>4, <2>5, ReadingKeeps
<1>3. CASE CheckFile(r)
  <2> DEFINE g == req[r].file
             ids == req[r].ids
             q == [req[r] EXCEPT !.pc = "inserting", !.rows = g, !.layer = NextLayer(g, ids)]
  <2>1. Reads /\ pending[r] = {} /\ req[r] \in Request
      BY <1>3, ClosedElsewhere DEF CheckFile, Reads, Inv, TypeOK
  <2>2. CASE req' = [req EXCEPT ![r] = q]
    <3>1. g \in SUBSET FileRow
        BY <2>1, StaffConstants DEF Request
    <3>2. q \in Request /\ q.ids = ids /\ q.pc = "inserting" /\ q.layer = NextLayer(g, ids)
        BY <2>1, <3>1 DEF Request, NextLayer
    <3>3. Believes(r, q)
        BY <3>2 DEF Inv, RequestsOK, Believes, NextLayer
    <3> HIDE DEF q
    <3> QED BY <2>1, <2>2, <3>2, <3>3, ReadingKeeps
  <2>3. CASE Finish(r)
      BY <2>1, <2>3, FinishKeeps
  <2>4. Finish(r) \/ req' = [req EXCEPT ![r].pc = "inserting", ![r].rows = g,
                                        ![r].layer = NextLayer(g, ids)]
      BY <1>3 DEF CheckFile
  <2>5. Finish(r) \/ req' = [req EXCEPT ![r] = q]
      BY <2>1, <2>4 DEF Inv, TypeOK, Request
  <2> QED BY <2>2, <2>3, <2>5
<1> QED BY <1>1, <1>2, <1>3

LEMMA StatusReads ==
    ASSUME Inv, NEW r \in Requests,
           \/ \E i \in staff, s \in Statuses : BeginStatus(r, i, s)
           \/ CountReports(r)
           \/ Drop(r)
    PROVE  Inv'
<1>1. ASSUME NEW i \in staff, NEW s \in Statuses, BeginStatus(r, i, s) PROVE Inv'
  <2> DEFINE q == [Idle EXCEPT !.pc = IF s = "LEFT" THEN "counting" ELSE "updating",
                               !.target = i, !.status = s]
  <2>1. q \in Request /\ q.ids = Idle.ids /\ q.pc \notin {"checking", "inserting"}
      BY IdleTyped DEF Request, Idle, Inv, TypeOK
  <2>2. pending[r] = {}
      BY <1>1, ClosedWhenIdle DEF BeginStatus
  <2>3. Believes(r, q)
      BY <2>1, IdleTyped DEF Believes
  <2>4. Reads /\ req' = [req EXCEPT ![r] = q]
      BY <1>1 DEF BeginStatus, Reads
  <2> HIDE DEF q
  <2> QED BY <2>1, <2>2, <2>3, <2>4, ReadingKeeps
<1>2. CASE CountReports(r)
  <2> DEFINE q == [req[r] EXCEPT !.pc = "updating", !.active = Employed]
  <2>1. Reads /\ pending[r] = {} /\ req[r] \in Request
      BY <1>2, ClosedElsewhere DEF CountReports, Counted, Reads, Inv, TypeOK
  <2>2. CASE req' = [req EXCEPT ![r] = q]
    <3>1. Employed \in SUBSET Ids
        BY DEF Employed, Inv, TypeOK
    <3>2. q \in Request /\ q.ids = req[r].ids /\ q.pc = "updating"
        BY <2>1, <3>1 DEF Request
    <3>3. Believes(r, q)
        BY <3>2 DEF Inv, RequestsOK, Believes
    <3> HIDE DEF q
    <3> QED BY <2>1, <2>2, <3>2, <3>3, ReadingKeeps
  <2>3. CASE Finish(r)
      BY <2>1, <2>3, FinishKeeps
  <2>4. Finish(r) \/ req' = [req EXCEPT ![r].pc = "updating", ![r].active = Employed]
      BY <1>2 DEF CountReports, Counted
  <2>5. Finish(r) \/ req' = [req EXCEPT ![r] = q]
      BY <2>1, <2>4 DEF Inv, TypeOK, Request
  <2> QED BY <2>2, <2>3, <2>5
<1>3. CASE Drop(r)
    BY <1>3, ClosedElsewhere, FinishKeeps DEF Drop, Reads
<1> QED BY <1>1, <1>2, <1>3

-----------------------------------------------------------------------------
(* Inserting *)

LEMMA SeenArePresent == \A r \in Requests : Seen(r) \subseteq Present
BY DEF Seen, Present

LEMMA PresentTyped ==
    ASSUME Inv
    PROVE  Present \subseteq Ids /\ nextId \in Nat \ {0} /\ nextId \notin Present
<1>1. Present \subseteq Ids
    BY DEF Inv, TypeOK, Present
<1>2. nextId \in Nat \ {0}
    BY StaffConstants DEF Inv, TypeOK
<1>3. nextId \notin Present
    BY <1>2 DEF Inv, IdsOK
<1> QED BY <1>1, <1>2, <1>3

LEMMA InsertingKeeps ==
    ASSUME Inv, NEW r \in Requests, NEW p \in Person, NEW q \in Request,
           Insert(r, p), req' = [req EXCEPT ![r] = q], q.pc = "inserting",
           p.manager < nextId,
           p.file # {} => IF p.boss = NoEmail
                          THEN p.manager = NoOne
                          ELSE p.manager \in Seen(r) /\ person[p.manager].email = p.boss,
           \A e \in Emails : q.ids[e] # NoOne =>
               \/ q.ids[e] = nextId /\ p.email = e
               \/ q.ids[e] \in Seen(r) /\ person[q.ids[e]].email = e,
           \A x \in q.layer : Placeable(x, q.ids)
    PROVE  Inv'
<1>1. /\ nextId \in Ids /\ nextId' = nextId + 1 /\ staff' = staff
      /\ person' = [person EXCEPT ![nextId] = p]
      /\ pending' = [pending EXCEPT ![r] = @ \cup {nextId}]
    BY DEF Insert
<1>2. TypeOK'
  <2>1. nextId' \in 1..(MaxId + 1)
      BY <1>1, StaffConstants DEF Ids
  <2>2. person' \in [Ids -> Person] /\ pending' \in [Requests -> SUBSET Ids] /\ staff' \subseteq Ids
      BY <1>1 DEF Inv, TypeOK
  <2>3. req' \in [Requests -> Request]
      BY DEF Inv, TypeOK
  <2>4. \A s \in Requests : pending'[s] # {} => req'[s].pc = "inserting"
      BY <1>1 DEF Inv, TypeOK
  <2> QED BY <2>1, <2>2, <2>3, <2>4 DEF TypeOK
<1>3. /\ \A s \in Requests \ {r} : pending'[s] = pending[s]
      /\ pending'[r] = pending[r] \cup {nextId}
      /\ Present' = Present \cup {nextId}
    BY <1>1 DEF Present, Inv, TypeOK
<1>4. /\ person'[nextId] = p
      /\ \A i \in Present : person'[i] = person[i]
    BY <1>1, PresentTyped DEF Inv, TypeOK
<1>5. IdsOK'
  <2>1. \A i \in Present' : i < nextId'
      BY <1>1, <1>3, PresentTyped DEF Inv, IdsOK, Ids
  <2>2. \A s \in Requests : \A i \in pending'[s] :
            i \notin staff' /\ \A t \in Requests : i \in pending'[t] => t = s
    <3>1. \A s \in Requests : nextId \notin pending[s]
        BY PresentTyped DEF Present
    <3>2. nextId \notin staff
        BY PresentTyped DEF Present
    <3> QED BY <1>1, <1>3, <3>1, <3>2 DEF Inv, IdsOK
  <2> QED BY <2>1, <2>2 DEF IdsOK
<1>6. AddressesOK'
  <2>1. \A i \in Present : person[i].email # p.email
      BY DEF Insert, Free, Owners, Present
  <2> QED BY <1>3, <1>4, <2>1 DEF Inv, AddressesOK
<1>7. ManagersFirst'
    BY <1>1 DEF Inv, ManagersFirst, TypeOK
<1>8. \A s \in Requests : Seen(s) \subseteq Seen(s)'
    BY <1>1, <1>3 DEF Seen
<1>9. DescribedOK'
  <2>1. \A i \in staff : Fits(i, staff)'
    <3>1. \A i \in staff : Fits(i, staff) /\ staff \subseteq Present
        BY DEF Inv, DescribedOK, Present
    <3> QED BY <1>1, <1>4, <3>1 DEF Fits
  <2>2. \A i \in staff' : Fits(i, staff)'
      BY <1>1, <2>1
  <2>3. ASSUME NEW s \in Requests, NEW i \in pending'[s] PROVE Fits(i, Seen(s))'
    <3>1. CASE i \in pending[s]
      <4>1. i \in Present /\ Seen(s) \in SUBSET Present /\ Fits(i, Seen(s))
          BY <3>1 DEF Inv, DescribedOK, Present, Seen
      <4> QED BY <1>4, <1>8, <4>1 DEF Fits
    <3>2. CASE i \notin pending[s]
      <4>1. s = r /\ i = nextId
          BY <1>3, <2>3, <3>2
      <4> QED BY <1>4, <1>8, <4>1, SeenArePresent DEF Fits
    <3> QED BY <3>1, <3>2
  <2> QED BY <2>2, <2>3 DEF DescribedOK
<1>10. RequestsOK'
  <2> SUFFICES ASSUME NEW s \in Requests PROVE Believes(s, req[s])'
      BY DEF RequestsOK
  <2>1. CASE s # r
    <3>1. req'[s] = req[s]
        BY <2>1 DEF Inv, TypeOK
    <3> QED BY <1>1, <1>4, <1>8, <3>1, SeenArePresent DEF Inv, RequestsOK, Believes, Placeable
  <2>2. CASE s = r
    <3>1. req'[s] = q
        BY <2>2 DEF Inv, TypeOK
    <3>2. nextId \in Seen(r)'
        BY <1>3 DEF Seen
    <3>3. ASSUME NEW e \in Emails, q.ids[e] # NoOne
          PROVE  q.ids[e] \in Seen(r)' /\ person'[q.ids[e]].email = e
        BY <1>4, <1>8, <3>2, <3>3, SeenArePresent
    <3> QED BY <2>2, <3>1, <3>3 DEF Believes, Placeable
  <2> QED BY <2>1, <2>2
<1> QED BY <1>2, <1>5, <1>6, <1>7, <1>9, <1>10 DEF Inv

LEMMA InsertEmployeeKeeps ==
    ASSUME Inv, NEW r \in Requests, InsertEmployee(r)
    PROVE  Inv'
<1> DEFINE p == [Nobody EXCEPT !.email = req[r].email, !.manager = req[r].manager,
                               !.status = req[r].status]
           q == [Idle EXCEPT !.pc = "inserting"]
<1>1. req[r] \in Request /\ req[r].manager \in staff \cup {NoOne}
    BY DEF InsertEmployee, Inv, TypeOK, RequestsOK, Believes
<1>2. p \in Person /\ p.file = {} /\ p.manager = req[r].manager
    BY <1>1 DEF Nobody, Person, Request
<1>3. q \in Request /\ q.ids = Idle.ids /\ q.pc = "inserting" /\ q.layer = {}
    BY IdleTyped DEF Idle, Request
<1>4. req[r].manager < nextId
    BY <1>1, PresentTyped DEF Inv, IdsOK, Present, NoOne
<1>5. Insert(r, p) /\ req' = [req EXCEPT ![r] = q]
    BY DEF InsertEmployee
<1> HIDE DEF p, q
<1> QED BY <1>2, <1>3, <1>4, <1>5, IdleTyped, InsertingKeeps

LEMMA InsertImportedKeeps ==
    ASSUME Inv, NEW r \in Requests, NEW x \in req[r].layer, InsertImported(r, x)
    PROVE  Inv'
<1> DEFINE ids == req[r].ids
           p == [email |-> x.email, manager |-> Resolved(x, ids), status |-> x.status,
                 boss |-> x.boss, file |-> req[r].file]
           rows == req[r].rows \ {x}
           now == [ids EXCEPT ![x.email] = nextId]
           layer == IF req[r].layer = {x} THEN NextLayer(rows, now) ELSE req[r].layer \ {x}
           q == [req[r] EXCEPT !.rows = rows, !.ids = now, !.layer = layer]
<1>1. req[r] \in Request /\ req[r].pc = "inserting" /\ nextId \in Ids
    BY DEF InsertImported, Insert, Inv, TypeOK
<1>2. x \in FileRow /\ x.email \in Emails /\ x.boss \in Emails \cup {NoEmail} /\ x.status \in Statuses
    BY <1>1 DEF Request, FileRow
<1>3. ids \in [Emails -> Ids \cup {NoOne}] /\ now \in [Emails -> Ids \cup {NoOne}]
    BY <1>1, <1>2 DEF Request
<1>4. /\ Placeable(x, ids)
      /\ \A e \in Emails : ids[e] # NoOne => ids[e] \in Seen(r) /\ person[ids[e]].email = e
    BY <1>1 DEF Inv, RequestsOK, Believes
<1>5. IF x.boss = NoEmail
      THEN Resolved(x, ids) = NoOne
      ELSE Resolved(x, ids) \in Seen(r) /\ person[Resolved(x, ids)].email = x.boss
    BY <1>2, <1>4 DEF Placeable, Resolved
<1>6. Resolved(x, ids) \in Ids \cup {NoOne} /\ Resolved(x, ids) < nextId
    BY <1>5, SeenArePresent, PresentTyped DEF Inv, IdsOK, NoOne
<1>7. p \in Person /\ p.manager = Resolved(x, ids) /\ p.boss = x.boss /\ p.email = x.email
    BY <1>1, <1>2, <1>6 DEF Person, Request
<1>8. NoOne # nextId
    BY PresentTyped DEF NoOne
<1>9. \A e \in Emails : now[e] # NoOne =>
          \/ now[e] = nextId /\ x.email = e
          \/ now[e] \in Seen(r) /\ person[now[e]].email = e
    BY <1>3, <1>4
<1>10. layer \in SUBSET FileRow /\ rows \in SUBSET FileRow /\ \A y \in layer : Placeable(y, now)
  <2>1. \A y \in req[r].layer : Placeable(y, now)
    <3>1. \A y \in req[r].layer : Placeable(y, ids) /\ y.boss \in Emails \cup {NoEmail}
        BY <1>1 DEF Inv, RequestsOK, Believes, Request, FileRow
    <3> QED BY <1>2, <1>3, <1>8, <3>1 DEF Placeable
  <2> QED BY <1>1, <2>1 DEF NextLayer, Request
<1>11. q \in Request /\ q.ids = now /\ q.layer = layer /\ q.pc = "inserting"
  <2> HIDE DEF layer, rows, now
  <2> QED BY <1>1, <1>3, <1>10 DEF Request
<1>12. Insert(r, p)
    BY DEF InsertImported
<1>13. req' = [req EXCEPT ![r] = q]
    BY <1>1 DEF InsertImported, Inv, TypeOK, Request
<1> HIDE DEF p, q, now, layer, ids
<1>14. p.manager < nextId
    BY <1>6, <1>7
<1>15. IF p.boss = NoEmail
       THEN p.manager = NoOne
       ELSE p.manager \in Seen(r) /\ person[p.manager].email = p.boss
    BY <1>5, <1>7
<1>16. \A e \in Emails : q.ids[e] # NoOne =>
           \/ q.ids[e] = nextId /\ p.email = e
           \/ q.ids[e] \in Seen(r) /\ person[q.ids[e]].email = e
    BY <1>7, <1>9, <1>11
<1>17. \A y \in q.layer : Placeable(y, q.ids)
    BY <1>10, <1>11
<1> QED BY <1>7, <1>11, <1>12, <1>13, <1>14, <1>15, <1>16, <1>17, InsertingKeeps

-----------------------------------------------------------------------------
(* Ending *)

LEMMA CommitKeeps ==
    ASSUME Inv, NEW r \in Requests, Commit(r)
    PROVE  Inv'
<1>1. /\ staff' = staff \cup pending[r] /\ person' = person /\ nextId' = nextId
      /\ pending' = [pending EXCEPT ![r] = {}] /\ req' = [req EXCEPT ![r] = Idle]
    BY DEF Commit, Finish
<1>2. /\ Seen(r) = staff' /\ Present' = Present
      /\ \A s \in Requests \ {r} : pending'[s] = pending[s] /\ req'[s] = req[s]
      /\ pending'[r] = {} /\ req'[r] = Idle
    BY <1>1 DEF Seen, Present, Inv, TypeOK
<1>3. TypeOK'
    BY <1>1, <1>2, IdleTyped DEF Inv, TypeOK
<1>4. IdsOK'
  <2>1. \A i \in Present' : i < nextId'
      BY <1>1, <1>2 DEF Inv, IdsOK
  <2>2. ASSUME NEW s \in Requests, NEW i \in pending'[s]
        PROVE  i \notin staff' /\ \A t \in Requests : i \in pending'[t] => t = s
      BY <1>1, <1>2, <2>2 DEF Inv, IdsOK
  <2> QED BY <2>1, <2>2 DEF IdsOK
<1>5. AddressesOK' /\ ManagersFirst'
    BY <1>1, <1>2 DEF Inv, AddressesOK, ManagersFirst
<1>6. \A s \in Requests \ {r} : Seen(s) \subseteq Seen(s)'
    BY <1>1, <1>2 DEF Seen
<1>7. DescribedOK'
  <2>1. \A i \in staff' : Fits(i, staff)'
    <3>1. \A i \in staff : Fits(i, staff)
        BY DEF Inv, DescribedOK
    <3>2. \A i \in pending[r] : Fits(i, staff')
        BY <1>2 DEF Inv, DescribedOK
    <3> QED BY <1>1, <3>1, <3>2 DEF Fits
  <2>2. ASSUME NEW s \in Requests, NEW i \in pending'[s] PROVE Fits(i, Seen(s))'
    <3>1. s # r /\ i \in pending[s] /\ Fits(i, Seen(s))
        BY <1>2, <2>2 DEF Inv, DescribedOK
    <3> QED BY <1>1, <1>6, <3>1 DEF Fits
  <2> QED BY <2>1, <2>2 DEF DescribedOK
<1>8. RequestsOK'
  <2> SUFFICES ASSUME NEW s \in Requests PROVE Believes(s, req[s])'
      BY DEF RequestsOK
  <2>1. CASE s = r
      BY <1>2, <2>1, IdleTyped DEF Believes, Idle
  <2>2. CASE s # r
    <3>1. req'[s] = req[s] /\ Believes(s, req[s]) /\ Seen(s) \subseteq Seen(s)'
        BY <1>2, <1>6, <2>2 DEF Inv, RequestsOK
    <3> QED BY <1>1, <3>1 DEF Believes, Placeable
  <2> QED BY <2>1, <2>2
<1> QED BY <1>3, <1>4, <1>5, <1>7, <1>8 DEF Inv

LEMMA AbortKeeps ==
    ASSUME Inv, NEW r \in Requests, Abort(r)
    PROVE  Inv'
<1>1. /\ staff' = staff /\ nextId' = nextId
      /\ person' = [i \in Ids |-> IF i \in pending[r] THEN Nobody ELSE person[i]]
      /\ pending' = [pending EXCEPT ![r] = {}] /\ req' = [req EXCEPT ![r] = Idle]
    BY DEF Abort, Finish
<1>2. /\ \A s \in Requests \ {r} : pending'[s] = pending[s] /\ req'[s] = req[s]
      /\ pending'[r] = {} /\ req'[r] = Idle
    BY <1>1 DEF Inv, TypeOK
<1>3. Present' \subseteq Present \ pending[r]
    BY <1>1, <1>2 DEF Present, Inv, IdsOK
<1>4. \A i \in Present \ pending[r] : person'[i] = person[i]
    BY <1>1, PresentTyped
<1>5. Nobody \in Person /\ Nobody.manager = NoOne
    BY DEF Nobody, Person, Statuses
<1>6. TypeOK'
  <2>1. person' \in [Ids -> Person]
      BY <1>1, <1>5 DEF Inv, TypeOK
  <2> QED BY <1>1, <1>2, <2>1, IdleTyped DEF Inv, TypeOK
<1>7. IdsOK'
  <2>1. \A i \in Present' : i < nextId'
      BY <1>1, <1>3 DEF Inv, IdsOK
  <2> QED BY <1>1, <1>2, <2>1 DEF Inv, IdsOK
<1>8. AddressesOK'
    BY <1>3, <1>4 DEF Inv, AddressesOK
<1>9. ManagersFirst'
    BY <1>1, <1>5 DEF Inv, ManagersFirst, NoOne, Ids
<1>10. /\ \A s \in Requests \ {r} : Seen(s)' = Seen(s) /\ Seen(s) \subseteq Present \ pending[r]
       /\ staff \subseteq Present \ pending[r]
  <2>1. \A s \in Requests \ {r} : \A i \in pending[s] : i \notin pending[r]
      BY DEF Inv, IdsOK
  <2>2. \A i \in staff : i \notin pending[r]
      BY DEF Inv, IdsOK
  <2> QED BY <1>1, <1>2, <2>1, <2>2 DEF Seen, Present
<1>11. DescribedOK'
  <2>1. \A i \in staff' : Fits(i, staff)'
      BY <1>1, <1>4, <1>10 DEF Inv, DescribedOK, Fits
  <2>2. ASSUME NEW s \in Requests, NEW i \in pending'[s] PROVE Fits(i, Seen(s))'
    <3>1. s # r /\ i \in Seen(s) /\ Fits(i, Seen(s))
        BY <1>2, <2>2 DEF Inv, DescribedOK, Seen
    <3> QED BY <1>4, <1>10, <3>1 DEF Fits
  <2> QED BY <2>1, <2>2 DEF DescribedOK
<1>12. RequestsOK'
  <2> SUFFICES ASSUME NEW s \in Requests PROVE Believes(s, req[s])'
      BY DEF RequestsOK
  <2>1. CASE s = r
      BY <1>2, <2>1, IdleTyped DEF Believes, Idle
  <2>2. CASE s # r
    <3>1. req'[s] = req[s] /\ Believes(s, req[s])
        BY <1>2, <2>2 DEF Inv, RequestsOK
    <3> QED BY <1>1, <1>4, <1>10, <2>2, <3>1 DEF Believes, Placeable
  <2> QED BY <2>1, <2>2
<1> QED BY <1>6, <1>7, <1>8, <1>9, <1>11, <1>12 DEF Inv

LEMMA UpdateKeeps ==
    ASSUME Inv, NEW r \in Requests, UpdateStatus(r)
    PROVE  Inv'
<1>1. /\ UNCHANGED <<staff, pending, nextId>> /\ req' = [req EXCEPT ![r] = Idle]
      /\ req[r] \in Request /\ req[r].pc = "updating"
      /\ person' = [person EXCEPT ![req[r].target].status = req[r].status]
    BY DEF UpdateStatus, Finish, Inv, TypeOK
<1>2. pending[r] = {}
    BY <1>1, ClosedElsewhere
<1>3. person' \in [Ids -> Person]
  <2>1. \A p \in Person, s \in Statuses : [p EXCEPT !.status = s] \in Person
      BY DEF Person
  <2>2. req[r].status \in Statuses
      BY <1>1 DEF Request
  <2>3. \A i \in Ids : [person[i] EXCEPT !.status = req[r].status] \in Person
      BY <2>1, <2>2 DEF Inv, TypeOK
  <2> QED BY <1>1, <2>3 DEF Inv, TypeOK
<1>4. \A i \in Ids : /\ person'[i].email = person[i].email
                     /\ person'[i].manager = person[i].manager
                     /\ person'[i].boss = person[i].boss
                     /\ person'[i].file = person[i].file
    BY <1>1 DEF Inv, TypeOK, Person
<1>5. Present' = Present /\ \A s \in Requests : Seen(s)' = Seen(s) /\ Seen(s) \subseteq Ids
    BY <1>1, SeenArePresent, PresentTyped DEF Present, Seen
<1>6. TypeOK'
    BY <1>1, <1>2, <1>3, IdleTyped DEF Inv, TypeOK
<1>7. IdsOK'
    BY <1>1, <1>5 DEF Inv, IdsOK
<1>8. AddressesOK' /\ ManagersFirst'
    BY <1>4, <1>5, PresentTyped DEF Inv, AddressesOK, ManagersFirst
<1>9. DescribedOK'
  <2>1. staff \subseteq Ids
      BY DEF Inv, TypeOK
  <2>2. \A i \in staff' : Fits(i, staff)'
      BY <1>1, <1>4, <2>1 DEF Inv, DescribedOK, Fits
  <2>3. \A s \in Requests : \A i \in pending'[s] : Fits(i, Seen(s))'
    <3>1. \A s \in Requests : \A i \in pending[s] : i \in Ids /\ Fits(i, Seen(s))
        BY DEF Inv, DescribedOK, TypeOK
    <3> QED BY <1>1, <1>4, <1>5, <3>1 DEF Fits
  <2> QED BY <2>2, <2>3 DEF DescribedOK
<1>10. RequestsOK'
  <2> SUFFICES ASSUME NEW s \in Requests PROVE Believes(s, req[s])'
      BY DEF RequestsOK
  <2>1. CASE s = r
    <3>1. req'[r] = Idle
        BY <1>1 DEF Inv, TypeOK
    <3> QED BY <2>1, <3>1, IdleTyped DEF Believes, Idle
  <2>2. CASE s # r
    <3>1. req'[s] = req[s] /\ Believes(s, req[s])
        BY <1>1, <2>2 DEF Inv, TypeOK, RequestsOK
    <3> QED BY <1>1, <1>4, <1>5, <3>1 DEF Believes, Placeable
  <2> QED BY <2>1, <2>2
<1> QED BY <1>6, <1>7, <1>8, <1>9, <1>10 DEF Inv

-----------------------------------------------------------------------------
(* What follows *)

LEMMA StepKeeps == Inv /\ [Next]_vars => Inv'
<1> SUFFICES ASSUME Inv, [Next]_vars PROVE Inv'
    OBVIOUS
<1>1. ASSUME NEW r \in Requests,
             \/ \E e \in Emails, m \in Ids \cup {NoOne}, s \in Statuses : BeginCreate(r, e, m, s)
             \/ CheckEmail(r)
             \/ CheckManager(r)
      PROVE  Inv'
    BY <1>1, CreateReads
<1>2. ASSUME NEW r \in Requests,
             \/ \E f \in Files : BeginImport(r, f)
             \/ \E e \in Emails : LookUp(r, e)
             \/ CheckFile(r)
      PROVE  Inv'
    BY <1>2, ImportReads
<1>3. ASSUME NEW r \in Requests,
             \/ \E i \in staff, s \in Statuses : BeginStatus(r, i, s)
             \/ CountReports(r)
             \/ Drop(r)
      PROVE  Inv'
    BY <1>3, StatusReads
<1>4. ASSUME NEW r \in Requests,
             InsertEmployee(r) \/ \E x \in req[r].layer : InsertImported(r, x)
      PROVE  Inv'
    BY <1>4, InsertEmployeeKeeps, InsertImportedKeeps
<1>5. ASSUME NEW r \in Requests, Commit(r) \/ Abort(r) \/ UpdateStatus(r) PROVE Inv'
    BY <1>5, CommitKeeps, AbortKeeps, UpdateKeeps
<1>6. CASE UNCHANGED vars
  <2> USE <1>6 DEF vars
  <2>1. TypeOK' /\ IdsOK' /\ AddressesOK' /\ ManagersFirst' /\ DescribedOK'
      BY DEF Inv, TypeOK, IdsOK, AddressesOK, ManagersFirst, DescribedOK, Present, Seen, Fits
  <2>2. RequestsOK'
      BY DEF Inv, RequestsOK, Believes, Seen, Placeable
  <2> QED BY <2>1, <2>2 DEF Inv
<1> QED BY <1>1, <1>2, <1>3, <1>4, <1>5, <1>6 DEF Next

THEOREM Invariance == Spec => []Inv
<1> QED BY Initially, StepKeeps, PTL DEF Spec

\* The variables keep their types, and a transaction is open only while its request is
\* inserting (db.transaction).
THEOREM TypeCorrect == Spec => []TypeOK
<1>1. Inv => TypeOK
    BY DEF Inv
<1> QED BY <1>1, Invariance, PTL

\* However many requests look for an address at once, one record of it is committed
\* (employees_email_lower_idx).
THEOREM AddressesUnique == Spec => []OnePerAddress
<1>1. Inv => OnePerAddress
    BY DEF Inv, AddressesOK, OnePerAddress, Present
<1> QED BY <1>1, Invariance, PTL

\* Whatever the order of a file's rows, everybody it creates reports to the owner of the
\* address it names (orderByManager, insertImportedEmployees).
THEOREM ImportedAsDescribed == Spec => []AsDescribed
<1>1. Inv => \A i \in staff : Fits(i, staff)
    BY DEF Inv, DescribedOK
<1>2. (\A i \in staff : Fits(i, staff)) => AsDescribed
    BY DEF Fits, AsDescribed, Owners
<1> QED BY <1>1, <1>2, Invariance, PTL

LEMMA Smallest ==
    ASSUME NEW S \in SUBSET Nat, S # {}
    PROVE  \E n \in S : \A m \in S : n <= m
<1> DEFINE R == {p \in Nat \X Nat : p[1] < p[2]}
<1>1. IsWellFoundedOn(R, Nat)
    BY NatLessThanWellFounded DEF OpToRel
<1>2. \A u, v \in Nat : u < v => <<u, v>> \in R
    OBVIOUS
<1> HIDE DEF R
<1>3. PICK n \in S : \A m \in S : <<m, n>> \notin R
    BY <1>1, WFMin
<1>4. \A m \in S : ~(m < n)
    BY <1>2, <1>3
<1> QED BY <1>3, <1>4

\* Nobody manages themselves through any chain, because creates and imports only ever name
\* somebody with a smaller id: the recursion of teamCte ends.
THEOREM ManagementEnds == Spec => []NoCycle
<1>1. Inv => NoCycle
  <2> SUFFICES ASSUME Inv, NEW S \in (SUBSET staff) \ {{}}
               PROVE  \E i \in S : person[i].manager \notin S
      BY DEF NoCycle
  <2>1. S \in SUBSET Nat /\ S # {} /\ S \subseteq Ids
    <3>1. Ids \subseteq Nat
        BY StaffConstants DEF Ids
    <3> QED BY <3>1 DEF Inv, TypeOK
  <2>2. PICK i \in S : \A j \in S : i <= j
      BY <2>1, Smallest
  <2>3. person[i].manager < i /\ person[i].manager \in Ids \cup {NoOne}
      BY <2>1 DEF Inv, ManagersFirst, TypeOK, Person
  <2>4. person[i].manager \notin S
      BY <2>1, <2>2, <2>3 DEF Ids, NoOne
  <2> QED BY <2>4
<1> QED BY <1>1, Invariance, PTL

-----------------------------------------------------------------------------
(* What a step leaves of the records, and of the other requests *)

\* Nobody leaves the table, and of a record that stays only the status may change.
RecordsKept ==
    /\ staff \subseteq staff'
    /\ \A i \in Present \cap Present' : /\ person'[i].email = person[i].email
                                        /\ person'[i].manager = person[i].manager
                                        /\ person'[i].file = person[i].file

LEMMA RecordsStay == Inv /\ [Next]_vars => RecordsKept
<1> SUFFICES ASSUME Inv, [Next]_vars PROVE RecordsKept
    OBVIOUS
<1>1. CASE UNCHANGED <<staff, person>>
    BY <1>1 DEF RecordsKept
<1>2. ASSUME NEW r \in Requests, NEW p, Insert(r, p)
      PROVE  RecordsKept
  <2>1. staff' = staff /\ person' = [person EXCEPT ![nextId] = p]
      BY <1>2 DEF Insert
  <2>2. \A i \in Present : person'[i] = person[i]
      BY <2>1, PresentTyped DEF Inv, TypeOK
  <2> QED BY <2>1, <2>2 DEF RecordsKept
<1>3. ASSUME NEW r \in Requests, Commit(r)
      PROVE  RecordsKept
    BY <1>3 DEF Commit, RecordsKept
<1>4. ASSUME NEW r \in Requests, Abort(r)
      PROVE  RecordsKept
  <2>1. Present' \cap pending[r] = {}
      BY <1>4 DEF Abort, Present, Inv, IdsOK, TypeOK
  <2>2. \A i \in Ids \ pending[r] : person'[i] = person[i]
      BY <1>4 DEF Abort
  <2> QED BY <1>4, <2>1, <2>2, PresentTyped DEF Abort, RecordsKept
<1>5. ASSUME NEW r \in Requests, UpdateStatus(r)
      PROVE  RecordsKept
  <2>1. \A i \in Ids : /\ person'[i].email = person[i].email
                       /\ person'[i].manager = person[i].manager
                       /\ person'[i].file = person[i].file
      BY <1>5 DEF UpdateStatus, Inv, TypeOK, Person
  <2> QED BY <1>5, <2>1, PresentTyped DEF UpdateStatus, RecordsKept
<1> QED BY <1>1, <1>2, <1>3, <1>4, <1>5
        DEF Next, vars, BeginCreate, CheckEmail, CheckManager, InsertEmployee, BeginImport,
            LookUp, CheckFile, InsertImported, Drop, BeginStatus, CountReports, Counted

-----------------------------------------------------------------------------
(* A departure and the reports it counted *)

\* Whoever was employed when nobody reported to the departing still reports to somebody else.
DepartureOK ==
    \A r \in Requests : req[r].pc = "updating" =>
        \A j \in req[r].active : j \in staff /\ person[j].manager # req[r].target

LEMMA DepartureKept ==
    ASSUME Inv, DepartureOK, RecordsKept, NEW r \in Requests, NEW q,
           req' = [req EXCEPT ![r] = q],
           q.pc = "updating" => \A j \in q.active : j \in staff /\ person[j].manager # q.target
    PROVE  DepartureOK'
<1>1. \A j \in staff : j \in staff' /\ person'[j].manager = person[j].manager
    BY DEF RecordsKept, Present
<1>2. req'[r] = q /\ \A s \in Requests \ {r} : req'[s] = req[s]
    BY DEF Inv, TypeOK
<1> QED BY <1>1, <1>2 DEF DepartureOK

LEMMA DepartureStep == Inv /\ DepartureOK /\ [Next]_vars => DepartureOK'
<1> SUFFICES ASSUME Inv, DepartureOK, [Next]_vars PROVE DepartureOK'
    OBVIOUS
<1>1. RecordsKept
    BY RecordsStay
<1>2. \A r \in Requests : req[r] \in Request
    BY DEF Inv, TypeOK
<1>3. ASSUME NEW r \in Requests, Finish(r)
      PROVE  DepartureOK'
  <2>1. Idle.pc # "updating"
      BY DEF Idle
  <2> QED BY <1>1, <1>3, <2>1, DepartureKept DEF Finish
\* A request that goes on elsewhere.
<1>4. ASSUME NEW r \in Requests, NEW q, req' = [req EXCEPT ![r] = q], q.pc # "updating"
      PROVE  DepartureOK'
    BY <1>1, <1>4, DepartureKept
<1>5. ASSUME NEW r \in Requests, NEW e \in Emails, NEW m \in Ids \cup {NoOne}, NEW s \in Statuses,
             BeginCreate(r, e, m, s)
      PROVE  DepartureOK'
  <2> DEFINE q == [Idle EXCEPT !.pc = "checking", !.email = e, !.manager = m,
                               !.status = s, !.toCheck = {"email", "manager"}]
  <2>1. req' = [req EXCEPT ![r] = q] /\ q.pc = "checking"
      BY <1>5 DEF BeginCreate, Idle
  <2> HIDE DEF q
  <2> QED BY <1>4, <2>1
<1>6. ASSUME NEW r \in Requests, NEW what, Checked(r, what), req[r].pc = "checking"
      PROVE  DepartureOK'
  <2> DEFINE q == [req[r] EXCEPT !.toCheck = @ \ {what}]
  <2>1. req' = [req EXCEPT ![r] = q] /\ q.pc = "checking"
      BY <1>2, <1>6 DEF Checked, Inv, TypeOK, Request
  <2> HIDE DEF q
  <2> QED BY <1>4, <2>1
<1>7. ASSUME NEW r \in Requests, CheckEmail(r) \/ CheckManager(r)
      PROVE  DepartureOK'
    BY <1>3, <1>6, <1>7 DEF CheckEmail, CheckManager
<1>8. ASSUME NEW r \in Requests, InsertEmployee(r)
      PROVE  DepartureOK'
  <2> DEFINE q == [Idle EXCEPT !.pc = "inserting"]
  <2>1. req' = [req EXCEPT ![r] = q] /\ q.pc = "inserting"
      BY <1>8 DEF InsertEmployee, Idle
  <2> HIDE DEF q
  <2> QED BY <1>4, <2>1
<1>9. ASSUME NEW r \in Requests, NEW f \in Files, BeginImport(r, f)
      PROVE  DepartureOK'
  <2> DEFINE q == [Idle EXCEPT !.pc = "lookingUp", !.file = f, !.toCheck = Mentioned(f)]
  <2>1. req' = [req EXCEPT ![r] = q] /\ q.pc = "lookingUp"
      BY <1>9 DEF BeginImport, Idle
  <2> HIDE DEF q
  <2> QED BY <1>4, <2>1
<1>10. ASSUME NEW r \in Requests, NEW e \in Emails, LookUp(r, e)
       PROVE  DepartureOK'
  <2> DEFINE q == [req[r] EXCEPT !.toCheck = @ \ {e}, !.ids[e] = IdOf(e)]
  <2>1. req' = [req EXCEPT ![r] = q] /\ q.pc = "lookingUp"
      BY <1>2, <1>10 DEF LookUp, Inv, TypeOK, Request
  <2> HIDE DEF q
  <2> QED BY <1>4, <2>1
<1>11. ASSUME NEW r \in Requests, CheckFile(r)
       PROVE  DepartureOK'
  <2> DEFINE f == req[r].file
             q == [req[r] EXCEPT !.pc = "inserting", !.rows = f,
                                 !.layer = NextLayer(f, req[r].ids)]
  <2>1. Finish(r) \/ req' = [req EXCEPT ![r].pc = "inserting", ![r].rows = f,
                                        ![r].layer = NextLayer(f, req[r].ids)]
      BY <1>11 DEF CheckFile
  <2>2. Finish(r) \/ req' = [req EXCEPT ![r] = q]
      BY <1>2, <2>1 DEF Inv, TypeOK, Request
  <2>3. q.pc = "inserting"
      BY <1>2 DEF Request
  <2> HIDE DEF q
  <2> QED BY <1>3, <1>4, <2>2, <2>3
<1>12. ASSUME NEW r \in Requests, NEW x \in req[r].layer, InsertImported(r, x)
       PROVE  DepartureOK'
  <2>1. req[r].pc = "inserting" /\ req'[r].pc = "inserting"
        /\ \A s \in Requests \ {r} : req'[s] = req[s]
      BY <1>2, <1>12 DEF InsertImported, Inv, TypeOK, Request
  <2>2. \A j \in staff : j \in staff' /\ person'[j].manager = person[j].manager
      BY <1>1 DEF RecordsKept, Present
  <2> QED BY <2>1, <2>2 DEF DepartureOK
<1>13. ASSUME NEW r \in Requests, NEW i \in staff, NEW s \in Statuses, BeginStatus(r, i, s)
       PROVE  DepartureOK'
  <2> DEFINE q == [Idle EXCEPT !.pc = IF s = "LEFT" THEN "counting" ELSE "updating",
                               !.target = i, !.status = s]
  <2>1. req' = [req EXCEPT ![r] = q] /\ q.active = {}
      BY <1>13 DEF BeginStatus, Idle
  <2> HIDE DEF q
  <2> QED BY <1>1, <2>1, DepartureKept
\* The count found nobody employed among the reports.
<1>14. ASSUME NEW r \in Requests, CountReports(r)
       PROVE  DepartureOK'
  <2> DEFINE q == [req[r] EXCEPT !.pc = "updating", !.active = Employed]
  <2>1. CASE ActiveReports(req[r].target) = {}
    <3>1. req' = [req EXCEPT ![r] = q]
        BY <1>2, <1>14, <2>1 DEF CountReports, Counted, Inv, TypeOK, Request
    <3>2. q.active = Employed /\ q.target = req[r].target
        BY <1>2 DEF Request
    <3>3. \A j \in q.active : j \in staff /\ person[j].manager # q.target
        BY <2>1, <3>2 DEF Employed, ActiveReports
    <3> HIDE DEF q
    <3> QED BY <1>1, <3>1, <3>3, DepartureKept
  <2>2. CASE ActiveReports(req[r].target) # {}
      BY <1>3, <1>14, <2>2 DEF CountReports, Counted
  <2> QED BY <2>1, <2>2
<1>15. ASSUME NEW r \in Requests, Commit(r) \/ Abort(r) \/ Drop(r) \/ UpdateStatus(r)
       PROVE  DepartureOK'
    BY <1>3, <1>15 DEF Commit, Abort, Drop, UpdateStatus
<1>16. CASE UNCHANGED vars
    BY <1>16 DEF vars, DepartureOK
<1> QED BY <1>5, <1>7, <1>8, <1>9, <1>10, <1>11, <1>12, <1>13, <1>14, <1>15, <1>16 DEF Next

\* Marking somebody as having left overtakes nobody the count could have seen: whoever reports to
\* them by then and was employed at the count reported to somebody else, and managers never
\* change (changeStatus).
THEOREM DeparturesSawTheirReports == Spec => DepartureSawReports
<1>1. Init => DepartureOK
    BY DEF Init, DepartureOK, Idle
<1>2. DepartureOK =>
          [\A r \in Requests :
              (req[r].pc = "updating" /\ req[r].status = "LEFT" /\ req'[r] # req[r] /\ person' # person)
                  => ActiveReports(req[r].target) \cap req[r].active = {}]_vars
    BY DEF DepartureOK, ActiveReports
<1> QED BY <1>1, <1>2, Invariance, DepartureStep, PTL DEF Spec, DepartureSawReports

-----------------------------------------------------------------------------
(* All of a file or none of it *)

\* What a transaction has inserted is of its file, and whatever of the file is not inserted yet is
\* still among the rows to insert.
Loading(r) ==
    req[r].pc = "inserting" =>
        /\ \A i \in pending[r] : person[i].file = req[r].file
        /\ \A x \in req[r].file :
              x \in req[r].rows \/ \E j \in pending[r] : person[j].email = x.email

FilesOK == WholeFile /\ \A r \in Requests : Loading(r)

\* A step of one request leaves the transactions of the others as they were.
LEMMA OthersLoad ==
    ASSUME Inv, FilesOK, RecordsKept, NEW r \in Requests, Loading(r)',
           UNCHANGED staff \/ WholeFile',
           \A s \in Requests \ {r} : req'[s] = req[s] /\ pending'[s] = pending[s]
    PROVE  FilesOK'
<1>1. ASSUME NEW s \in Requests \ {r}
      PROVE  Loading(s)'
  <2>1. req'[s] = req[s] /\ pending'[s] = pending[s] /\ Loading(s)
      BY DEF FilesOK
  <2>2. \A i \in pending[s] : person'[i].email = person[i].email /\ person'[i].file = person[i].file
      BY <2>1 DEF RecordsKept, Present
  <2> QED BY <2>1, <2>2 DEF Loading
<1>2. CASE UNCHANGED staff
  <2>1. \A i \in staff : person'[i].email = person[i].email /\ person'[i].file = person[i].file
      BY DEF RecordsKept, Present
  <2>2. WholeFile'
      BY <1>2, <2>1 DEF FilesOK, WholeFile
  <2> QED BY <1>1, <2>2 DEF FilesOK
<1> QED BY <1>1, <1>2 DEF FilesOK

\* A request that inserts nothing, and where it begins to insert has a whole file before it.
LEMMA NothingInserted ==
    ASSUME Inv, FilesOK, RecordsKept, UNCHANGED <<staff, pending>>, NEW r \in Requests, NEW q,
           req' = [req EXCEPT ![r] = q], pending[r] = {},
           q.pc = "inserting" => q.rows = q.file
    PROVE  FilesOK'
<1>1. req'[r] = q /\ \A s \in Requests \ {r} : req'[s] = req[s]
    BY DEF Inv, TypeOK
<1>2. Loading(r)'
    BY <1>1 DEF Loading
<1> QED BY <1>1, <1>2, OthersLoad

LEMMA FilesStep == Inv /\ FilesOK /\ [Next]_vars => FilesOK'
<1> SUFFICES ASSUME Inv, FilesOK, [Next]_vars PROVE FilesOK'
    OBVIOUS
<1>1. RecordsKept
    BY RecordsStay
<1>2. \A r \in Requests : req[r] \in Request /\ (pending[r] # {} => req[r].pc = "inserting")
    BY DEF Inv, TypeOK
<1>3. ASSUME NEW r \in Requests, Finish(r), UNCHANGED <<staff, pending>>, pending[r] = {}
      PROVE  FilesOK'
  <2>1. Idle.pc # "inserting"
      BY DEF Idle
  <2> QED BY <1>1, <1>3, <2>1, NothingInserted DEF Finish
\* A request that goes on elsewhere.
<1>4. ASSUME NEW r \in Requests, NEW q, req' = [req EXCEPT ![r] = q], q.pc # "inserting",
             UNCHANGED <<staff, pending>>, pending[r] = {}
      PROVE  FilesOK'
    BY <1>1, <1>4, NothingInserted
<1>5. ASSUME NEW r \in Requests, NEW e \in Emails, NEW m \in Ids \cup {NoOne}, NEW s \in Statuses,
             BeginCreate(r, e, m, s)
      PROVE  FilesOK'
  <2> DEFINE q == [Idle EXCEPT !.pc = "checking", !.email = e, !.manager = m,
                               !.status = s, !.toCheck = {"email", "manager"}]
  <2>1. req' = [req EXCEPT ![r] = q] /\ q.pc = "checking" /\ UNCHANGED <<staff, pending>>
        /\ pending[r] = {}
      BY <1>5, ClosedWhenIdle DEF BeginCreate, Idle
  <2> HIDE DEF q
  <2> QED BY <1>4, <2>1
<1>6. ASSUME NEW r \in Requests, NEW what, Checked(r, what), req[r].pc = "checking",
             UNCHANGED <<staff, pending>>
      PROVE  FilesOK'
  <2> DEFINE q == [req[r] EXCEPT !.toCheck = @ \ {what}]
  <2>1. req' = [req EXCEPT ![r] = q] /\ q.pc = "checking" /\ pending[r] = {}
      BY <1>2, <1>6 DEF Checked, Inv, TypeOK, Request
  <2> HIDE DEF q
  <2> QED BY <1>4, <1>6, <2>1
<1>7. ASSUME NEW r \in Requests, CheckEmail(r) \/ CheckManager(r)
      PROVE  FilesOK'
  <2>1. req[r].pc = "checking" /\ UNCHANGED <<staff, pending>>
        /\ (Finish(r) \/ \E what \in {"email", "manager"} : Checked(r, what))
      BY <1>7 DEF CheckEmail, CheckManager
  <2> QED BY <1>2, <1>3, <1>6, <2>1
<1>8. ASSUME NEW r \in Requests, InsertEmployee(r)
      PROVE  FilesOK'
  <2> DEFINE p == [Nobody EXCEPT !.email = req[r].email, !.manager = req[r].manager,
                                 !.status = req[r].status]
             q == [Idle EXCEPT !.pc = "inserting"]
  <2>1. req'[r] = q /\ \A s \in Requests \ {r} : req'[s] = req[s]
      BY <1>8 DEF InsertEmployee, Inv, TypeOK
  <2>6. q.file = {}
      BY DEF Idle
  <2>2. pending[r] = {} /\ p.file = {}
      BY <1>2, <1>8 DEF InsertEmployee, Nobody
  <2> HIDE DEF p, q
  <2>3. Insert(r, p)
      BY <1>8 DEF InsertEmployee, p
  <2>4. /\ UNCHANGED staff /\ pending'[r] = {nextId} /\ person'[nextId] = p
        /\ \A s \in Requests \ {r} : pending'[s] = pending[s]
      BY <2>2, <2>3 DEF Insert, Inv, TypeOK
  <2>5. Loading(r)'
      BY <2>1, <2>2, <2>4, <2>6 DEF Loading
  <2> QED BY <1>1, <2>1, <2>4, <2>5, OthersLoad
<1>9. ASSUME NEW r \in Requests, NEW f \in Files, BeginImport(r, f)
      PROVE  FilesOK'
  <2> DEFINE q == [Idle EXCEPT !.pc = "lookingUp", !.file = f, !.toCheck = Mentioned(f)]
  <2>1. req' = [req EXCEPT ![r] = q] /\ UNCHANGED <<staff, pending>> /\ pending[r] = {}
      BY <1>9, ClosedWhenIdle DEF BeginImport
  <2>2. q.pc = "lookingUp"
      BY DEF Idle
  <2> HIDE DEF q
  <2> QED BY <1>4, <2>1, <2>2
<1>10. ASSUME NEW r \in Requests, NEW e \in Emails, LookUp(r, e)
       PROVE  FilesOK'
  <2> DEFINE q == [req[r] EXCEPT !.toCheck = @ \ {e}, !.ids[e] = IdOf(e)]
  <2>3. req \in [Requests -> Request]
      BY <1>2 DEF Inv, TypeOK
  <2>4. req' = [req EXCEPT ![r].toCheck = @ \ {e}, ![r].ids[e] = IdOf(e)]
      BY <1>10 DEF LookUp
  <2>1. req' = [req EXCEPT ![r] = q]
      BY <2>3, <2>4 DEF Request
  <2>2. q.pc = "lookingUp" /\ UNCHANGED <<staff, pending>> /\ pending[r] = {}
      BY <1>2, <1>10 DEF LookUp, Request
  <2> HIDE DEF q
  <2> QED BY <1>4, <2>1, <2>2
<1>11. ASSUME NEW r \in Requests, CheckFile(r)
       PROVE  FilesOK'
  <2> DEFINE f == req[r].file
             q == [req[r] EXCEPT !.pc = "inserting", !.rows = f,
                                 !.layer = NextLayer(f, req[r].ids)]
  <2>1. Finish(r) \/ req' = [req EXCEPT ![r].pc = "inserting", ![r].rows = f,
                                        ![r].layer = NextLayer(f, req[r].ids)]
      BY <1>11 DEF CheckFile
  <2>2. Finish(r) \/ req' = [req EXCEPT ![r] = q]
    <3>1. req \in [Requests -> Request] /\ req[r] \in Request
        BY DEF Inv, TypeOK
    <3> QED BY <2>1, <3>1 DEF Request
  <2>3. q.rows = f /\ q.file = f
      BY <1>2 DEF Request
  <2>4. UNCHANGED <<staff, pending>> /\ pending[r] = {}
      BY <1>2, <1>11 DEF CheckFile
  <2> HIDE DEF q
  <2> QED BY <1>1, <1>3, <2>2, <2>3, <2>4, NothingInserted
\* The row that goes in is the one that leaves what is left.
<1>12. ASSUME NEW r \in Requests, NEW x \in req[r].layer, InsertImported(r, x)
       PROVE  FilesOK'
  <2> DEFINE p == [email |-> x.email, manager |-> Resolved(x, req[r].ids), status |-> x.status,
                   boss |-> x.boss, file |-> req[r].file]
  <2>1. /\ req[r].pc = "inserting"
        /\ req'[r].file = req[r].file /\ req'[r].rows = req[r].rows \ {x}
        /\ \A s \in Requests \ {r} : req'[s] = req[s]
      BY <1>2, <1>12 DEF InsertImported, Inv, TypeOK, Request
  <2>2. Insert(r, p) /\ p.email = x.email /\ p.file = req[r].file
      BY <1>12 DEF InsertImported
  <2> HIDE DEF p
  <2>3. /\ UNCHANGED staff /\ pending'[r] = pending[r] \cup {nextId} /\ person'[nextId] = p
        /\ \A s \in Requests \ {r} : pending'[s] = pending[s]
        /\ \A i \in pending[r] : person'[i] = person[i]
      BY <2>2, PresentTyped DEF Insert, Inv, TypeOK, Present
  <2>4. Loading(r)'
      BY <2>1, <2>2, <2>3 DEF FilesOK, Loading
  <2> QED BY <1>1, <2>1, <2>3, <2>4, OthersLoad
<1>13. ASSUME NEW r \in Requests, Commit(r)
       PROVE  FilesOK'
  <2>1. /\ req[r].pc = "inserting" /\ req[r].rows = {} /\ req'[r].pc # "inserting"
        /\ staff' = staff \cup pending[r] /\ UNCHANGED person
        /\ \A s \in Requests \ {r} : req'[s] = req[s] /\ pending'[s] = pending[s]
      BY <1>13 DEF Commit, Finish, Idle, Inv, TypeOK
  <2>2. WholeFile'
    <3>1. SUFFICES ASSUME NEW i \in staff', NEW x \in person'[i].file
                   PROVE  \E j \in staff' : person'[j].email = x.email /\ person'[j].file = person'[i].file
        BY DEF WholeFile
    <3>2. CASE i \in staff
        BY <2>1, <3>1, <3>2 DEF FilesOK, WholeFile
    <3>3. CASE i \in pending[r]
      <4>1. person[i].file = req[r].file
          BY <2>1, <3>3 DEF FilesOK, Loading
      <4>2. PICK j \in pending[r] : person[j].email = x.email
          BY <2>1, <3>1, <4>1 DEF FilesOK, Loading
      <4>3. person[j].file = req[r].file
          BY <2>1 DEF FilesOK, Loading
      <4> QED BY <2>1, <4>1, <4>2, <4>3
    <3> QED BY <2>1, <3>1, <3>2, <3>3
  <2>3. Loading(r)'
      BY <2>1 DEF Loading
  <2> QED BY <1>1, <2>1, <2>2, <2>3, OthersLoad
<1>14. ASSUME NEW r \in Requests, Abort(r)
       PROVE  FilesOK'
  <2>1. /\ UNCHANGED staff /\ req'[r].pc # "inserting"
        /\ \A s \in Requests \ {r} : req'[s] = req[s] /\ pending'[s] = pending[s]
      BY <1>14 DEF Abort, Finish, Idle, Inv, TypeOK
  <2>2. Loading(r)'
      BY <2>1 DEF Loading
  <2> QED BY <1>1, <2>1, <2>2, OthersLoad
<1>15. ASSUME NEW r \in Requests, Drop(r) \/ UpdateStatus(r)
       PROVE  FilesOK'
  <2>1. Finish(r) /\ UNCHANGED <<staff, pending>> /\ req[r].pc # "inserting"
      BY <1>15 DEF Drop, UpdateStatus
  <2> QED BY <1>2, <1>3, <2>1
<1>16. ASSUME NEW r \in Requests, NEW i \in staff, NEW s \in Statuses, BeginStatus(r, i, s)
       PROVE  FilesOK'
  <2> DEFINE q == [Idle EXCEPT !.pc = IF s = "LEFT" THEN "counting" ELSE "updating",
                               !.target = i, !.status = s]
  <2>1. req' = [req EXCEPT ![r] = q] /\ q.pc # "inserting" /\ UNCHANGED <<staff, pending>>
        /\ pending[r] = {}
      BY <1>16, ClosedWhenIdle DEF BeginStatus, Idle
  <2> HIDE DEF q
  <2> QED BY <1>4, <2>1
<1>17. ASSUME NEW r \in Requests, CountReports(r)
       PROVE  FilesOK'
  <2> DEFINE q == [req[r] EXCEPT !.pc = "updating", !.active = Employed]
  <2>1. Finish(r) \/ req' = [req EXCEPT ![r] = q]
      BY <1>2, <1>17 DEF CountReports, Counted, Inv, TypeOK, Request
  <2>2. q.pc = "updating" /\ UNCHANGED <<staff, pending>> /\ pending[r] = {}
      BY <1>2, <1>17 DEF CountReports, Counted, Request
  <2> HIDE DEF q
  <2> QED BY <1>3, <1>4, <2>1, <2>2
<1>18. CASE UNCHANGED vars
    BY <1>18 DEF vars, FilesOK, WholeFile, Loading
<1> QED BY <1>5, <1>7, <1>8, <1>9, <1>10, <1>11, <1>12, <1>13, <1>14, <1>15, <1>16, <1>17, <1>18
        DEF Next

\* However an import meets other imports, creates and failures, the table holds all the rows of its
\* file or none of them (insertImportedEmployees in one transaction).
THEOREM FilesAreWhole == Spec => []WholeFile
<1>1. Init => FilesOK
    BY DEF Init, FilesOK, WholeFile, Loading, Idle
<1>2. FilesOK => WholeFile
    BY DEF FilesOK
<1> QED BY <1>1, <1>2, Invariance, FilesStep, PTL DEF Spec

=============================================================================
