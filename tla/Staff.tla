------------------------------- MODULE Staff --------------------------------
(***************************************************************************)
(* The employees table and what writes it: create and changeStatus of      *)
(* src/services/employees.ts, and the CSV import of                        *)
(* src/services/employeeCsv.ts over src/repositories/employeeImport.ts and *)
(* src/domain/importOrder.ts.                                              *)
(*                                                                         *)
(* Nobody is ever deleted, and neither an address nor a manager is ever    *)
(* changed.  A request checks in some statements and writes in others; a   *)
(* record and its first salary, or a whole file, are one transaction.      *)
(* Dates, names and reference data are left out: a request that names a    *)
(* wrong one is refused before it changes anything.                        *)
(***************************************************************************)
EXTENDS Integers, FiniteSets

CONSTANTS
    Emails,      \* lower-cased addresses
    Files,       \* what may be uploaded: sets of rows
    Requests,    \* slots for requests in flight
    MaxId,       \* bound on the id sequence
    NoEmail

NoOne == 0

Ids == 1..MaxId

Statuses == {"ACTIVE", "LEFT"}

\* A row as parseEmployeeCsv accepts it: nobody is their own manager.
FileRow == {x \in [email : Emails, boss : Emails \cup {NoEmail}, status : Statuses] :
                x.boss # x.email}

ASSUME StaffConstants ==
    /\ NoEmail \notin Emails
    /\ MaxId \in Nat
    /\ Files \subseteq SUBSET FileRow
    /\ \A f \in Files : \A x, y \in f : x.email = y.email => x = y

VARIABLES
    staff,     \* the ids of the committed rows
    person,    \* the row of each id
    pending,   \* pending[r]: the ids of the rows inserted by the open transaction of r
    req,       \* the requests
    nextId     \* the id sequence

vars == <<staff, person, pending, req, nextId>>

\* "boss" and "file" are history: the manager's address a row of a file named, and the
\* file it came in.
Person == [email : Emails \cup {NoEmail}, manager : Ids \cup {NoOne}, status : Statuses,
           boss : Emails \cup {NoEmail}, file : Files \cup {{}}]

Nobody == [email |-> NoEmail, manager |-> NoOne, status |-> "ACTIVE", boss |-> NoEmail,
           file |-> {}]

\* "ids" is existingIdByEmail, later idByEmail; "toCheck" the lookups still to be answered;
\* "rows" what is left to insert and "layer" the part of it that may go next; "active" is
\* history: who was employed when the reports were counted.
Request == [pc : {"idle", "checking", "lookingUp", "inserting", "counting", "updating"},
            email : Emails \cup {NoEmail}, manager : Ids \cup {NoOne}, status : Statuses,
            target : Ids \cup {NoOne}, toCheck : SUBSET (Emails \cup {"email", "manager"}),
            ids : [Emails -> Ids \cup {NoOne}], file : Files \cup {{}},
            rows : SUBSET FileRow, layer : SUBSET FileRow, active : SUBSET Ids]

Idle == [pc |-> "idle", email |-> NoEmail, manager |-> NoOne, status |-> "ACTIVE",
         target |-> NoOne, toCheck |-> {}, ids |-> [e \in Emails |-> NoOne], file |-> {},
         rows |-> {}, layer |-> {}, active |-> {}]

Init ==
    /\ staff = {}
    /\ person = [i \in Ids |-> Nobody]
    /\ pending = [r \in Requests |-> {}]
    /\ req = [r \in Requests |-> Idle]
    /\ nextId = 1

-----------------------------------------------------------------------------
(* Reading and writing the table *)

Owners(e) == {i \in staff : person[i].email = e}

ActiveReports(i) == {j \in staff : person[j].manager = i /\ person[j].status = "ACTIVE"}

Finish(r) == req' = [req EXCEPT ![r] = Idle]

\* employees_email_lower_idx: a committed address is refused, which aborts the
\* transaction, and an uncommitted one is waited for.
Free(e) ==
    /\ Owners(e) = {}
    /\ \A s \in Requests : \A i \in pending[s] : person[i].email # e

\* The foreign key: the manager is there, or is the row itself.
Exists(r, m) == m \in staff \cup pending[r] \cup {nextId, NoOne}

\* Mutant: without the unique index, the check made before is all there is.
InsertAnyway(r, p) ==
    /\ nextId \in Ids
    /\ Exists(r, p.manager)
    /\ person' = [person EXCEPT ![nextId] = p]
    /\ pending' = [pending EXCEPT ![r] = @ \cup {nextId}]
    /\ nextId' = nextId + 1
    /\ UNCHANGED staff

Insert(r, p) ==
    /\ nextId \in Ids
    /\ Free(p.email)
    /\ Exists(r, p.manager)
    /\ person' = [person EXCEPT ![nextId] = p]
    /\ pending' = [pending EXCEPT ![r] = @ \cup {nextId}]
    /\ nextId' = nextId + 1
    /\ UNCHANGED staff

-----------------------------------------------------------------------------
(* create *)

\* The id of the manager may be any number somebody sends.
BeginCreate(r, e, m, s) ==
    /\ req[r] = Idle
    /\ req' = [req EXCEPT ![r] = [Idle EXCEPT !.pc = "checking", !.email = e, !.manager = m,
                                              !.status = s, !.toCheck = {"email", "manager"}]]
    /\ UNCHANGED <<staff, person, pending, nextId>>

Checked(r, what) == req' = [req EXCEPT ![r].toCheck = @ \ {what}]

\* emailIsTaken and findMissingReferences run side by side.
CheckEmail(r) ==
    /\ req[r].pc = "checking"
    /\ "email" \in req[r].toCheck
    /\ IF Owners(req[r].email) = {} THEN Checked(r, "email") ELSE Finish(r)
    /\ UNCHANGED <<staff, person, pending, nextId>>

\* Mutant: nobody asks whether the manager exists.
AssumeManager(r) ==
    /\ req[r].pc = "checking"
    /\ "manager" \in req[r].toCheck
    /\ Checked(r, "manager")
    /\ UNCHANGED <<staff, person, pending, nextId>>

CheckManager(r) ==
    /\ req[r].pc = "checking"
    /\ "manager" \in req[r].toCheck
    /\ IF req[r].manager \in staff \cup {NoOne} THEN Checked(r, "manager") ELSE Finish(r)
    /\ UNCHANGED <<staff, person, pending, nextId>>

\* insertEmployee up to its COMMIT; the first salary is in PayLedger.
InsertEmployee(r) ==
    /\ req[r].pc = "checking"
    /\ req[r].toCheck = {}
    /\ Insert(r, [Nobody EXCEPT !.email = req[r].email, !.manager = req[r].manager,
                                !.status = req[r].status])
    /\ req' = [req EXCEPT ![r] = [Idle EXCEPT !.pc = "inserting"]]

-----------------------------------------------------------------------------
(* The import *)

Mentioned(f) == {x.email : x \in f} \cup ({x.boss : x \in f} \ {NoEmail})

BeginImport(r, f) ==
    /\ req[r] = Idle
    /\ f # {}
    /\ req' = [req EXCEPT ![r] = [Idle EXCEPT !.pc = "lookingUp", !.file = f,
                                              !.toCheck = Mentioned(f)]]
    /\ UNCHANGED <<staff, person, pending, nextId>>

IdOf(e) == IF Owners(e) = {} THEN NoOne ELSE CHOOSE i \in Owners(e) : TRUE

\* findEmployeeIdsByEmail asks for one chunk of addresses after the other.
LookUp(r, e) ==
    /\ req[r].pc = "lookingUp"
    /\ e \in req[r].toCheck
    /\ req' = [req EXCEPT ![r].toCheck = @ \ {e}, ![r].ids[e] = IdOf(e)]
    /\ UNCHANGED <<staff, person, pending, nextId>>

\* The manager is somebody the map of ids knows, or there is none.
Placeable(x, ids) == x.boss = NoEmail \/ (x.boss # NoEmail /\ ids[x.boss] # NoOne)

\* orderByManager: in each round whoever has no manager among those left is placed.
Cyclic(f, ids) ==
    LET left[n \in 0..Cardinality(f)] ==
            IF n = 0 THEN f
            ELSE {x \in left[n - 1] :
                    ~Placeable(x, ids) /\ \E y \in left[n - 1] : y.email = x.boss}
    IN left[Cardinality(f)]

Missing(f, ids) == {x \in f : ~Placeable(x, ids) /\ \A y \in f : y.email # x.boss}

Taken(f, ids) == {x \in f : ids[x.email] # NoOne}

\* Mutant: the rows are inserted as the file lists them.
NextLayerAll(rows, ids) == rows

\* The rows whose managers are in earlier layers.
NextLayer(rows, ids) == {x \in rows : Placeable(x, ids)}

\* A file with any problem is reported and not imported.  A preview ends here as well; it
\* changes nothing and is a request that is dropped.
CheckFile(r) ==
    /\ req[r].pc = "lookingUp"
    /\ req[r].toCheck = {}
    /\ LET f == req[r].file
           ids == req[r].ids
       IN IF Taken(f, ids) = {} /\ Missing(f, ids) = {} /\ Cyclic(f, ids) = {}
          THEN req' = [req EXCEPT ![r].pc = "inserting", ![r].rows = f,
                                  ![r].layer = NextLayer(f, ids)]
          ELSE Finish(r)
    /\ UNCHANGED <<staff, person, pending, nextId>>

\* idByEmail.get(managerEmail) ?? null
Resolved(x, ids) == IF x.boss = NoEmail THEN NoOne ELSE ids[x.boss]

\* Mutant: ON CONFLICT DO NOTHING, as in the bulk raise, skips a row whose address was taken
\* after the file was checked.
InsertImportedOrSkip(r, x) ==
    /\ req[r].pc = "inserting"
    /\ x \in req[r].layer
    /\ \/ Insert(r, [email |-> x.email, manager |-> Resolved(x, req[r].ids), status |-> x.status,
                     boss |-> x.boss, file |-> req[r].file])
       \/ Owners(x.email) # {} /\ UNCHANGED <<staff, person, pending, nextId>>
    /\ LET rows == req[r].rows \ {x}
           ids == [req[r].ids EXCEPT ![x.email] = nextId]
       IN req' = [req EXCEPT ![r].rows = rows, ![r].ids = ids,
                             ![r].layer = IF @ = {x} THEN NextLayer(rows, ids) ELSE @ \ {x}]

InsertImported(r, x) ==
    /\ req[r].pc = "inserting"
    /\ x \in req[r].layer
    /\ Insert(r, [email |-> x.email, manager |-> Resolved(x, req[r].ids), status |-> x.status,
                  boss |-> x.boss, file |-> req[r].file])
    /\ LET rows == req[r].rows \ {x}
           ids == [req[r].ids EXCEPT ![x.email] = nextId]
       IN req' = [req EXCEPT ![r].rows = rows, ![r].ids = ids,
                             ![r].layer = IF @ = {x} THEN NextLayer(rows, ids) ELSE @ \ {x}]

-----------------------------------------------------------------------------
(* How a transaction ends *)

Commit(r) ==
    /\ req[r].pc = "inserting"
    /\ req[r].rows = {}
    /\ staff' = staff \cup pending[r]
    /\ pending' = [pending EXCEPT ![r] = {}]
    /\ Finish(r)
    /\ UNCHANGED <<person, nextId>>

\* Mutant: the connection goes back to the pool with its transaction open.
AbortOpen(r) ==
    /\ req[r].pc = "inserting"
    /\ Finish(r)
    /\ UNCHANGED <<staff, person, pending, nextId>>

\* A second record of an address, a manager who is not there, two imports that wait for
\* each other, or a lost connection.
Abort(r) ==
    /\ req[r].pc = "inserting"
    /\ person' = [i \in Ids |-> IF i \in pending[r] THEN Nobody ELSE person[i]]
    /\ pending' = [pending EXCEPT ![r] = {}]
    /\ Finish(r)
    /\ UNCHANGED <<staff, nextId>>

\* A request that fails outside a transaction, or a create refused by the database.
Drop(r) ==
    /\ req[r].pc \notin {"idle", "inserting"}
    /\ Finish(r)
    /\ UNCHANGED <<staff, person, pending, nextId>>

-----------------------------------------------------------------------------
(* changeStatus *)

\* findEmployeeById finds the person, whatever their status, and the leaving date fits.
BeginStatus(r, i, s) ==
    /\ req[r] = Idle
    /\ i \in staff
    /\ req' = [req EXCEPT ![r] = [Idle EXCEPT
                   !.pc = IF s = "LEFT" THEN "counting" ELSE "updating",
                   !.target = i, !.status = s]]
    /\ UNCHANGED <<staff, person, pending, nextId>>

Employed == {i \in staff : person[i].status = "ACTIVE"}

Counted(r, reports) ==
    /\ req[r].pc = "counting"
    /\ IF reports = {}
       THEN req' = [req EXCEPT ![r].pc = "updating", ![r].active = Employed]
       ELSE Finish(r)
    /\ UNCHANGED <<staff, person, pending, nextId>>

\* Mutant: the reports who have left are counted.
CountDeparted(r) ==
    Counted(r, {j \in staff : person[j].manager = req[r].target /\ person[j].status = "LEFT"})

CountReports(r) == Counted(r, ActiveReports(req[r].target))

UpdateStatus(r) ==
    /\ req[r].pc = "updating"
    /\ person' = [person EXCEPT ![req[r].target].status = req[r].status]
    /\ Finish(r)
    /\ UNCHANGED <<staff, pending, nextId>>

-----------------------------------------------------------------------------

Next ==
    \E r \in Requests :
        \/ \E e \in Emails, m \in Ids \cup {NoOne}, s \in Statuses : BeginCreate(r, e, m, s)
        \/ CheckEmail(r)
        \/ CheckManager(r)
        \/ InsertEmployee(r)
        \/ \E f \in Files : BeginImport(r, f)
        \/ \E e \in Emails : LookUp(r, e)
        \/ CheckFile(r)
        \/ \E x \in req[r].layer : InsertImported(r, x)
        \/ Commit(r)
        \/ Abort(r)
        \/ Drop(r)
        \/ \E i \in staff, s \in Statuses : BeginStatus(r, i, s)
        \/ CountReports(r)
        \/ UpdateStatus(r)

Spec == Init /\ [][Next]_vars

-----------------------------------------------------------------------------
(* Properties *)

\* Every variable has its type, and only a request that is inserting has a transaction open.
TypeOK ==
    /\ staff \subseteq Ids
    /\ person \in [Ids -> Person]
    /\ pending \in [Requests -> SUBSET Ids]
    /\ req \in [Requests -> Request]
    /\ nextId \in 1..(MaxId + 1)
    /\ \A r \in Requests : pending[r] # {} => req[r].pc = "inserting"

\* However creates and imports that looked for the same address interleave, one record
\* of it is committed (employees_email_lower_idx).
OnePerAddress == \A i, j \in staff : person[i].email = person[j].email => i = j

\* Whenever one row of a file is in the table, all of its rows are
\* (src/services/employeeCsv.ts: all of it or none of it).
WholeFile ==
    \A i \in staff : \A x \in person[i].file :
        \E j \in staff : person[j].email = x.email /\ person[j].file = person[i].file

\* Whoever was imported reports to the owner of the address the file names, wherever in the
\* file that person's own row stands (insertImportedEmployees).
AsDescribed ==
    \A i \in staff : person[i].file # {} =>
        IF person[i].boss = NoEmail
        THEN person[i].manager = NoOne
        ELSE person[i].manager \in Owners(person[i].boss)

\* Nobody manages themselves, directly or through a chain: any group of people has
\* somebody whose manager is outside of it, so the walk of teamCte ends.
NoCycle == \A S \in (SUBSET staff) \ {{}} : \E i \in S : person[i].manager \notin S

\* A departure that the count allowed overtakes nobody it could have seen: whoever still
\* reports to the departed when they are marked joined or came back after the count.
DepartureSawReports ==
    [][\A r \in Requests :
          (req[r].pc = "updating" /\ req[r].status = "LEFT" /\ req'[r] # req[r] /\ person' # person)
              => ActiveReports(req[r].target) \cap req[r].active = {}]_vars
=============================================================================
