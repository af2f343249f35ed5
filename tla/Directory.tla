----------------------------- MODULE Directory ------------------------------
(***************************************************************************)
(* Lists of people: who may see whom (src/domain/accessScope.ts), which of *)
(* them a query is about (src/repositories/employeeFilters.ts), in which   *)
(* order and on which page (src/repositories/employees.ts), and the list   *)
(* of those paid below their band (src/repositories/attention.ts).         *)
(*                                                                         *)
(* One statement sees one state of the tables, so a statement is an        *)
(* operator on "db".  A query is a record: the subject asking, the day,    *)
(* the filters (All where there is none), the text searched for, the       *)
(* order, and, for the band filter, a fit.                                 *)
(***************************************************************************)
EXTENDS PayBands, CsvText

CONSTANTS
    NameText,      \* the characters of each name, as a cell of a file has them
    EmailText,     \* and of each person's address, which nobody changes
    All            \* no filter

Roles == {"HR_ADMIN", "HR_VIEWER", "MANAGER", "EMPLOYEE"}

SortFields == {"name", "salary", "hireDate", "country", "department", "level", "status"}

\* The employee of a subject is Null if the account is nobody's.
Query == [subject : [role : Roles, employee : People \cup {Null}],
          asOf : Days, status : Statuses \cup {All}, fit : Fits \cup {All}, search : Seq(STRING),
          filter : [country : Countries \cup {All}, department : Departments \cup {All},
                    level : Levels \cup {All}],
          sortBy : SortFields, sortDir : {"asc", "desc"}]

-----------------------------------------------------------------------------
(* Who may be seen *)

AccessScopeFor(subject) ==
    CASE subject.role \in {"HR_ADMIN", "HR_VIEWER"} -> [kind |-> "ALL"]
      [] subject.role = "MANAGER"  -> IF subject.employee = Null THEN [kind |-> "NONE"]
                                      ELSE [kind |-> "TEAM", of |-> subject.employee]
      [] subject.role = "EMPLOYEE" -> IF subject.employee = Null THEN [kind |-> "NONE"]
                                      ELSE [kind |-> "SELF", of |-> subject.employee]

CanSeeAggregates(subject) == AccessScopeFor(subject).kind = "ALL"

\* teamCte: the manager, and round by round whoever reports to somebody found so far.
Team(db, m) ==
    LET ids == DOMAIN db.employees
        found[n \in 0..Cardinality(People)] ==
            IF n = 0 THEN ids \cap {m}
            ELSE LET known == found[n - 1]
                 IN  known \cup {i \in ids : db.employees[i].manager \in known}
    IN  found[Cardinality(People)]

InScope(db, scope) ==
    CASE scope.kind = "ALL"  -> DOMAIN db.employees
      [] scope.kind = "TEAM" -> Team(db, scope.of)
      [] scope.kind = "SELF" -> DOMAIN db.employees \cap {scope.of}
      [] scope.kind = "NONE" -> {}

-----------------------------------------------------------------------------
(* Which of them are asked for *)

Passes(value, wanted) == wanted = All \/ value = wanted

EmployeeFilter(db, i, filter) ==
    /\ Passes(db.employees[i].country, filter.country)
    /\ Passes(db.employees[i].department, filter.department)
    /\ Passes(db.employees[i].level, filter.level)

\* ILIKE with its wildcards escaped: the text occurs, whatever the case of its letters.
Occurs(text, in) ==
    \E k \in 0..(Len(in) - Len(text)) : Lower(SubSeq(in, k + 1, k + Len(text))) = Lower(text)

Found(db, i, search) ==
    LET text == Trim(search)
    IN  text = <<>> \/ Occurs(text, NameText[db.employees[i].name]) \/ Occurs(text, EmailText[i])

Matching(db, q) ==
    {i \in InScope(db, AccessScopeFor(q.subject)) :
        /\ Found(db, i, q.search)
        /\ EmployeeFilter(db, i, q.filter)
        /\ Passes(db.employees[i].status, q.status)
        /\ q.fit = All \/ BandFitCondition(q.fit, PayOn(db, i, q.asOf), BandOf(db, i))}

-----------------------------------------------------------------------------
(* Rows and pages *)

\* toSalary refuses a salary whose currency has no rate, and with it the whole answer.
Convertible(db, i, day) == Paid(db, i, day) => HasRate(PayOn(db, i, day).currency)

SalaryUsd(db, i, day) ==
    IF Paid(db, i, day) /\ Convertible(db, i, day)
    THEN Usd(PayOn(db, i, day).amount, PayOn(db, i, day).currency) ELSE Null

SortKey(db, q, i) ==
    LET e == db.employees[i]
    IN  CASE q.sortBy = "name"       -> e.name
          [] q.sortBy = "salary"     -> SalaryUsd(db, i, q.asOf)
          [] q.sortBy = "hireDate"   -> e.hired
          [] q.sortBy = "country"    -> e.country
          [] q.sortBy = "department" -> e.department
          [] q.sortBy = "level"      -> e.level
          [] q.sortBy = "status"     -> IF e.status = "ACTIVE" THEN 0 ELSE 1

\* Nulls last in either direction.
KeyBefore(a, b, dir) == a # Null /\ (b = Null \/ (IF dir = "asc" THEN a < b ELSE b < a))

\* The id decides among equals, always ascending.
Listed(db, q, S) ==
    LET key == [i \in S |-> SortKey(db, q, i)]
    IN  OrderBy(S, LAMBDA i, j : KeyBefore(key[i], key[j], q.sortDir) \/ (key[i] = key[j] /\ i < j))

\* Mutant: pages are counted from nought.
PageFromNought(list, page, size) ==
    SubSeq(list, page * size + 1, Min({(page + 1) * size, Len(list)}))

\* LIMIT size OFFSET (page - 1) * size
PageOf(list, page, size) == SubSeq(list, (page - 1) * size + 1, Min({page * size, Len(list)}))

Failed == [rows |-> <<>>, total |-> Null]

\* The answer to somebody whose role may not ask.
Forbidden == [rows |-> <<>>, total |-> Null, forbidden |-> TRUE]

\* toEmployeeListRow: a person as a statement with the salary join reads them.
EmployeeRow(db, i, day) == [id |-> i, employee |-> db.employees[i], salary |-> PayOn(db, i, day)]

\* The rows of a page and the total beside them; on an empty page the total is a second
\* statement's, with the same conditions.
ListEmployees(db, q, page, size) ==
    LET matching == Matching(db, q)
        rows     == PageOf(Listed(db, q, matching), page, size)
    IN  IF \A k \in DOMAIN rows : Convertible(db, rows[k], q.asOf)
        THEN [rows |-> rows, total |-> Cardinality(matching)] ELSE Failed

TotalPages(total, size) == (total + size - 1) \div size

FindEmployeeById(db, i, subject) == i \in InScope(db, AccessScopeFor(subject))

DirectReports(db, i) == {j \in DOMAIN db.employees : db.employees[j].manager = i}

-----------------------------------------------------------------------------
(* Paid below the band *)

ShortfallUsd(db, i, day) ==
    Usd(BandOf(db, i).min - PayOn(db, i, day).amount, PayOn(db, i, day).currency)

\* The largest first, and by id among equals.
LargestFirst(cost, S) ==
    OrderBy(S, LAMBDA i, j : cost[i] > cost[j] \/ (cost[i] = cost[j] /\ i < j))

NeedsAttention(db, q, page, size) ==
    LET short == Matching(db, [q EXCEPT !.status = "ACTIVE", !.fit = "BELOW", !.search = <<>>])
        cost == [i \in short |-> ShortfallUsd(db, i, q.asOf)]
    IN  IF \A i \in short : Convertible(db, i, q.asOf)
        THEN [rows  |-> PageOf(LargestFirst(cost, short), page, size),
              total |-> Cardinality(short),
              totalShortfall |-> SumOf(cost, short)]
        ELSE Failed
=============================================================================
