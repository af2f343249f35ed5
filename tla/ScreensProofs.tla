--------------------------- MODULE ScreensProofs ----------------------------
(*************************************************************************)
(* What is in flight: an export that is overtaken by writes and held up  *)
(* by its client, and the page of a person whose pay is raised while it  *)
(* is read.  Then what one statement reads, compared with another: the   *)
(* bands, the trend, the preview of a bulk raise, the pages of a list,   *)
(* the overview and the pay gap.                                         *)
(*************************************************************************)
EXTENDS Screens, PayrollProofs, SequenceTheorems

-----------------------------------------------------------------------------
(* Writes *)

\* A row is only ever added or, of employees, given another status: nobody changes name.
RowsKept(was, is) ==
    /\ DOMAIN was.employees \subseteq DOMAIN is.employees
    /\ \A i \in DOMAIN was.employees : is.employees[i].name = was.employees[i].name
    /\ was.records \subseteq is.records

LEMMA CompanyRecords ==
    ASSUME NEW tables, IsCompany(tables)
    PROVE  RecordTable(tables.records)
<1>1. Amounts \subseteq 1..MaxMinor
    BY PayrollConstants DEF Payable
<1>2. Record \subseteq PayableRecord
    BY <1>1 DEF Record, PayableRecord
<1> QED BY <1>2 DEF IsCompany, RecordTable

LEMMA PayOnType ==
    ASSUME NEW tables, IsCompany(tables), NEW i, NEW day
    PROVE  PayOn(tables, i, day) \in Record \cup {NoPay}
<1>1. PayOn(tables, i, day) \in tables.records \cup {NoPay}
    BY CompanyRecords, PayOnIsLatest DEF RecordsOf
<1> QED BY <1>1 DEF IsCompany

LEMMA NextRecordIdIsNew ==
    ASSUME IsCompany(db)
    PROVE  NextRecordId \in Nat /\ \A c \in db.records : c.id # NextRecordId
<1> DEFINE ids == {0} \cup {c.id : c \in db.records}
<1>1. db.records \subseteq Record /\ IsFiniteSet(db.records)
    BY DEF IsCompany
<1>2. \A c \in db.records : c.id \in Nat
    BY <1>1 DEF Record
<1>3. IsFiniteSet(ids)
    <2>1. IsFiniteSet({c.id : c \in db.records})
        <3> DEFINE id == [c \in db.records |-> c.id]
        <3>1. id \in Surjection(db.records, {c.id : c \in db.records})
            BY DEF Surjection
        <3> QED BY <1>1, <3>1, FS_Surjection
    <2> QED BY <2>1, FS_AddElement
<1>4. ids \in SUBSET Int /\ ids # {} /\ 0 \in ids
    BY <1>2
<1>5. \A c \in db.records : c.id \in ids
    OBVIOUS
<1>6. NextRecordId = 1 + Max(ids)
    BY DEF NextRecordId
<1>7. ids \in SUBSET Nat
    BY <1>2
<1> HIDE DEF ids
<1>8. Max(ids) \in ids /\ \A n \in ids : n <= Max(ids)
    BY <1>3, <1>4, MaxIsGreatest
<1>9. Max(ids) \in Nat
    BY <1>7, <1>8
<1>10. ASSUME NEW c \in db.records PROVE c.id # NextRecordId
    <2>1. c.id \in Nat /\ c.id <= Max(ids)
        BY <1>2, <1>5, <1>8
    <2> QED BY <1>6, <1>9, <2>1
<1> QED BY <1>6, <1>9, <1>10

\* The columns of a table of employees.
LEMMA EmployeeFields ==
    ASSUME NEW e \in Employee
    PROVE  /\ e \in [name : Names, country : Countries, department : Departments, level : Levels,
                    gender : Genders \cup {"unrecorded"}, hired : Days, status : Statuses,
                    left : Days \cup {Null}, manager : People \cup {Null}]
           /\ (e.status = "LEFT") = (e.left # Null) /\ (e.left # Null => e.left >= e.hired)
           /\ e.name \in Nat
BY PayrollConstants DEF Employee

LEMMA InsertingKeeps ==
    ASSUME IsCompany(db), NEW hire \in Hires, InsertEmployee(hire)
    PROVE  IsCompany(db') /\ RowsKept(db, db')
<1>1. hire.person \in Employee /\ hire.pay \in PayToRecord \cup {NoPay}
    BY ScreensConstants
<1>2. PICK i \in People \ Ids :
          db' = [db EXCEPT !.employees = Put(@, i, hire.person),
                           !.records = IF hire.pay = NoPay THEN @ ELSE @ \cup {PayRecord(i, hire.pay)}]
    BY DEF InsertEmployee, Committed
<1> DEFINE new == PayRecord(i, hire.pay)
           rows == IF hire.pay = NoPay THEN db.records ELSE db.records \cup {new}
           staff == Put(db.employees, i, hire.person)
<1>3. db' = [employees |-> staff, records |-> rows, bands |-> db.bands]
    BY <1>2 DEF IsCompany
<1>4. /\ DOMAIN staff = {i} \cup Ids
      /\ staff[i] = hire.person
      /\ \A j \in Ids : staff[j] = db.employees[j]
      /\ staff = [j \in {i} \cup Ids |-> staff[j]]
    BY <1>2 DEF Ids, Put
<1> HIDE DEF staff
<1>5. IsTable(staff, People, Employee)
    BY <1>1, <1>2, <1>4 DEF IsCompany, IsTable, Ids
<1>6. NextRecordId \in Nat /\ \A c \in db.records : c.id # NextRecordId
    BY NextRecordIdIsNew
<1>7. hire.pay # NoPay => new \in Record /\ new.id = NextRecordId /\ new.employee = i
    BY <1>1, <1>2, <1>6 DEF PayRecord, Record, PayToRecord
<1> HIDE DEF new
<1>8. /\ rows \subseteq Record /\ IsFiniteSet(rows) /\ db.records \subseteq rows
      /\ \A c, d \in rows : c.id = d.id => c = d
      /\ \A c \in rows : c.employee \in DOMAIN staff
    BY <1>4, <1>6, <1>7, FS_AddElement DEF IsCompany, Ids
<1> HIDE DEF rows
<1>9. \A j \in DOMAIN staff : staff[j].manager \in DOMAIN staff \cup {Null}
    BY <1>4 DEF IsCompany, Ids, InsertEmployee
<1>10. NoCircle(staff)
    <2> SUFFICES ASSUME NEW S \in (SUBSET DOMAIN staff) \ {{}} PROVE \E j \in S : staff[j].manager \notin S
        BY DEF NoCircle
    <2> DEFINE rest == S \ {i}
    <2>1. i \notin Ids /\ i # Null /\ hire.person.manager \in Ids \cup {Null}
        <3>1. i \in Nat
            BY <1>2, PayrollConstants
        <3>2. hire.person.manager \in Ids \cup {Null}
            BY DEF InsertEmployee
        <3> QED BY <1>2, <3>1, <3>2 DEF Null
    <2>2. CASE rest = {}
        <3>1. S = {i}
            BY <2>2
        <3> QED BY <1>4, <2>1, <3>1
    <2>3. CASE rest # {}
        <3>1. rest \in (SUBSET Ids) \ {{}}
            BY <1>4, <2>3
        <3>2. PICK j \in rest : db.employees[j].manager \notin rest
            BY <3>1 DEF IsCompany, NoCircle, Ids
        <3>3. j \in Ids /\ db.employees[j].manager \in Ids \cup {Null}
            BY <3>1 DEF IsCompany, Ids
        <3>4. staff[j].manager \notin S
            BY <1>4, <2>1, <3>2, <3>3
        <3> QED BY <3>4
    <2> QED BY <2>2, <2>3
<1> QED BY <1>3, <1>4, <1>5, <1>8, <1>9, <1>10 DEF IsCompany, RowsKept, Ids

LEMMA StatusKeeps ==
    ASSUME IsCompany(db), NEW i \in Ids, NEW status \in Statuses, NEW day \in LeavingDays \cup {Null},
           UpdateEmployeeStatus(i, status, day)
    PROVE  IsCompany(db') /\ RowsKept(db, db')
<1> DEFINE e == [db.employees[i] EXCEPT !.status = status, !.left = day]
           staff == [db.employees EXCEPT ![i] = e]
<1>1. db.employees[i] \in Employee /\ IsTable(db.employees, People, Employee)
    BY DEF IsCompany, IsTable, Ids
<1>2. db' = [employees |-> staff, records |-> db.records, bands |-> db.bands]
    BY <1>1 DEF UpdateEmployeeStatus, Committed, IsCompany
<1>3. /\ (status = "LEFT") = (day # Null) /\ day \in Days \cup {Null}
      /\ day # Null => day >= db.employees[i].hired
    <2>1. db.employees[i].hired \in Nat
        BY <1>1, EmployeeFields, PayrollConstants DEF Days
    <2> QED BY <2>1, ScreensConstants DEF UpdateEmployeeStatus, Null
<1>4. e \in Employee /\ e.name = db.employees[i].name /\ e.manager = db.employees[i].manager
    BY <1>1, <1>3, EmployeeFields DEF Employee
<1> HIDE DEF e
<1>5. /\ DOMAIN staff = Ids /\ staff[i] = e /\ \A j \in Ids \ {i} : staff[j] = db.employees[j]
      /\ IsTable(staff, People, Employee)
    BY <1>1, <1>4 DEF IsTable, Ids
<1> HIDE DEF staff
<1>6. NoCircle(staff)
    <2>1. \A j \in Ids : staff[j].manager = db.employees[j].manager
        BY <1>4, <1>5
    <2> QED BY <1>5, <2>1 DEF IsCompany, NoCircle, Ids
<1> QED BY <1>2, <1>4, <1>5, <1>6 DEF IsCompany, RowsKept, Ids

LEMMA RaisingKeeps ==
    ASSUME IsCompany(db), NEW i \in Ids, NEW pay \in Raises, InsertCompensationRecord(i, pay)
    PROVE  IsCompany(db') /\ RowsKept(db, db')
<1> DEFINE new == PayRecord(i, pay)
           rows == db.records \cup {new}
<1>1. db' = [employees |-> db.employees, records |-> rows, bands |-> db.bands]
    BY DEF InsertCompensationRecord, Committed, IsCompany
<1>2. NextRecordId \in Nat /\ \A c \in db.records : c.id # NextRecordId
    BY NextRecordIdIsNew
<1>3. new \in Record /\ new.id = NextRecordId /\ new.employee = i
    BY <1>2, ScreensConstants DEF PayRecord, Record, PayToRecord, IsCompany, IsTable, Ids
<1> HIDE DEF new
<1>4. /\ rows \subseteq Record /\ IsFiniteSet(rows)
      /\ \A c, d \in rows : c.id = d.id => c = d
      /\ \A c \in rows : c.employee \in Ids
    BY <1>2, <1>3, FS_AddElement DEF IsCompany, Ids
<1> QED BY <1>1, <1>4 DEF IsCompany, RowsKept, Ids

LEMMA BandsKeep ==
    ASSUME IsCompany(db), \/ \E p \in Policies : SaveBand(p.pair, p.band)
                          \/ \E p \in DOMAIN db.bands : RemoveBand(p)
    PROVE  IsCompany(db') /\ RowsKept(db, db')
<1>1. CASE \E p \in Policies : SaveBand(p.pair, p.band)
    <2>1. PICK p \in Policies : SaveBand(p.pair, p.band)
        BY <1>1
    <2> DEFINE bands == Put(db.bands, p.pair, p.band)
    <2>2. p.pair \in Pairs /\ p.band \in Band
        BY <2>1, ScreensConstants DEF SaveBand, Band
    <2>3. /\ DOMAIN bands = {p.pair} \cup DOMAIN db.bands
          /\ bands = [q \in {p.pair} \cup DOMAIN db.bands |-> bands[q]]
          /\ \A q \in DOMAIN bands : bands[q] = p.band \/ (q \in DOMAIN db.bands /\ bands[q] = db.bands[q])
        BY DEF Put
    <2>4. db' = [employees |-> db.employees, records |-> db.records, bands |-> bands]
        BY <2>1 DEF SaveBand, WithBand, Committed, IsCompany
    <2> HIDE DEF bands
    <2>5. IsTable(bands, Pairs, Band)
        BY <2>2, <2>3 DEF IsCompany, IsTable
    <2> QED BY <2>4, <2>5 DEF IsCompany, RowsKept
<1>2. CASE \E p \in DOMAIN db.bands : RemoveBand(p)
    <2>1. PICK p \in DOMAIN db.bands : RemoveBand(p)
        BY <1>2
    <2> DEFINE bands == [q \in DOMAIN db.bands \ {p} |-> db.bands[q]]
    <2>2. db' = [employees |-> db.employees, records |-> db.records, bands |-> bands]
        BY <2>1 DEF RemoveBand, WithoutBand, Committed, IsCompany
    <2>3. IsTable(bands, Pairs, Band)
        BY DEF IsCompany, IsTable
    <2> HIDE DEF bands
    <2> QED BY <2>2, <2>3 DEF IsCompany, RowsKept
<1> QED BY <1>1, <1>2

\* Whatever is written, the tables keep their keys and references and nobody's name changes;
\* an open export is told who stopped and who began to match.
LEMMA Writing ==
    ASSUME IsCompany(db), writes \in 0..MaxWrites, Write
    PROVE  /\ IsCompany(db') /\ RowsKept(db, db')
           /\ writes' = writes + 1 /\ writes' \in 0..MaxWrites
           /\ req' = Noticed
<1>1. IsCompany(db') /\ RowsKept(db, db')
    BY InsertingKeeps, StatusKeeps, RaisingKeeps, BandsKeep DEF Write
<1>2. writes < MaxWrites /\ writes' = writes + 1 /\ req' = Noticed
    BY DEF Write, InsertEmployee, UpdateEmployeeStatus, InsertCompensationRecord, SaveBand,
           RemoveBand, Committed
<1> QED BY <1>1, <1>2, ScreensConstants

-----------------------------------------------------------------------------
(* Who may be seen *)

\* The rounds in which the recursive query of teamCte finds a team.
LEMMA TeamRounds ==
    ASSUME NEW tables, NEW m
    PROVE  LET ids == DOMAIN tables.employees
               N   == Cardinality(People)
           IN  \E found \in [0..N -> SUBSET ids] :
                   /\ found[0] = ids \cap {m}
                   /\ \A n \in 1..N :
                         found[n] = found[n - 1] \cup
                                        {i \in ids : tables.employees[i].manager \in found[n - 1]}
                   /\ Team(tables, m) = found[N]
<1> DEFINE ids == DOMAIN tables.employees
           N   == Cardinality(People)
           more(K) == K \cup {i \in ids : tables.employees[i].manager \in K}
           Again(f) == [n \in 0..N |-> IF n = 0 THEN ids \cap {m} ELSE more(f[n - 1])]
           found == CHOOSE f : f = Again(f)
           F == [K \in SUBSET ids |-> more(K)]
<1>1. N \in Nat
    BY PayrollConstants, FS_CardinalityType
<1>2. Team(tables, m) = found[N]
    BY DEF Team
<1>3. F \in [SUBSET ids -> SUBSET ids] /\ ids \cap {m} \in SUBSET ids
    OBVIOUS
<1>4. PICK f \in [0..N -> SUBSET ids] :
          f[0] = ids \cap {m} /\ \A n \in 1..N : f[n] = F[f[n - 1]]
    <2> DEFINE A == SUBSET ids
               a == ids \cap {m}
    <2>1. N \in Nat /\ a \in A /\ F \in [A -> A]
        BY <1>1, <1>3
    <2> HIDE DEF F, N, A, a
    <2>2. \E f : Rounds(f, N, A, a, F)
        BY <2>1, RoundsExist
    <2> QED BY <2>2 DEF Rounds, A, a
<1>5. f = Again(f)
    <2>1. ASSUME NEW n \in 0..N, n # 0 PROVE F[f[n - 1]] = more(f[n - 1])
        <3>1. n - 1 \in 0..N
            BY <1>1, <2>1
        <3>2. f[n - 1] \in SUBSET ids
            BY <1>4, <3>1
        <3> QED BY <3>2
    <2> HIDE DEF F, N, more
    <2> QED BY <1>4, <2>1
<1> HIDE DEF Again
<1>6. found = Again(found)
    BY <1>5
<1> HIDE DEF found
<1>7. /\ found[0] = ids \cap {m}
      /\ \A n \in 1..N : found[n] = more(found[n - 1])
    BY <1>1, <1>6 DEF Again
<1>8. found \in [0..N -> SUBSET ids]
    <2> DEFINE bad == {n \in 0..N : ~ found[n] \subseteq ids}
    <2>1. found = [n \in 0..N |-> found[n]]
        BY <1>6 DEF Again
    <2>2. SUFFICES ASSUME bad # {} PROVE FALSE
        BY <2>1
    <2>3. PICK n \in bad : \A k \in bad : n <= k
        <3>1. bad \in SUBSET Nat
            BY <1>1
        <3> HIDE DEF bad
        <3> QED BY <2>2, <3>1, LeastExists
    <2>4. n \in 0..N /\ ~ found[n] \subseteq ids
        OBVIOUS
    <2>5. CASE n = 0
        BY <1>7, <2>4, <2>5
    <2>6. CASE n # 0
        <3>1. n - 1 \in 0..N /\ ~ n <= n - 1 /\ n \in 1..N
            BY <1>1, <2>4, <2>6
        <3>2. found[n - 1] \subseteq ids
            BY <2>3, <3>1
        <3> QED BY <1>7, <2>4, <3>1, <3>2
    <2> QED BY <2>5, <2>6
<1> QED BY <1>2, <1>7, <1>8

LEMMA MatchingAreEmployees ==
    ASSUME NEW tables, NEW q, q.subject.role \in Roles
    PROVE  Matching(tables, q) \subseteq DOMAIN tables.employees
<1> DEFINE scope == AccessScopeFor(q.subject)
<1>1. \A m : Team(tables, m) \subseteq DOMAIN tables.employees
    <2> TAKE m
    <2> DEFINE ids == DOMAIN tables.employees
               N   == Cardinality(People)
    <2>1. N \in 0..N
        BY PayrollConstants, FS_CardinalityType
    <2>2. PICK found \in [0..N -> SUBSET ids] : Team(tables, m) = found[N]
        BY TeamRounds
    <2> HIDE DEF N, ids
    <2>3. Team(tables, m) \subseteq ids
        BY <2>1, <2>2
    <2> QED BY <2>3 DEF ids
<1>2. scope.kind \in {"ALL", "TEAM", "SELF", "NONE"}
    BY DEF AccessScopeFor, Roles
<1> HIDE DEF scope
<1>3. InScope(tables, scope) \subseteq DOMAIN tables.employees
    BY <1>1, <1>2 DEF InScope
<1> QED BY <1>3 DEF Matching, scope

-----------------------------------------------------------------------------
(* Lists and pages *)

\* The order of a list: by what it is sorted by, and among equals by id.
Comes(tables, q, i, j) ==
    \/ KeyBefore(SortKey(tables, q, i), SortKey(tables, q, j), q.sortDir)
    \/ SortKey(tables, q, i) = SortKey(tables, q, j) /\ i < j

ListOrder(tables, q, S) == {p \in S \X S : Comes(tables, q, p[1], p[2])}

LEMMA SortKeysAreNumbers ==
    ASSUME NEW tables, IsCompany(tables), NEW q, q.sortBy \in SortFields,
           NEW i \in DOMAIN tables.employees
    PROVE  SortKey(tables, q, i) \in Int
<1>1. tables.employees[i] \in Employee
    BY DEF IsCompany, IsTable
<1>2. /\ tables.employees[i].name \in Int /\ tables.employees[i].hired \in Int
      /\ tables.employees[i].country \in Int /\ tables.employees[i].department \in Int
      /\ tables.employees[i].level \in Int
    <2> DEFINE e == tables.employees[i]
    <2>1. /\ e.name \in Names /\ e.country \in Countries /\ e.department \in Departments
          /\ e.level \in Levels /\ e.hired \in Days
        BY <1>1 DEF Employee
    <2> HIDE DEF e
    <2>2. /\ e.name \in Int /\ e.country \in Int /\ e.department \in Int
          /\ e.level \in Int /\ e.hired \in Int
        BY <2>1, ColumnsAreNumbers
    <2> QED BY <2>2 DEF e
<1>3. SalaryUsd(tables, i, q.asOf) \in Int
    <2> DEFINE pay == PayOn(tables, i, q.asOf)
    <2>1. CASE ~(Paid(tables, i, q.asOf) /\ Convertible(tables, i, q.asOf))
        BY <2>1 DEF SalaryUsd, Null
    <2>2. CASE Paid(tables, i, q.asOf) /\ Convertible(tables, i, q.asOf)
        <3>1. pay # NoPay /\ pay.currency \in DOMAIN Rates
            BY <2>2 DEF Paid, Convertible, HasRate
        <3>2. pay \in Record
            BY <3>1, PayOnType
        <3>3. pay.amount \in Int /\ Rates[pay.currency] \in Int
            BY <3>1, <3>2, PayrollConstants, MoneyConstants DEF Record, Payable
        <3>4. SalaryUsd(tables, i, q.asOf) = Usd(pay.amount, pay.currency)
            BY <2>2 DEF SalaryUsd
        <3> HIDE DEF pay
        <3> DEFINE x == pay.amount * Rates[pay.currency]
        <3>5. x \in Int
            BY <3>3
        <3> HIDE DEF x
        <3>6. Round(x, RateUnit) \in Int
            BY <3>5, RoundIsNearest, PayrollConstants
        <3> QED BY <3>4, <3>6 DEF Usd, x
    <2> QED BY <2>1, <2>2
<1> QED BY <1>2, <1>3 DEF SortKey, SortFields

LEMMA ListOrderIsStrict ==
    ASSUME NEW tables, IsCompany(tables), NEW q, q.sortBy \in SortFields,
           NEW S \in SUBSET DOMAIN tables.employees
    PROVE  /\ IsFiniteSet(S)
           /\ StrictlyOrders(ListOrder(tables, q, S), S)
<1> DEFINE key(i) == SortKey(tables, q, i)
<1>1. S \subseteq People
    BY DEF IsCompany, IsTable
<1>2. IsFiniteSet(S)
    BY <1>1, PayrollConstants, FS_Subset
<1>3. \A i \in S : i \in Int /\ key(i) \in Int
    <2>1. \A i \in S : i \in Int
        BY <1>1, ColumnsAreNumbers
    <2>2. \A i \in S : SortKey(tables, q, i) \in Int
        BY SortKeysAreNumbers
    <2> QED BY <2>1, <2>2
<1> HIDE DEF key
<1>4. \A i, j \in S : <<i, j>> \in ListOrder(tables, q, S) <=>
                          KeyBefore(key(i), key(j), q.sortDir) \/ (key(i) = key(j) /\ i < j)
    BY DEF ListOrder, Comes, key
<1>5. \A i \in S : <<i, i>> \notin ListOrder(tables, q, S)
    BY <1>3, <1>4 DEF KeyBefore, Null
<1>6. \A i, j, k \in S : <<i, j>> \in ListOrder(tables, q, S) /\ <<j, k>> \in ListOrder(tables, q, S)
                              => <<i, k>> \in ListOrder(tables, q, S)
    BY <1>3, <1>4 DEF KeyBefore, Null
<1>7. \A i, j \in S : i # j => \/ <<i, j>> \in ListOrder(tables, q, S)
                                \/ <<j, i>> \in ListOrder(tables, q, S)
    BY <1>3, <1>4 DEF KeyBefore, Null
<1> QED BY <1>2, <1>5, <1>6, <1>7 DEF StrictlyOrders

\* How many of S are listed before i.
Ahead(tables, q, S, i) == Cardinality({j \in S : Comes(tables, q, j, i)})

\* Everybody once, each at the place that those before them leave.
LEMMA ListIsSorted ==
    ASSUME NEW tables, IsCompany(tables), NEW q, q.sortBy \in SortFields,
           NEW S \in SUBSET DOMAIN tables.employees
    PROVE  LET list == Listed(tables, q, S)
           IN  /\ list \in Seq(S) /\ Len(list) = Cardinality(S) /\ Cardinality(S) \in Nat
               /\ \A k \in 1..Cardinality(S) : list[k] \in S /\ Ahead(tables, q, S, list[k]) = k - 1
               /\ \A i \in S : /\ Ahead(tables, q, S, i) + 1 \in 1..Cardinality(S)
                               /\ list[Ahead(tables, q, S, i) + 1] = i
               /\ \A j, k \in 1..Cardinality(S) : j < k <=> Comes(tables, q, list[j], list[k])
<1> DEFINE list == Listed(tables, q, S)
           R == ListOrder(tables, q, S)
           key == [i \in S |-> SortKey(tables, q, i)]
           before(i, j) == KeyBefore(key[i], key[j], q.sortDir) \/ (key[i] = key[j] /\ i < j)
           at(x, k) == Cardinality({y \in S : before(y, x)}) = k - 1
<1>1. IsFiniteSet(S) /\ StrictlyOrders(R, S)
    BY ListOrderIsStrict
<1>2. list = [k \in 1..Cardinality(S) |-> CHOOSE x \in S : at(x, k)]
    BY DEF Listed, OrderBy
<1>3. \A i, j \in S : before(i, j) <=> Comes(tables, q, i, j)
    BY DEF Comes
<1> HIDE DEF list, R, before
<1>4. ASSUME NEW x \in S
      PROVE  /\ Rank(R, S, x) = Ahead(tables, q, S, x)
             /\ Rank(R, S, x) = Cardinality({y \in S : before(y, x)})
    <2>1. Below(R, S, x) = {y \in S : Comes(tables, q, y, x)}
        BY DEF Below, R, ListOrder
    <2>2. Below(R, S, x) = {y \in S : before(y, x)}
        BY <1>3, <2>1
    <2> QED BY <2>1, <2>2 DEF Rank, Ahead
<1>5. ASSUME NEW k \in 1..Cardinality(S) PROVE list[k] \in S /\ Rank(R, S, list[k]) = k - 1
    <2>1. list[k] = CHOOSE x \in S : at(x, k)
        BY <1>2
    <2>2. \E x \in S : at(x, k)
        BY <1>1, <1>4, EveryRankIsHeld
    <2> HIDE DEF at
    <2>3. list[k] \in S /\ at(list[k], k)
        BY <2>1, <2>2
    <2> QED BY <1>4, <2>3 DEF at
<1>6. list = [k \in 1..Cardinality(S) |-> list[k]]
    <2> HIDE DEF at
    <2> QED BY <1>2
<1>7. /\ list \in Seq(S) /\ Len(list) = Cardinality(S) /\ Cardinality(S) \in Nat
      /\ \A x \in S : Rank(R, S, x) + 1 \in 1..Cardinality(S) /\ list[Rank(R, S, x) + 1] = x
      /\ \A j, k \in 1..Cardinality(S) : j < k <=> <<list[j], list[k]>> \in R
    BY <1>1, <1>5, <1>6, SortedByRank
<1>8. \A j, k \in 1..Cardinality(S) : <<list[j], list[k]>> \in R <=> Comes(tables, q, list[j], list[k])
    BY <1>5 DEF R, ListOrder
<1> QED BY <1>4, <1>5, <1>7, <1>8 DEF list

LEMMA FirstOfPage ==
    ASSUME NEW page \in Nat \ {0}, NEW size \in Nat \ {0}
    PROVE  (page - 1) * size \in Nat /\ page * size = (page - 1) * size + size
OBVIOUS

\* "rows" is what "list" has from "first" on, at most "size" of it.
Slice(rows, list, first, size) ==
    /\ Len(rows) = IF first + size <= Len(list) THEN size
                   ELSE IF first < Len(list) THEN Len(list) - first ELSE 0
    /\ \A k \in 1..Len(rows) : first + k \in 1..Len(list) /\ rows[k] = list[first + k]

\* A page of a list is the next "size" of it, or what is left.
LEMMA PageIsSlice ==
    ASSUME NEW S, NEW list \in Seq(S), NEW page \in Nat \ {0}, NEW size \in Nat \ {0}
    PROVE  /\ PageOf(list, page, size) \in Seq(S)
           /\ Slice(PageOf(list, page, size), list, (page - 1) * size, size)
<1> DEFINE first == (page - 1) * size
           last  == Min({page * size, Len(list)})
           rows  == PageOf(list, page, size)
<1>1. first \in Nat /\ page * size = first + size /\ Len(list) \in Nat
    BY FirstOfPage
<1>2. rows = SubSeq(list, first + 1, last)
    BY DEF PageOf
<1>3. last = IF first + size <= Len(list) THEN first + size ELSE Len(list)
    BY <1>1, Lesser
<1> HIDE DEF first, last, rows
<1>4. last \in Int /\ first + 1 \in Int /\ last <= Len(list)
    BY <1>1, <1>3
<1>5. \A i \in (first + 1)..last : list[i] \in S
    BY <1>1, <1>4
<1>6. /\ rows \in Seq(S)
      /\ Len(rows) = IF first + 1 <= last THEN last - (first + 1) + 1 ELSE 0
      /\ \A k \in 1..(last - (first + 1) + 1) : rows[k] = list[first + 1 + k - 1]
    BY <1>2, <1>4, <1>5, SubSeqProperties
<1>7. Len(rows) = IF first + size <= Len(list) THEN size
                  ELSE IF first < Len(list) THEN Len(list) - first ELSE 0
    BY <1>1, <1>3, <1>6
<1>8. ASSUME NEW k \in 1..Len(rows) PROVE first + k \in 1..Len(list) /\ rows[k] = list[first + k]
    BY <1>1, <1>3, <1>4, <1>6
<1> QED BY <1>6, <1>7, <1>8 DEF first, rows, Slice

-----------------------------------------------------------------------------
(* The order of an export *)

\* In order of name, and of people of one name by id.
NameBefore(tables, i, j) ==
    \/ tables.employees[i].name < tables.employees[j].name
    \/ tables.employees[i].name = tables.employees[j].name /\ i < j

ExportQueries == {ExportQuery(e) : e \in Exports}

LEMMA ExportsAreByName ==
    ASSUME NEW q \in ExportQueries
    PROVE  q.sortBy = "name" /\ q.sortDir = "asc" /\ q.subject.role \in Roles
<1>1. PICK e \in Exports : q = [e EXCEPT !.sortBy = "name", !.sortDir = "asc", !.fit = All]
    BY DEF ExportQueries, ExportQuery
<1>2. e \in Query
    BY ScreensConstants
<1> QED BY <1>1, <1>2 DEF Query

LEMMA ComesByName ==
    ASSUME NEW tables, IsCompany(tables), NEW q \in ExportQueries,
           NEW i \in DOMAIN tables.employees, NEW j \in DOMAIN tables.employees
    PROVE  Comes(tables, q, i, j) <=> NameBefore(tables, i, j)
<1>1. tables.employees[i].name \in Nat /\ tables.employees[j].name \in Nat
    BY EmployeeFields DEF IsCompany, IsTable
<1>2. /\ SortKey(tables, q, i) = tables.employees[i].name
      /\ SortKey(tables, q, j) = tables.employees[j].name
    BY ExportsAreByName DEF SortKey
<1> QED BY <1>1, <1>2, ExportsAreByName DEF Comes, KeyBefore, NameBefore, Null

\* Nobody comes before themselves, nor after those they come before.
LEMMA NamesAreOrdered ==
    ASSUME NEW tables, IsCompany(tables),
           NEW i \in DOMAIN tables.employees, NEW j \in DOMAIN tables.employees
    PROVE  /\ ~NameBefore(tables, i, i)
           /\ NameBefore(tables, j, i) => ~NameBefore(tables, i, j) /\ i # j
           /\ i # j => NameBefore(tables, i, j) \/ NameBefore(tables, j, i)
<1>1. tables.employees[i].name \in Nat /\ tables.employees[j].name \in Nat
    BY EmployeeFields DEF IsCompany, IsTable
<1>2. i \in Int /\ j \in Int
    BY ColumnsAreNumbers DEF IsCompany, IsTable
<1> QED BY <1>1, <1>2 DEF NameBefore

LEMMA PrecedentByName ==
    ASSUME IsCompany(db), req.q \in ExportQueries, NEW S, NEW i \in Ids, NEW j \in S, j \in Ids,
           NameBefore(db, j, i)
    PROVE  Precedent(i, S)
<1> DEFINE q == req.q
           pair == {i, j}
           order == Listed(db, q, pair)
<1>1. i \in DOMAIN db.employees /\ j \in DOMAIN db.employees /\ pair \in SUBSET DOMAIN db.employees
    BY DEF Ids
<1>2. ~NameBefore(db, i, j) /\ ~NameBefore(db, j, j) /\ i # j
    BY <1>1, NamesAreOrdered
<1>3. {y \in pair : Comes(db, q, y, j)} = {}
    BY <1>1, <1>2, ComesByName
<1>4. Ahead(db, q, pair, j) = 0
    BY <1>3, FS_EmptySet DEF Ahead
<1>5. order[Ahead(db, q, pair, j) + 1] = j
    BY <1>1, ListIsSorted, ExportsAreByName DEF SortFields
<1>6. order[1] = j
    BY <1>4, <1>5
<1> HIDE DEF order
<1>7. order # <<i>>
    BY <1>2, <1>6
<1> QED BY <1>6, <1>7 DEF Precedent, order

-----------------------------------------------------------------------------
(* An export in flight *)

Line == [id : People \cup {Null}, employee : Employee, salary : Record \cup {NoPay}] \cup {Header}

ExportRequest ==
    [kind : {"export"}, q : ExportQueries, pc : {"writing", "draining"}, page : Nat \ {0},
     last : BOOLEAN, queue : Seq(Line), file : Seq(Line), buffer : Nat, needDrain : BOOLEAN,
     gone : BOOLEAN, came : SUBSET People, went : SUBSET People, since : Nat]

\* Back-pressure: the writer never runs ahead of the socket, and a socket that will say that
\* it is drained holds something to drain.
FlowOK(r) ==
    /\ r \in ExportRequest
    /\ Len(r.queue) <= Chunk
    /\ r.buffer <= HighWater
    /\ r.pc = "writing" /\ ~r.gone => r.buffer < HighWater
    /\ r.pc = "draining" => r.needDrain \/ r.gone
    /\ r.needDrain => r.buffer > 0

\* Whoever has been read so far: after the header, what is written and then what is queued.
Read(r) == Len(r.file) + Len(r.queue) - 1

LineAt(r, k) == IF k <= Len(r.file) THEN r.file[k] ELSE r.queue[k - Len(r.file)]

PersonAt(r, k) == LineAt(r, k + 1).id

CameBefore(tables, r, i) == \E j \in r.came : NameBefore(tables, j, i)

WentBefore(tables, r, i) == \E j \in r.went : NameBefore(tables, j, i)

\* How many of those who match now come before i.
Place(tables, r, i) == Cardinality({j \in Matching(tables, r.q) : NameBefore(tables, j, i)})

\* The walk: as long as there is more to read every page was full; the k-th person read had
\* k - 1 before them and has no more now unless somebody came; and whoever matches and has
\* not been read is on a page to come unless somebody went.
WalkOK(tables, r) ==
    /\ Read(r) >= 0 /\ LineAt(r, 1) = Header
    /\ \A k \in 1..Read(r) : PersonAt(r, k) \in DOMAIN tables.employees
    /\ r.came \cup r.went \subseteq DOMAIN tables.employees
    /\ ~r.last => Read(r) = (r.page - 1) * Chunk
    /\ \A k \in 1..Read(r) :
           CameBefore(tables, r, PersonAt(r, k)) \/ Place(tables, r, PersonAt(r, k)) <= k - 1
    /\ \A j, k \in 1..Read(r) :
           j < k /\ PersonAt(r, j) = PersonAt(r, k) => CameBefore(tables, r, PersonAt(r, j))
    /\ \A i \in Matching(tables, r.q) \ r.came :
           \/ \E k \in 1..Read(r) : PersonAt(r, k) = i
           \/ WentBefore(tables, r, i)
           \/ ~r.last /\ Place(tables, r, i) >= Read(r)

\* What a page brings: the next Chunk of those who match now, in order of name.
LEMMA PageRead ==
    ASSUME IsCompany(db), req \in ExportRequest, ReadPage
    PROVE  LET M     == Matching(db, req.q)
               list  == Listed(db, req.q, M)
               first == (req.page - 1) * Chunk
           IN  \/ req' = NoRequest
               \/ /\ req' \in ExportRequest /\ Len(req.queue) = 0 /\ req.last = FALSE
                  /\ Len(req'.queue) = IF first + Chunk <= Cardinality(M) THEN Chunk
                                       ELSE IF first < Cardinality(M) THEN Cardinality(M) - first ELSE 0
                  /\ \A k \in 1..Len(req'.queue) :
                        /\ first + k \in 1..Cardinality(M)
                        /\ req'.queue[k].id = list[first + k]
                  /\ req'.page = req.page + 1
                  /\ req'.last = (first + Chunk >= Cardinality(M) \/ Len(req'.queue) = 0)
                  /\ req' = [req EXCEPT !.queue = req'.queue, !.page = req'.page, !.last = req'.last]
<1> DEFINE q     == req.q
           M     == Matching(db, q)
           list  == Listed(db, q, M)
           first == (req.page - 1) * Chunk
           rows  == PageOf(list, req.page, Chunk)
           lines == [k \in DOMAIN rows |-> EmployeeRow(db, rows[k], q.asOf)]
           last  == req.page * Chunk >= Cardinality(M) \/ rows = <<>>
<1>1. q \in ExportQueries /\ req.page \in Nat \ {0} /\ Chunk \in Nat \ {0}
    BY ScreensConstants DEF ExportRequest
<1>2. q.sortBy \in SortFields /\ q.subject.role \in Roles
    BY <1>1, ExportsAreByName DEF SortFields
<1>3. M \subseteq DOMAIN db.employees
    BY <1>2, MatchingAreEmployees
<1>4. list \in Seq(M) /\ Len(list) = Cardinality(M) /\ Cardinality(M) \in Nat
    BY <1>2, <1>3, ListIsSorted
<1>5. first \in Nat /\ req.page * Chunk = first + Chunk
    BY <1>1, FirstOfPage
<1>6. req' = NoRequest \/ req' = [req EXCEPT !.queue = lines, !.page = @ + 1, !.last = last]
    <2> DEFINE page == ListEmployees(db, q, req.page, Chunk)
    <2>1. req' = IF page = Failed THEN NoRequest
                 ELSE [req EXCEPT
                          !.queue = [k \in DOMAIN page.rows |-> EmployeeRow(db, page.rows[k], q.asOf)],
                          !.page = @ + 1,
                          !.last = req.page * Chunk >= page.total \/ page.rows = <<>>]
        BY DEF ReadPage
    <2>2. page = Failed \/ page = [rows |-> rows, total |-> Cardinality(M)]
        BY DEF ListEmployees
    <2> HIDE DEF page
    <2>3. CASE page = Failed
        BY <2>1, <2>3
    <2>4. CASE page # Failed
        <3>1. page.rows = rows /\ page.total = Cardinality(M)
            <4> HIDE DEF rows, M
            <4> QED BY <2>2, <2>4
        <3>2. req' = [req EXCEPT
                        !.queue = [k \in DOMAIN page.rows |-> EmployeeRow(db, page.rows[k], q.asOf)],
                        !.page = @ + 1,
                        !.last = req.page * Chunk >= page.total \/ page.rows = <<>>]
            BY <2>1, <2>4
        <3> HIDE DEF rows, M
        <3> QED BY <3>1, <3>2
    <2> QED BY <2>3, <2>4
<1> HIDE DEF M, list
<1>7. /\ rows \in Seq(M)
      /\ Len(rows) = IF first + Chunk <= Cardinality(M) THEN Chunk
                     ELSE IF first < Cardinality(M) THEN Cardinality(M) - first ELSE 0
      /\ \A k \in 1..Len(rows) : first + k \in 1..Cardinality(M) /\ rows[k] = list[first + k]
    <2> DEFINE page == req.page
    <2>1. list \in Seq(M) /\ page \in Nat \ {0} /\ Chunk \in Nat \ {0}
        BY <1>1, <1>4
    <2>2. first = (page - 1) * Chunk /\ rows = PageOf(list, page, Chunk)
        OBVIOUS
    <2> HIDE DEF rows, first, page
    <2>3. rows \in Seq(M) /\ Slice(rows, list, first, Chunk)
        BY <2>1, <2>2, PageIsSlice
    <2> QED BY <1>4, <2>3 DEF Slice
<1> HIDE DEF first, rows
<1>8. /\ lines \in Seq(Line) /\ Len(lines) = Len(rows) /\ Len(rows) \in Nat
      /\ \A k \in 1..Len(rows) : lines[k].id = rows[k]
    <2>1. DOMAIN rows = 1..Len(rows) /\ Len(rows) \in Nat /\ \A k \in 1..Len(rows) : rows[k] \in M
        BY <1>7
    <2>2. ASSUME NEW k \in 1..Len(rows)
          PROVE  lines[k] \in Line /\ lines[k].id = rows[k]
        <3>1. rows[k] \in DOMAIN db.employees
            BY <1>3, <2>1
        <3>2. rows[k] \in People /\ db.employees[rows[k]] \in Employee
            BY <3>1 DEF IsCompany, IsTable
        <3>3. lines[k] = [id |-> rows[k], employee |-> db.employees[rows[k]],
                          salary |-> PayOn(db, rows[k], q.asOf)]
            BY <2>1 DEF EmployeeRow
        <3> QED BY <3>2, <3>3, PayOnType DEF Line
    <2>3. lines = [k \in 1..Len(rows) |-> lines[k]]
        BY <2>1
    <2> HIDE DEF lines
    <2> QED BY <2>1, <2>2, <2>3
<1>9. rows = <<>> <=> Len(lines) = 0
    BY <1>7, <1>8
<1>10. req.queue = <<>> /\ req.last = FALSE
    BY DEF ReadPage, ExportRequest
<1> HIDE DEF lines, last
<1>11. ASSUME req' = [req EXCEPT !.queue = lines, !.page = @ + 1, !.last = last]
       PROVE  /\ req' \in ExportRequest /\ req'.queue = lines
              /\ req'.page = req.page + 1 /\ req'.last = last
              /\ req' = [req EXCEPT !.queue = req'.queue, !.page = req'.page, !.last = req'.last]
    <2>1. last \in BOOLEAN
        BY DEF last
    <2>2. req' = [req EXCEPT !.queue = lines, !.page = req.page + 1, !.last = last]
        BY <1>11
    <2>3. req'.queue = lines /\ req'.page = req.page + 1 /\ req'.last = last
        BY <2>2 DEF ExportRequest
    <2>4. req' \in ExportRequest
        <3>1. req.page + 1 \in Nat \ {0} /\ lines \in Seq(Line)
            BY <1>1, <1>8
        <3> QED BY <2>1, <2>2, <3>1 DEF ExportRequest
    <2> QED BY <2>2, <2>3, <2>4
<1>12. last = (first + Chunk >= Cardinality(M) \/ Len(lines) = 0)
    BY <1>5, <1>9 DEF last
<1>13. Len(req.queue) = 0
    BY <1>10
<1>14. CASE req' = NoRequest
    BY <1>14
<1>15. CASE req' = [req EXCEPT !.queue = lines, !.page = @ + 1, !.last = last]
    BY <1>7, <1>8, <1>10, <1>11, <1>12, <1>13, <1>15 DEF first, M, list
<1> QED BY <1>6, <1>14, <1>15
-----------------------------------------------------------------------------
(* The steps of an export *)

LEMMA ExportFields ==
    ASSUME NEW r \in ExportRequest
    PROVE  /\ r.kind = "export" /\ r.q \in ExportQueries /\ r.pc \in {"writing", "draining"}
           /\ r.page \in Nat \ {0} /\ r.last \in BOOLEAN
           /\ r.queue \in Seq(Line) /\ r.file \in Seq(Line)
           /\ Len(r.queue) \in Nat /\ Len(r.file) \in Nat
           /\ r.buffer \in Nat /\ r.needDrain \in BOOLEAN /\ r.gone \in BOOLEAN
           /\ r.came \subseteq People /\ r.went \subseteq People /\ r.since \in Nat
BY DEF ExportRequest

\* Two requests that have read the same are as far along the walk.
LEMMA SameWalk ==
    ASSUME NEW tables, NEW r, NEW s, WalkOK(tables, r),
           Read(s) = Read(r), Read(r) \in Int, \A k \in 1..(Read(r) + 1) : LineAt(s, k) = LineAt(r, k),
           s.q = r.q, s.page = r.page, s.last = r.last, s.came = r.came, s.went = r.went
    PROVE  WalkOK(tables, s)
<1>1. \A k \in 1..Read(r) : PersonAt(s, k) = PersonAt(r, k)
    BY DEF PersonAt
<1>2. LineAt(s, 1) = LineAt(r, 1)
    BY DEF WalkOK
<1>3. \A i : /\ Place(tables, s, i) = Place(tables, r, i)
             /\ CameBefore(tables, s, i) = CameBefore(tables, r, i)
             /\ WentBefore(tables, s, i) = WentBefore(tables, r, i)
    BY DEF Place, CameBefore, WentBefore
<1> QED BY <1>1, <1>2, <1>3 DEF WalkOK

LEMMA MatchingIsFinite ==
    ASSUME NEW tables, IsCompany(tables), NEW q \in ExportQueries
    PROVE  /\ Matching(tables, q) \in SUBSET DOMAIN tables.employees
           /\ IsFiniteSet(Matching(tables, q))
           /\ Matching(tables, q) \subseteq People
<1>1. Matching(tables, q) \subseteq DOMAIN tables.employees
    BY ExportsAreByName, MatchingAreEmployees
<1>2. Matching(tables, q) \subseteq People
    BY <1>1 DEF IsCompany, IsTable
<1>3. IsFiniteSet(Matching(tables, q))
    BY <1>2, PayrollConstants, FS_Subset
<1> QED BY <1>1, <1>2, <1>3

LEMMA PlaceIsNumber ==
    ASSUME NEW tables, IsCompany(tables), NEW r \in ExportRequest, NEW i
    PROVE  /\ IsFiniteSet({j \in Matching(tables, r.q) : NameBefore(tables, j, i)})
           /\ Place(tables, r, i) \in Nat
<1> DEFINE S == {j \in Matching(tables, r.q) : NameBefore(tables, j, i)}
<1>1. IsFiniteSet(Matching(tables, r.q))
    BY ExportFields, MatchingIsFinite
<1>2. IsFiniteSet(S)
    BY <1>1, FS_Subset
<1> HIDE DEF S
<1>3. Cardinality(S) \in Nat
    BY <1>2, FS_CardinalityType
<1> QED BY <1>2, <1>3 DEF S, Place

LEMMA BeginningExport ==
    ASSUME IsCompany(db), writes \in 0..MaxWrites, NEW e \in Exports, BeginExport(e)
    PROVE  FlowOK(req') /\ WalkOK(db, req') /\ req'.kind = "export"
<1>1. req' = [kind |-> "export", q |-> ExportQuery(e), pc |-> "writing", page |-> 1,
              last |-> FALSE, queue |-> <<Header>>, file |-> <<>>, buffer |-> 0,
              needDrain |-> FALSE, gone |-> FALSE, came |-> {}, went |-> {}, since |-> writes]
    BY DEF BeginExport
<1>2. ExportQuery(e) \in ExportQueries /\ writes \in Nat
    BY ScreensConstants DEF ExportQueries
<1>3. <<Header>> \in Seq(Line) /\ <<>> \in Seq(Line) /\ Len(<<Header>>) = 1 /\ Len(<<>>) = 0
    BY DEF Line
<1>4. req' \in ExportRequest
    BY <1>1, <1>2, <1>3 DEF ExportRequest
<1>5. FlowOK(req')
    BY <1>1, <1>3, <1>4, ScreensConstants DEF FlowOK
<1> DEFINE r == req'
<1>6. /\ r.page = 1 /\ r.last = FALSE /\ r.queue = <<Header>> /\ r.file = <<>> /\ r.kind = "export"
      /\ r.came = {} /\ r.went = {} /\ r \in ExportRequest
    BY <1>1, <1>4
<1> HIDE DEF r
<1>7. Read(r) = 0 /\ LineAt(r, 1) = Header
    BY <1>3, <1>6 DEF Read, LineAt
<1>8. (r.page - 1) * Chunk = 0
    BY <1>6, ScreensConstants
<1>9. \A i : Place(db, r, i) >= 0
    <2> TAKE i
    <2>1. Place(db, r, i) \in Nat
        BY <1>6, PlaceIsNumber
    <2> QED BY <2>1
<1>10. WalkOK(db, r)
    BY <1>6, <1>7, <1>8, <1>9 DEF WalkOK
<1> QED BY <1>5, <1>6, <1>10 DEF r

\* A line on its way from the page to the file stays where it is among what has been read.
LEMMA WritingLine ==
    ASSUME FlowOK(req), WalkOK(db, req), WriteLine
    PROVE  FlowOK(req') /\ WalkOK(db, req') /\ req'.kind = "export"
<1> DEFINE r == req
           s == req'
<1>1. r \in ExportRequest /\ r.queue # <<>> /\ r.pc = "writing"
    BY DEF FlowOK, WriteLine
<1>2. /\ r.queue \in Seq(Line) /\ r.file \in Seq(Line)
      /\ Len(r.queue) \in Nat \ {0} /\ Len(r.file) \in Nat
    BY <1>1, ExportFields
<1>3. /\ Head(r.queue) = r.queue[1] /\ Head(r.queue) \in Line /\ Tail(r.queue) \in Seq(Line)
      /\ Len(Tail(r.queue)) = Len(r.queue) - 1
      /\ \A k \in 1..(Len(r.queue) - 1) : Tail(r.queue)[k] = r.queue[k + 1]
    BY <1>1, <1>2, HeadTailProperties
<1>4. /\ Append(r.file, Head(r.queue)) \in Seq(Line)
      /\ Len(Append(r.file, Head(r.queue))) = Len(r.file) + 1
      /\ \A k \in 1..Len(r.file) : Append(r.file, Head(r.queue))[k] = r.file[k]
      /\ Append(r.file, Head(r.queue))[Len(r.file) + 1] = r.queue[1]
    BY <1>2, <1>3, AppendProperties
<1>5. s = [r EXCEPT !.queue = Tail(r.queue), !.file = Append(r.file, Head(r.queue)),
                    !.buffer = IF r.gone THEN r.buffer ELSE r.buffer + 1,
                    !.needDrain = IF r.gone THEN r.needDrain
                                  ELSE r.needDrain \/ r.buffer + 1 >= HighWater,
                    !.pc = IF r.gone \/ r.buffer + 1 >= HighWater THEN "draining" ELSE "writing"]
    <2>1. s = [Taken(r) EXCEPT !.queue = Tail(@), !.file = Append(@, Head(r.queue)),
                               !.pc = IF Full(r) THEN "draining" ELSE "writing"]
        BY DEF WriteLine
    <2>2. CASE r.gone
        BY <1>1, <2>1, <2>2 DEF ExportRequest, Taken, Full
    <2>3. CASE ~r.gone
        BY <1>1, <2>1, <2>3 DEF ExportRequest, Taken, Full
    <2> QED BY <2>2, <2>3
<1>6. /\ s.queue = Tail(r.queue) /\ s.file = Append(r.file, Head(r.queue))
      /\ s.buffer = IF r.gone THEN r.buffer ELSE r.buffer + 1
      /\ s.needDrain = IF r.gone THEN r.needDrain ELSE r.needDrain \/ r.buffer + 1 >= HighWater
      /\ s.pc = IF r.gone \/ r.buffer + 1 >= HighWater THEN "draining" ELSE "writing"
      /\ s.q = r.q /\ s.page = r.page /\ s.last = r.last /\ s.came = r.came /\ s.went = r.went
      /\ s.gone = r.gone /\ s.kind = "export"
    BY <1>1, <1>5 DEF ExportRequest
<1>7. FlowOK(r) /\ WalkOK(db, r)
    OBVIOUS
<1>8. r.buffer \in Nat /\ r.needDrain \in BOOLEAN /\ r.gone \in BOOLEAN
      /\ r.buffer <= HighWater /\ (~r.gone => r.buffer < HighWater) /\ (r.needDrain => r.buffer > 0)
    BY <1>1, <1>7, ExportFields DEF FlowOK
<1>9. s = [r EXCEPT !.queue = s.queue, !.file = s.file, !.buffer = s.buffer,
                    !.needDrain = s.needDrain, !.pc = s.pc]
    BY <1>5, <1>6
<1> HIDE DEF r, s
<1>10. /\ s.buffer \in Nat /\ s.needDrain \in BOOLEAN /\ s.pc \in {"writing", "draining"}
       /\ s.buffer <= HighWater
       /\ s.pc = "writing" /\ ~s.gone => s.buffer < HighWater
       /\ s.pc = "draining" => s.needDrain \/ s.gone
       /\ s.needDrain => s.buffer > 0
    <2>1. CASE r.gone
        <3>1. s.buffer = r.buffer /\ s.needDrain = r.needDrain /\ s.pc = "draining" /\ s.gone
            BY <1>6, <2>1
        <3> QED BY <1>8, <3>1
    <2>2. CASE ~r.gone /\ r.buffer + 1 >= HighWater
        <3>1. s.buffer = r.buffer + 1 /\ s.needDrain = TRUE /\ s.pc = "draining"
            BY <1>6, <2>2
        <3>2. s.buffer \in Nat /\ s.buffer <= HighWater /\ s.buffer > 0
            BY <1>8, <2>2, <3>1, ScreensConstants
        <3> QED BY <3>1, <3>2
    <2>3. CASE ~r.gone /\ ~(r.buffer + 1 >= HighWater)
        <3>1. s.buffer = r.buffer + 1 /\ s.needDrain = r.needDrain /\ s.pc = "writing"
            BY <1>6, <1>8, <2>3
        <3> QED BY <1>8, <2>3, <3>1, ScreensConstants
    <2> QED BY <1>8, <2>1, <2>2, <2>3
<1>11. /\ s.queue \in Seq(Line) /\ s.file \in Seq(Line)
       /\ Len(s.queue) = Len(r.queue) - 1 /\ Len(s.file) = Len(r.file) + 1
       /\ \A k \in 1..(Len(r.queue) - 1) : s.queue[k] = r.queue[k + 1]
       /\ \A k \in 1..Len(r.file) : s.file[k] = r.file[k]
       /\ s.file[Len(r.file) + 1] = r.queue[1]
    BY <1>3, <1>4, <1>6
<1>12. s \in ExportRequest
    BY <1>1, <1>9, <1>10, <1>11 DEF ExportRequest
<1>13. FlowOK(s)
    <2>1. Len(r.queue) <= Chunk
        BY <1>7 DEF FlowOK
    <2>2. Len(s.queue) <= Chunk
        BY <1>2, <1>11, <2>1, ScreensConstants
    <2> QED BY <1>10, <1>12, <2>2 DEF FlowOK
<1> DEFINE F == Len(r.file)
           Q == Len(r.queue)
<1>14. Read(r) = F + Q - 1 /\ Read(s) = (F + 1) + (Q - 1) - 1 /\ F \in Nat /\ Q \in Nat \ {0}
    BY <1>2, <1>11 DEF Read
<1>15. /\ \A k : LineAt(r, k) = IF k <= F THEN r.file[k] ELSE r.queue[k - F]
       /\ \A k : LineAt(s, k) = IF k <= F + 1 THEN s.file[k] ELSE s.queue[k - (F + 1)]
    BY <1>11 DEF LineAt
<1> HIDE DEF F, Q
<1>16. Read(s) = Read(r) /\ Read(r) \in Int
    BY <1>14
<1>17. ASSUME NEW k \in 1..(Read(r) + 1) PROVE LineAt(s, k) = LineAt(r, k)
    <2>1. k \in 1..(F + Q)
        BY <1>14
    <2>2. CASE k <= F
        <3>1. LineAt(s, k) = s.file[k] /\ LineAt(r, k) = r.file[k] /\ k \in 1..F
            BY <1>14, <1>15, <2>1, <2>2
        <3> QED BY <1>11, <3>1 DEF F
    <2>3. CASE k = F + 1
        <3>1. LineAt(s, k) = s.file[F + 1] /\ LineAt(r, k) = r.queue[1]
            BY <1>14, <1>15, <2>3
        <3> QED BY <1>11, <3>1 DEF F
    <2>4. CASE k > F + 1
        <3> DEFINE n == k - (F + 1)
        <3>1. n \in 1..(Q - 1) /\ n + 1 = k - F
            BY <1>14, <2>1, <2>4
        <3>2. LineAt(s, k) = s.queue[n] /\ LineAt(r, k) = r.queue[n + 1]
            BY <1>14, <1>15, <2>1, <2>4, <3>1
        <3> HIDE DEF n
        <3> QED BY <1>11, <3>1, <3>2 DEF Q
    <2> QED BY <1>14, <2>1, <2>2, <2>3, <2>4
<1>18. WalkOK(db, s)
    BY <1>6, <1>7, <1>16, <1>17, SameWalk
<1> QED BY <1>6, <1>13, <1>18 DEF s

LEMMA ReadingSocket ==
    ASSUME FlowOK(req), WalkOK(db, req), ClientReads \/ ClientGoes
    PROVE  FlowOK(req') /\ WalkOK(db, req') /\ req'.kind = "export"
<1> DEFINE r == req
           s == req'
<1>1. r \in ExportRequest /\ ~r.gone
    BY DEF FlowOK, ClientReads, ClientGoes
<1>2. /\ r.buffer \in Nat /\ r.needDrain \in BOOLEAN /\ r.pc \in {"writing", "draining"}
      /\ Len(r.file) \in Nat /\ Len(r.queue) \in Nat
    BY <1>1, ExportFields
<1>3. CASE ClientReads
    <2> DEFINE drained == r.needDrain /\ r.buffer = 1
    <2>1. s = [r EXCEPT !.buffer = r.buffer - 1, !.needDrain = r.needDrain /\ ~drained,
                        !.pc = IF drained THEN "writing" ELSE r.pc] /\ r.buffer > 0
        BY <1>3 DEF ClientReads
    <2>2. /\ s.buffer = r.buffer - 1 /\ s.needDrain = (r.needDrain /\ ~drained)
          /\ s.pc = (IF drained THEN "writing" ELSE r.pc) /\ s.gone = r.gone
          /\ s.kind = "export" /\ s.queue = r.queue /\ s.file = r.file
          /\ s.q = r.q /\ s.page = r.page /\ s.last = r.last /\ s.came = r.came /\ s.went = r.went
        BY <1>1, <2>1 DEF ExportRequest
    <2>3. s \in ExportRequest
        <3>1. r.buffer - 1 \in Nat /\ (r.needDrain /\ ~drained) \in BOOLEAN
              /\ (IF drained THEN "writing" ELSE r.pc) \in {"writing", "draining"}
            BY <1>2, <2>1
        <3> HIDE DEF drained
        <3> QED BY <1>1, <2>1, <3>1 DEF ExportRequest
    <2>4. /\ Len(s.queue) <= Chunk /\ s.buffer <= HighWater
          /\ s.pc = "writing" /\ ~s.gone => s.buffer < HighWater
          /\ s.pc = "draining" => s.needDrain \/ s.gone
          /\ s.needDrain => s.buffer > 0
        <3>1. /\ Len(r.queue) <= Chunk /\ r.buffer <= HighWater
              /\ r.pc = "draining" => r.needDrain
              /\ HighWater \in Nat
            BY <1>1, ScreensConstants DEF FlowOK
        <3>2. r.buffer > 0
            BY <2>1
        <3> HIDE DEF r, s
        <3>3. CASE drained
            <4>1. s.buffer = 0 /\ s.pc = "writing" /\ ~s.needDrain
                <5>1. s.buffer = 0 /\ s.pc = "writing"
                    BY <2>2, <3>3
                <5> HIDE DEF drained
                <5>2. ~s.needDrain
                    BY <2>2, <3>3
                <5> QED BY <5>1, <5>2
            <4>2. s.buffer <= HighWater /\ s.buffer < HighWater /\ s.queue = r.queue
                BY <2>2, <4>1, ScreensConstants
            <4> QED BY <3>1, <4>1, <4>2
        <3>4. CASE ~drained
            <4>1. s.buffer = r.buffer - 1 /\ s.needDrain = r.needDrain /\ s.pc = r.pc
                BY <1>2, <2>2, <3>4
            <4>2. s.needDrain => s.buffer > 0
                BY <1>2, <3>2, <3>4, <4>1
            <4>3. s.buffer < HighWater
                BY <1>2, <3>1, <4>1
            <4> QED BY <1>2, <2>2, <3>1, <4>1, <4>2, <4>3
        <3> QED BY <3>3, <3>4
    <2>5. /\ Read(s) = Read(r) /\ Read(r) \in Int
          /\ \A k \in 1..(Read(r) + 1) : LineAt(s, k) = LineAt(r, k)
        BY <1>2, <2>2 DEF Read, LineAt
    <2> HIDE DEF r, s
    <2>6. WalkOK(db, r)
        BY DEF r
    <2>7. WalkOK(db, s)
        BY <2>2, <2>5, <2>6, SameWalk
    <2> QED BY <2>2, <2>3, <2>4, <2>7 DEF FlowOK, s
<1>4. CASE ClientGoes
    <2>1. s = [r EXCEPT !.gone = TRUE]
        BY <1>4 DEF ClientGoes
    <2>2. /\ s.buffer = r.buffer /\ s.needDrain = r.needDrain /\ s.pc = r.pc /\ s.gone = TRUE
          /\ s.kind = "export" /\ s.queue = r.queue /\ s.file = r.file
          /\ s.q = r.q /\ s.page = r.page /\ s.last = r.last /\ s.came = r.came /\ s.went = r.went
        BY <1>1, <2>1 DEF ExportRequest
    <2>3. s \in ExportRequest
        BY <1>1, <2>1 DEF ExportRequest
    <2>4. /\ Len(s.queue) <= Chunk /\ s.buffer <= HighWater
          /\ s.needDrain => s.buffer > 0
        BY <1>2, <2>2 DEF FlowOK
    <2>5. /\ Read(s) = Read(r) /\ Read(r) \in Int
          /\ \A k \in 1..(Read(r) + 1) : LineAt(s, k) = LineAt(r, k)
        BY <1>2, <2>2 DEF Read, LineAt
    <2> HIDE DEF r, s
    <2>6. WalkOK(db, r)
        BY DEF r
    <2>7. WalkOK(db, s)
        BY <2>2, <2>5, <2>6, SameWalk
    <2> QED BY <2>2, <2>3, <2>4, <2>7 DEF FlowOK, s
<1> QED BY <1>3, <1>4

\* The next page begins where the last one ended; that nobody is passed over or met again
\* unless somebody went or came is the arithmetic of places.
LEMMA ReadingPage ==
    ASSUME IsCompany(db), FlowOK(req), WalkOK(db, req), ReadPage
    PROVE  req' = NoRequest \/ (FlowOK(req') /\ WalkOK(db, req') /\ req'.kind = "export")
<1> DEFINE r     == req
           s     == req'
           M     == Matching(db, r.q)
           list  == Listed(db, r.q, M)
           first == (r.page - 1) * Chunk
           n     == Len(s.queue)
           total == Cardinality(M)
<1>1. r \in ExportRequest
    BY DEF FlowOK
<1>2. SUFFICES ASSUME req' # NoRequest
               PROVE  FlowOK(req') /\ WalkOK(db, req') /\ req'.kind = "export"
    OBVIOUS
<1>3. /\ s \in ExportRequest /\ Len(r.queue) = 0 /\ r.last = FALSE
      /\ n = IF first + Chunk <= total THEN Chunk ELSE IF first < total THEN total - first ELSE 0
      /\ \A k \in 1..n : first + k \in 1..total /\ s.queue[k].id = list[first + k]
      /\ s.page = r.page + 1
      /\ s.last = (first + Chunk >= total \/ n = 0)
      /\ s = [r EXCEPT !.queue = s.queue, !.page = s.page, !.last = s.last]
    BY <1>1, <1>2, PageRead
<1>4. /\ s.kind = "export" /\ s.q = r.q /\ s.pc = r.pc /\ s.file = r.file /\ s.buffer = r.buffer
      /\ s.needDrain = r.needDrain /\ s.gone = r.gone /\ s.came = r.came /\ s.went = r.went
    BY <1>1, <1>3 DEF ExportRequest
<1>5. r.q \in ExportQueries /\ r.page \in Nat \ {0} /\ Chunk \in Nat \ {0} /\ Len(r.file) \in Nat
    BY <1>1, ExportFields, ScreensConstants
<1>6. M \in SUBSET DOMAIN db.employees /\ IsFiniteSet(M)
    BY <1>5, MatchingIsFinite
<1>7. total \in Nat
    BY <1>6, FS_CardinalityType
<1>8. /\ \A k \in 1..total : list[k] \in M /\ Ahead(db, r.q, M, list[k]) = k - 1
      /\ \A i \in M : /\ Ahead(db, r.q, M, i) + 1 \in 1..total
                      /\ list[Ahead(db, r.q, M, i) + 1] = i
    <2>1. r.q.sortBy \in SortFields
        BY <1>5, ExportsAreByName DEF SortFields
    <2> DEFINE q == r.q
    <2> HIDE DEF q, M
    <2> QED BY <1>6, <2>1, ListIsSorted DEF q
<1>9. \A i \in M : Ahead(db, r.q, M, i) = Place(db, s, i)
    <2> TAKE i \in M
    <2>1. \A j \in M : Comes(db, r.q, j, i) <=> NameBefore(db, j, i)
        BY <1>5, <1>6, ComesByName
    <2>2. {j \in M : Comes(db, r.q, j, i)} = {j \in M : NameBefore(db, j, i)}
        BY <2>1
    <2> QED BY <1>4, <2>2 DEF Ahead, Place
<1>10. \A i : /\ Place(db, s, i) = Place(db, r, i) /\ Place(db, s, i) \in Nat
              /\ CameBefore(db, s, i) = CameBefore(db, r, i)
              /\ WentBefore(db, s, i) = WentBefore(db, r, i)
    <2>1. \A i : Place(db, s, i) \in Nat
        BY <1>3, PlaceIsNumber
    <2> QED BY <1>4, <2>1 DEF Place, CameBefore, WentBefore
<1>11. first \in Nat /\ r.page * Chunk = first + Chunk
    BY <1>5, FirstOfPage
<1>12. s.last \in BOOLEAN /\ (s.page - 1) * Chunk = first + Chunk
    BY <1>3, <1>5, <1>11
<1> HIDE DEF M, list, first, total
<1> DEFINE over == first + Chunk >= total \/ n = 0
<1>13. /\ n \in Nat /\ n <= Chunk
       /\ s.last <=> over
       /\ n = IF first + Chunk <= total THEN Chunk ELSE IF first < total THEN total - first ELSE 0
       /\ ~s.last => n = Chunk
    <2>1. /\ n = IF first + Chunk <= total THEN Chunk ELSE IF first < total THEN total - first ELSE 0
          /\ s.last = over
        BY <1>3 DEF first, total, M
    <2> HIDE DEF n, s
    <2>2. n \in Nat /\ n <= Chunk /\ (~over => n = Chunk)
        BY <1>5, <1>7, <1>11, <2>1
    <2> HIDE DEF over
    <2>3. s.last <=> over
        BY <1>12, <2>1
    <2> QED BY <2>1, <2>2, <2>3
<1> HIDE DEF over
<1>14. FlowOK(s)
    BY <1>3, <1>4, <1>13 DEF FlowOK
<1> HIDE DEF n
<1>15. Read(r) = first /\ Len(r.file) = first + 1
    <2>1. Read(r) = Len(r.file) - 1
        BY <1>3, <1>5 DEF Read
    <2>2. Read(r) = first
        BY <1>3 DEF WalkOK, first
    <2> QED BY <1>5, <1>11, <2>1, <2>2
<1>16. Read(s) = first + n
    <2>1. Len(s.file) = first + 1 /\ Read(s) = Len(s.file) + n - 1
        BY <1>4, <1>15 DEF Read, n
    <2> QED BY <1>11, <1>13, <2>1
<1>17. \A k \in 1..(first + 1) : LineAt(s, k) = LineAt(r, k)
    BY <1>4, <1>11, <1>15 DEF LineAt
<1>18. \A k \in 1..first : PersonAt(s, k) = PersonAt(r, k)
    BY <1>11, <1>17 DEF PersonAt
<1>19. ASSUME NEW k \in (first + 1)..(first + n)
       PROVE  PersonAt(s, k) = list[k] /\ list[k] \in M /\ k \in 1..total /\ Place(db, s, list[k]) = k - 1
    <2> DEFINE m == k - first
    <2>1. m \in 1..n /\ k = first + m
        BY <1>11, <1>13
    <2>2. k \in 1..total /\ s.queue[m].id = list[k]
        BY <1>3, <2>1 DEF n, first, list, total, M
    <2>3. LineAt(s, k + 1) = s.queue[m]
        BY <1>4, <1>11, <1>13, <1>15, <2>1 DEF LineAt
    <2>4. list[k] \in M /\ Ahead(db, r.q, M, list[k]) = k - 1
        BY <1>8, <2>2
    <2>5. Place(db, s, list[k]) = k - 1
        BY <1>9, <2>4
    <2> QED BY <2>2, <2>3, <2>4, <2>5 DEF PersonAt
<1>20. 1..Read(s) = 1..first \cup (first + 1)..(first + n)
    BY <1>11, <1>13, <1>16
<1>21. Read(s) >= 0 /\ LineAt(s, 1) = Header
    BY <1>11, <1>13, <1>16, <1>17 DEF WalkOK
<1>22. \A k \in 1..Read(s) : PersonAt(s, k) \in DOMAIN db.employees
    BY <1>6, <1>15, <1>18, <1>19, <1>20 DEF WalkOK
<1>23. s.came \cup s.went \subseteq DOMAIN db.employees
    BY <1>4 DEF WalkOK
<1>24. ~s.last => Read(s) = (s.page - 1) * Chunk
    BY <1>12, <1>13, <1>16
<1>25. \A k \in 1..Read(s) : CameBefore(db, s, PersonAt(s, k)) \/ Place(db, s, PersonAt(s, k)) <= k - 1
    <2>1. ASSUME NEW k \in 1..first
          PROVE  CameBefore(db, s, PersonAt(s, k)) \/ Place(db, s, PersonAt(s, k)) <= k - 1
        BY <1>10, <1>15, <1>18 DEF WalkOK
    <2>2. ASSUME NEW k \in (first + 1)..(first + n)
          PROVE  Place(db, s, PersonAt(s, k)) <= k - 1
        BY <1>11, <1>13, <1>19
    <2> QED BY <1>20, <2>1, <2>2
<1>26. ASSUME NEW j \in 1..Read(s), NEW k \in 1..Read(s), j < k, PersonAt(s, j) = PersonAt(s, k)
       PROVE  CameBefore(db, s, PersonAt(s, j))
    <2>1. CASE k \in 1..first
        <3>1. j \in 1..first
            BY <1>11, <1>26, <2>1
        <3>2. PersonAt(r, j) = PersonAt(r, k)
            BY <1>18, <1>26, <2>1, <3>1
        <3>3. CameBefore(db, r, PersonAt(r, j))
            BY <1>15, <1>26, <2>1, <3>1, <3>2 DEF WalkOK
        <3> QED BY <1>10, <1>18, <3>1, <3>3
    <2>2. CASE k \in (first + 1)..(first + n)
        <3>1. Place(db, s, PersonAt(s, k)) = k - 1
            BY <1>19, <2>2
        <3>2. ~(Place(db, s, PersonAt(s, j)) <= j - 1)
            BY <1>11, <1>13, <1>16, <1>26, <2>2, <3>1
        <3> QED BY <1>25, <3>2
    <2> QED BY <1>20, <2>1, <2>2
<1>27. ASSUME NEW i \in M \ s.came
       PROVE  \/ \E k \in 1..Read(s) : PersonAt(s, k) = i
              \/ WentBefore(db, s, i)
              \/ ~s.last /\ Place(db, s, i) >= Read(s)
    <2>1. \/ \E k \in 1..Read(r) : PersonAt(r, k) = i
          \/ WentBefore(db, r, i)
          \/ Place(db, r, i) >= Read(r)
        BY <1>4 DEF WalkOK, M
    <2>2. CASE \E k \in 1..Read(r) : PersonAt(r, k) = i
        BY <1>15, <1>18, <1>20, <2>2
    <2>3. CASE WentBefore(db, r, i)
        BY <1>10, <2>3
    <2>4. CASE Place(db, r, i) >= Read(r)
        <3> DEFINE a == Place(db, s, i)
        <3>1. a \in Nat /\ a >= first /\ a + 1 \in 1..total /\ list[a + 1] = i
            BY <1>8, <1>9, <1>10, <1>15, <2>4
        <3>2. CASE a < first + n
            <4>1. a + 1 \in (first + 1)..(first + n)
                BY <1>11, <1>13, <3>1, <3>2
            <4> HIDE DEF a
            <4>2. PersonAt(s, a + 1) = i
                BY <1>19, <3>1, <4>1
            <4> QED BY <1>20, <4>1, <4>2
        <3>3. CASE ~(a < first + n)
            <4> HIDE DEF a
            <4>1. total > first + n
                BY <1>7, <1>11, <1>13, <3>1, <3>3
            <4>2. ~over
                BY <1>5, <1>7, <1>11, <1>13, <4>1 DEF over
            <4>4. ~s.last
                BY <1>13, <4>2
            <4>5. a >= Read(s)
                BY <1>11, <1>13, <1>16, <3>1, <3>3
            <4> QED BY <4>4, <4>5 DEF a
        <3> QED BY <3>2, <3>3
    <2> QED BY <2>1, <2>2, <2>3, <2>4
<1>28. Matching(db, s.q) = M
    BY <1>4 DEF M
<1> HIDE DEF r, s
<1>29. WalkOK(db, s)
    BY <1>21, <1>22, <1>23, <1>24, <1>25, <1>26, <1>27, <1>28 DEF WalkOK
<1> QED BY <1>4, <1>14, <1>29 DEF s

\* A write moves nobody in the order of names; whoever it makes come or go is noticed.
LEMMA WritingUnder ==
    ASSUME IsCompany(db), writes \in 0..MaxWrites, req.kind = "export",
           FlowOK(req), WalkOK(db, req), Write
    PROVE  FlowOK(req') /\ WalkOK(db', req') /\ req'.kind = "export"
<1> DEFINE r  == req
           s  == req'
           M  == Matching(db, r.q)
           M2 == Matching(db', r.q)
<1>1. IsCompany(db') /\ RowsKept(db, db') /\ req' = Noticed
    BY Writing
<1>2. r \in ExportRequest /\ r.q \in ExportQueries
    BY ExportFields DEF FlowOK
<1>3. /\ M \in SUBSET DOMAIN db.employees /\ IsFiniteSet(M) /\ M \subseteq People
      /\ M2 \in SUBSET DOMAIN db'.employees /\ IsFiniteSet(M2) /\ M2 \subseteq People
    BY <1>1, <1>2, MatchingIsFinite
<1>4. s = [r EXCEPT !.went = @ \cup (M \ M2), !.came = @ \cup (M2 \ M)]
    BY <1>1 DEF Noticed
<1>5. /\ s.kind = "export" /\ s.q = r.q /\ s.pc = r.pc /\ s.file = r.file /\ s.buffer = r.buffer
      /\ s.needDrain = r.needDrain /\ s.gone = r.gone /\ s.page = r.page /\ s.last = r.last
      /\ s.queue = r.queue
      /\ s.went = r.went \cup (M \ M2) /\ s.came = r.came \cup (M2 \ M)
    BY <1>2, <1>4 DEF ExportRequest
<1> HIDE DEF M, M2
<1>6. s \in ExportRequest
    BY <1>2, <1>3, <1>4 DEF ExportRequest
<1>7. FlowOK(s)
    BY <1>5, <1>6 DEF FlowOK
<1>8. /\ Read(s) = Read(r) /\ Read(r) \in Int
      /\ \A k : PersonAt(s, k) = PersonAt(r, k) /\ LineAt(s, k) = LineAt(r, k)
    BY <1>2, <1>5, ExportFields DEF Read, LineAt, PersonAt
<1>9. DOMAIN db.employees \subseteq DOMAIN db'.employees
    BY <1>1 DEF RowsKept
<1>10. \A i, j \in DOMAIN db.employees : NameBefore(db', i, j) = NameBefore(db, i, j)
    BY <1>1 DEF RowsKept, NameBefore
<1>11. \A k \in 1..Read(r) : PersonAt(r, k) \in DOMAIN db.employees
    BY DEF WalkOK
<1>12. r.came \cup r.went \subseteq DOMAIN db.employees
    BY DEF WalkOK
<1>13. \A i \in DOMAIN db.employees :
          /\ CameBefore(db, r, i) => CameBefore(db', s, i)
          /\ WentBefore(db, r, i) => WentBefore(db', s, i)
    BY <1>5, <1>10, <1>12 DEF CameBefore, WentBefore
<1>14. ASSUME NEW i \in DOMAIN db.employees
       PROVE  /\ Place(db, r, i) \in Nat /\ Place(db', s, i) \in Nat
              /\ CameBefore(db', s, i) \/ Place(db', s, i) <= Place(db, r, i)
              /\ WentBefore(db', s, i) \/ Place(db', s, i) >= Place(db, r, i)
    <2> DEFINE B  == {j \in M : NameBefore(db, j, i)}
               B2 == {j \in M2 : NameBefore(db', j, i)}
    <2>1. /\ IsFiniteSet(B) /\ Place(db, r, i) \in Nat
          /\ IsFiniteSet(B2) /\ Place(db', s, i) \in Nat
        BY <1>1, <1>2, <1>5, <1>6, PlaceIsNumber DEF M, M2
    <2>2. Place(db, r, i) = Cardinality(B) /\ Place(db', s, i) = Cardinality(B2)
        BY <1>5 DEF Place, M, M2
    <2>3. CASE \E j \in M2 \ M : NameBefore(db', j, i)
        <3>1. CameBefore(db', s, i)
            BY <1>5, <2>3 DEF CameBefore
        <3>2. CASE \E j \in M \ M2 : NameBefore(db', j, i)
            BY <1>5, <2>1, <3>1, <3>2 DEF WentBefore
        <3>3. CASE ~ \E j \in M \ M2 : NameBefore(db', j, i)
            <4>1. B \subseteq B2
                BY <1>3, <1>10, <3>3
            <4> HIDE DEF B, B2
            <4>2. Cardinality(B) <= Cardinality(B2)
                BY <2>1, <4>1, FS_Subset
            <4> QED BY <2>1, <2>2, <3>1, <4>2
        <3> QED BY <3>2, <3>3
    <2>4. CASE ~ \E j \in M2 \ M : NameBefore(db', j, i)
        <3>1. B2 \subseteq B
            BY <1>3, <1>10, <2>4
        <3>2. CASE \E j \in M \ M2 : NameBefore(db', j, i)
            <4>1. WentBefore(db', s, i)
                BY <1>5, <3>2 DEF WentBefore
            <4> HIDE DEF B, B2
            <4>2. Cardinality(B2) <= Cardinality(B)
                BY <2>1, <3>1, FS_Subset
            <4> QED BY <2>1, <2>2, <4>1, <4>2
        <3>3. CASE ~ \E j \in M \ M2 : NameBefore(db', j, i)
            <4>1. B = B2
                BY <1>3, <1>10, <3>1, <3>3
            <4> QED BY <2>1, <2>2, <4>1
        <3> QED BY <3>2, <3>3
    <2> QED BY <2>3, <2>4
<1>15. Read(s) >= 0 /\ LineAt(s, 1) = Header
    BY <1>8 DEF WalkOK
<1>16. \A k \in 1..Read(s) : PersonAt(s, k) \in DOMAIN db'.employees
    BY <1>8, <1>9, <1>11
<1>17. s.came \cup s.went \subseteq DOMAIN db'.employees
    BY <1>3, <1>5, <1>9, <1>12
<1>18. ~s.last => Read(s) = (s.page - 1) * Chunk
    BY <1>5, <1>8 DEF WalkOK
<1>19. ASSUME NEW k \in 1..Read(s)
       PROVE  CameBefore(db', s, PersonAt(s, k)) \/ Place(db', s, PersonAt(s, k)) <= k - 1
    <2> DEFINE i == PersonAt(r, k)
    <2>1. i \in DOMAIN db.employees /\ PersonAt(s, k) = i /\ k \in Int
        BY <1>8, <1>11
    <2>2. CameBefore(db, r, i) \/ Place(db, r, i) <= k - 1
        BY <1>8 DEF WalkOK
    <2> HIDE DEF i
    <2>3. /\ Place(db, r, i) \in Nat /\ Place(db', s, i) \in Nat
          /\ CameBefore(db', s, i) \/ Place(db', s, i) <= Place(db, r, i)
        BY <1>14, <2>1
    <2>4. CameBefore(db, r, i) => CameBefore(db', s, i)
        BY <1>13, <2>1
    <2> QED BY <2>1, <2>2, <2>3, <2>4
<1>20. ASSUME NEW j \in 1..Read(s), NEW k \in 1..Read(s), j < k, PersonAt(s, j) = PersonAt(s, k)
       PROVE  CameBefore(db', s, PersonAt(s, j))
    <2>1. PersonAt(r, j) = PersonAt(r, k) /\ j \in 1..Read(r) /\ k \in 1..Read(r)
        BY <1>8, <1>20
    <2>2. CameBefore(db, r, PersonAt(r, j))
        BY <1>20, <2>1 DEF WalkOK
    <2> QED BY <1>8, <1>11, <1>13, <2>1, <2>2
<1>21. ASSUME NEW i \in M2 \ s.came
       PROVE  \/ \E k \in 1..Read(s) : PersonAt(s, k) = i
              \/ WentBefore(db', s, i)
              \/ ~s.last /\ Place(db', s, i) >= Read(s)
    <2>1. i \in M /\ i \notin r.came /\ i \in DOMAIN db.employees
        BY <1>3, <1>5
    <2>2. \/ \E k \in 1..Read(r) : PersonAt(r, k) = i
          \/ WentBefore(db, r, i)
          \/ ~r.last /\ Place(db, r, i) >= Read(r)
        BY <2>1 DEF WalkOK, M
    <2>3. /\ Place(db, r, i) \in Nat /\ Place(db', s, i) \in Nat
          /\ WentBefore(db', s, i) \/ Place(db', s, i) >= Place(db, r, i)
        BY <1>14, <2>1
    <2>4. WentBefore(db, r, i) => WentBefore(db', s, i)
        BY <1>13, <2>1
    <2>5. CASE \E k \in 1..Read(r) : PersonAt(r, k) = i
        BY <1>8, <2>5
    <2>6. CASE WentBefore(db, r, i)
        BY <2>4, <2>6
    <2>7. CASE ~r.last /\ Place(db, r, i) >= Read(r)
        BY <1>5, <1>8, <2>3, <2>7
    <2> QED BY <2>2, <2>5, <2>6, <2>7
<1>22. Matching(db', s.q) = M2
    BY <1>5 DEF M2
<1> HIDE DEF r, s
<1>23. WalkOK(db', s)
    BY <1>15, <1>16, <1>17, <1>18, <1>19, <1>20, <1>21, <1>22 DEF WalkOK
<1> QED BY <1>5, <1>7, <1>23 DEF s

-----------------------------------------------------------------------------
(* A person's page *)

\* Changes that are the differences of the amounts they are between add up.
LEMMA ChangesAddUp ==
    ASSUME NEW h, NEW j \in Int, NEW k \in Int, j < k,
           \A n \in j..k : h[n].record.amount \in Int,
           \A n \in (j + 1)..k : h[n].change.amount = h[n].record.amount - h[n - 1].record.amount
    PROVE  FoldLeft(LAMBDA sum, n : sum + h[n].change.amount, 0, [n \in 1..(k - j) |-> j + n])
               = h[k].record.amount - h[j].record.amount
<1> DEFINE N == k - j
           a == [n \in 0..N |-> h[j + n].record.amount]
           way == [n \in 1..N |-> j + n]
           Folded(f) == [t \in SUBSET (1..N) |->
                            IF t = {} THEN 0 ELSE f[t \ {Max(t)}] + h[way[Max(t)]].change.amount]
           Sums(f) == [t \in SUBSET (1..N) |->
                          IF t = {} THEN 0 ELSE f[t \ {Max(t)}] + (a[Max(t)] - a[Max(t) - 1])]
<1>1. N \in Nat /\ N # 0
    OBVIOUS
<1>2. a \in [0..N -> Int]
    <2>1. \A n \in 0..N : j + n \in j..k
        OBVIOUS
    <2> QED BY <2>1
<1>3. DOMAIN way = 1..N
    OBVIOUS
<1>4. FoldLeft(LAMBDA sum, n : sum + h[n].change.amount, 0, way)
          = (CHOOSE f : f = Folded(f))[1..N]
    BY <1>3 DEF FoldLeft, MapThenFoldSet
<1>5. (CHOOSE f : f = Sums(f))[1..N] = a[N] - a[0]
    <2> HIDE DEF N, a
    <2> QED BY <1>1, <1>2, DifferencesAddUp
<1>6. ASSUME NEW t \in SUBSET (1..N), t # {}
      PROVE  h[way[Max(t)]].change.amount = a[Max(t)] - a[Max(t) - 1]
    <2> DEFINE n == Max(t)
    <2>1. IsFiniteSet(1..N)
        BY <1>1, FS_Interval
    <2>2. t \in SUBSET Int
        OBVIOUS
    <2>3. IsFiniteSet(t)
        <3> HIDE DEF N
        <3> QED BY <2>1, FS_Subset
    <2>4. n \in t
        BY <1>6, <2>2, <2>3, MaxIsGreatest
    <2>5. n \in 1..N
        BY <2>4
    <2> HIDE DEF n
    <2>6. /\ n \in 0..N /\ n - 1 \in 0..N /\ j + n \in (j + 1)..k
          /\ j + (n - 1) = (j + n) - 1
        BY <2>5
    <2>7. way[n] = j + n /\ a[n] = h[j + n].record.amount /\ a[n - 1] = h[(j + n) - 1].record.amount
        BY <2>5, <2>6
    <2>8. h[j + n].change.amount = h[j + n].record.amount - h[(j + n) - 1].record.amount
        BY <2>6
    <2> QED BY <2>7, <2>8 DEF n
<1>7. \A f : Folded(f) = Sums(f)
    <2> HIDE DEF way, a, N
    <2> QED BY <1>6
<1> HIDE DEF Folded, Sums
<1>8. a[N] = h[k].record.amount /\ a[0] = h[j].record.amount
    <2>1. N \in 0..N /\ 0 \in 0..N /\ j + N = k /\ j + 0 = j
        BY <1>1
    <2>2. \A n \in 0..N : a[n] = h[j + n].record.amount
        OBVIOUS
    <2> HIDE DEF a, N
    <2> QED BY <2>1, <2>2
<1>9. (CHOOSE f : f = Folded(f)) = (CHOOSE f : f = Sums(f))
    BY <1>7
<1> QED BY <1>4, <1>5, <1>8, <1>9

\* The salary at the top of a page was in force when it was read, and stays on record.
DetailOK ==
    /\ req = [kind |-> "detail", id |-> req.id, salary |-> req.salary, history |-> req.history,
              reports |-> req.reports, toRead |-> req.toRead, since |-> req.since]
    /\ req.id \in Ids
    /\ \/ req.salary = NoPay
       \/ req.salary \in RecordsOf(db, req.id) /\ req.salary.from <= PageOpener.asOf
    /\ req.since \in Nat /\ req.since <= writes
    /\ req.since = writes => req.salary = PayOn(db, req.id, PageOpener.asOf)
    /\ DetailLags

LEMMA OpeningDetail ==
    ASSUME IsCompany(db), writes \in 0..MaxWrites, NEW i \in Ids, OpenDetail(i)
    PROVE  DetailOK'
<1> DEFINE pay == PayOn(db, i, PageOpener.asOf)
<1>1. /\ req' = [kind |-> "detail", id |-> i, salary |-> pay, history |-> <<>>, reports |-> Null,
                 toRead |-> {"history", "reports"}, since |-> writes]
      /\ db' = db /\ writes' = writes
    BY DEF OpenDetail
<1>2. RecordTable(db.records)
    BY CompanyRecords
<1>3. pay = NoPay \/ (pay \in RecordsOf(db, i) /\ pay.from <= PageOpener.asOf)
    BY <1>2, PayOnIsLatest
<1> HIDE DEF pay
<1>4. /\ req'.id = i /\ req'.salary = pay /\ req'.since = writes /\ "history" \in req'.toRead
      /\ req' = [kind |-> "detail", id |-> req'.id, salary |-> req'.salary, history |-> req'.history,
                 reports |-> req'.reports, toRead |-> req'.toRead, since |-> req'.since]
    BY <1>1
<1>5. DetailLags'
    BY <1>4 DEF DetailLags
<1>6. writes \in Nat
    BY ScreensConstants
<1> QED BY <1>1, <1>3, <1>4, <1>5, <1>6 DEF DetailOK, Ids, RecordsOf, pay

\* What is read of a history is what the salary join would make of it.
LEMMA ListingHistory ==
    ASSUME IsCompany(db), writes \in Nat, req.kind = "detail", DetailOK, ListHistory
    PROVE  req' = NoRequest \/ DetailOK'
<1> DEFINE day == PageOpener.asOf
           i   == req.id
           H   == History(db, i)
           h   == WithChanges(H, day)
           n   == CurrentRecordIndex(H, day)
           pay == PayOn(db, i, day)
           S   == RecordsOf(db, i)
<1>1. SUFFICES ASSUME req' # NoRequest PROVE DetailOK'
    OBVIOUS
<1>2. /\ req' = [req EXCEPT !.toRead = @ \ {"history"}, !.history = h]
      /\ db' = db /\ writes' = writes
    BY <1>1 DEF ListHistory
<1>3. /\ req'.id = i /\ req'.salary = req.salary /\ req'.since = req.since /\ req'.history = h
      /\ req'.kind = "detail" /\ "history" \notin req'.toRead
      /\ req' = [kind |-> "detail", id |-> req'.id, salary |-> req'.salary, history |-> req'.history,
                 reports |-> req'.reports, toRead |-> req'.toRead, since |-> req'.since]
    BY <1>2 DEF DetailOK
<1>4. RecordTable(db.records) /\ day \in Int /\ day \in Nat
    BY CompanyRecords, ScreensConstants, PayrollConstants DEF Days
<1>5. /\ H \in Seq(S) /\ \A c \in S : \E k \in DOMAIN H : H[k] = c
    BY <1>4, HistoryIsSorted
<1>6. /\ n \in 0..Len(H) /\ \A k \in DOMAIN H : k > n <=> H[k].from > day
      /\ n # 0 => H[n] = pay
      /\ n = 0 => pay = NoPay
    BY <1>4, HistoryAgreesWithJoin
<1>7. \/ {c \in S : c.from <= day} = {} /\ pay = NoPay
      \/ /\ pay \in S /\ pay.from <= day
         /\ \A d \in S : d.from <= day /\ d # pay => Precedes(d, pay)
    BY <1>4, PayOnIsLatest
<1>8. \A c \in S : c.from \in Nat /\ c.amount \in Int
    BY <1>4, PayrollConstants, MoneyConstants DEF RecordTable, PayableRecord, Days, RecordsOf
<1>9. h = [k \in DOMAIN H |->
              [record |-> H[k], change |-> Change(H, k), isCurrent |-> k = n, isScheduled |-> H[k].from > day]]
    BY DEF WithChanges
<1>10. /\ \/ req.salary = NoPay
          \/ req.salary \in S /\ req.salary.from <= day
       /\ req.since = writes => req.salary = pay
       /\ req.since \in Nat /\ req.since <= writes
    BY DEF DetailOK
<1> HIDE DEF H, h, S, pay, n
<1>11. DOMAIN H = 1..Len(H) /\ Len(H) \in Nat /\ DOMAIN h = DOMAIN H /\ \A k \in DOMAIN H : H[k] \in S
    BY <1>5, <1>9
<1>12. \A k \in DOMAIN H : /\ h[k].record = H[k] /\ h[k].change = Change(H, k)
                           /\ h[k].isCurrent = (k = n) /\ h[k].isScheduled = (H[k].from > day)
    BY <1>9
<1> DEFINE current == {k \in DOMAIN h : h[k].isCurrent}
<1>13. current = IF n = 0 THEN {} ELSE {n}
    <2>1. \A k \in DOMAIN h : h[k].isCurrent <=> k = n
        BY <1>11, <1>12
    <2>2. current = {k \in DOMAIN h : k = n}
        BY <2>1
    <2>3. n # 0 <=> n \in DOMAIN h
        BY <1>6, <1>11
    <2> QED BY <2>2, <2>3
<1> HIDE DEF current
<1>14. \A k \in DOMAIN h : h[k].isScheduled <=> \A c \in current : k > c
    <2> TAKE k \in DOMAIN h
    <2>1. h[k].isScheduled <=> k > n
        BY <1>6, <1>11, <1>12
    <2>2. k \in Nat \ {0}
        BY <1>11
    <2> QED BY <1>13, <2>1, <2>2
<1>15. Cardinality(current) = IF \E k \in DOMAIN h : h[k].record.from <= day THEN 1 ELSE 0
    <2>1. CASE n = 0
        <3>1. \A k \in DOMAIN h : ~(h[k].record.from <= day)
            BY <1>4, <1>6, <1>8, <1>11, <1>12, <2>1
        <3>2. Cardinality(current) = 0
            BY <1>13, <2>1, FS_EmptySet
        <3> QED BY <3>1, <3>2
    <2>2. CASE n # 0
        <3>1. n \in DOMAIN h /\ ~(n > n)
            BY <1>6, <1>11, <2>2
        <3>2. h[n].record.from <= day
            BY <1>4, <1>6, <1>8, <1>11, <1>12, <3>1
        <3>3. Cardinality({n}) = 1
            BY FS_Singleton
        <3> QED BY <1>13, <2>2, <3>1, <3>2, <3>3
    <2> QED BY <2>1, <2>2
<1>16. req.salary # NoPay => \E k \in DOMAIN h : h[k].record = req.salary
    BY <1>5, <1>10, <1>11, <1>12
<1>17. ASSUME NEW k \in current
       PROVE  h[k].record = req.salary \/ (writes > req.since /\ Precedes(req.salary, h[k].record))
    <2>1. n # 0 /\ k = n /\ h[k].record = pay /\ n \in DOMAIN h
        BY <1>6, <1>11, <1>12, <1>13, <1>17
    <2>2. pay \in S /\ pay.from <= day /\ pay.from \in Nat
        <3>1. pay = H[n] /\ H[n] \in S
            BY <1>6, <1>11, <2>1
        <3>2. ~(n > n)
            BY <1>6
        <3>3. H[n].from <= day
            <4>1. ~(H[n].from > day)
                BY <1>6, <1>11, <2>1, <3>2
            <4> QED BY <1>4, <1>8, <3>1, <4>1
        <3> QED BY <1>8, <3>1, <3>3
    <2>3. CASE req.salary = pay
        BY <2>1, <2>3
    <2>4. CASE req.salary # pay
        <3>1. writes > req.since
            BY <1>10, <2>4
        <3>2. CASE req.salary = NoPay
            <4>1. req.salary.from = -1
                BY <3>2 DEF NoPay, Null
            <4> QED BY <2>1, <2>2, <3>1, <4>1 DEF Precedes
        <3>3. CASE req.salary \in S /\ req.salary.from <= day
            <4>1. Precedes(req.salary, pay)
                BY <1>7, <2>2, <2>4, <3>3
            <4> QED BY <2>1, <3>1, <4>1
        <3> QED BY <1>10, <3>2, <3>3
    <2> QED BY <2>3, <2>4
<1>18. ASSUME NEW j \in DOMAIN h, NEW k \in DOMAIN h, j < k,
              \A m \in (j + 1)..k : h[m].change.reason = "none"
       PROVE  h[k].record.amount - h[j].record.amount
                  = FoldLeft(LAMBDA sum, m : sum + h[m].change.amount, 0, [m \in 1..(k - j) |-> j + m])
    <2>1. j \in Int /\ k \in Int /\ 1 <= j /\ k <= Len(H)
        BY <1>11
    <2>2. ASSUME NEW m \in j..k PROVE m \in DOMAIN H /\ h[m].record.amount \in Int
        <3>1. m \in DOMAIN H
            BY <1>11, <2>1
        <3> QED BY <1>8, <1>11, <1>12, <3>1
    <2>3. ASSUME NEW m \in (j + 1)..k
          PROVE  h[m].change.amount = h[m].record.amount - h[m - 1].record.amount
        <3>1. m \in j..k /\ m - 1 \in j..k /\ m # 1
            BY <2>1
        <3>2. m \in DOMAIN H /\ m - 1 \in DOMAIN H
            BY <2>2, <3>1
        <3>3. h[m].change = Change(H, m) /\ h[m].record = H[m] /\ h[m - 1].record = H[m - 1]
            BY <1>12, <3>2
        <3>4. Change(H, m).reason = "none"
            BY <1>18, <3>3
        <3>5. Change(H, m).amount = H[m].amount - H[m - 1].amount
            BY <3>1, <3>4 DEF Change
        <3> QED BY <3>3, <3>5
    <2> HIDE DEF i, day
    <2>4. \A m \in j..k : h[m].record.amount \in Int
        BY <2>2
    <2>5. FoldLeft(LAMBDA sum, m : sum + h[m].change.amount, 0, [m \in 1..(k - j) |-> j + m])
              = h[k].record.amount - h[j].record.amount
        BY <1>18, <2>1, <2>3, <2>4, ChangesAddUp
    <2> QED BY <2>5
<1>19. DetailLags'
    <2>1. /\ req'.history = h /\ req'.salary = req.salary /\ req'.since = req.since /\ writes' = writes
        BY <1>2, <1>3
    <2>2. writes - req.since > 0 <=> writes > req.since
        BY <1>10
    <2>3. \A k \in current : \/ h[k].record = req.salary
                            \/ (writes - req.since > 0 /\ Precedes(req.salary, h[k].record))
        BY <1>17, <2>2
    <2>4. PageAgrees(h, req.salary, writes - req.since)
        BY <1>14, <1>15, <1>16, <1>18, <2>3 DEF PageAgrees, current
    <2> QED BY <2>1, <2>4 DEF DetailLags
<1> QED BY <1>2, <1>3, <1>10, <1>19 DEF DetailOK, Ids, S, pay, RecordsOf

LEMMA CountingReports ==
    ASSUME req.kind = "detail", DetailOK, CountDirectReports
    PROVE  DetailOK'
<1>1. /\ req' = [req EXCEPT !.toRead = @ \ {"reports"},
                            !.reports = Cardinality(DirectReports(db, req.id))]
      /\ db' = db /\ writes' = writes
    BY DEF CountDirectReports
<1>2. /\ req'.id = req.id /\ req'.salary = req.salary /\ req'.since = req.since
      /\ req'.history = req.history /\ req'.kind = "detail"
      /\ "history" \notin req'.toRead => "history" \notin req.toRead
      /\ req' = [kind |-> "detail", id |-> req'.id, salary |-> req'.salary, history |-> req'.history,
                 reports |-> req'.reports, toRead |-> req'.toRead, since |-> req'.since]
    BY <1>1 DEF DetailOK
<1>3. DetailLags'
    <2>1. "history" \notin req.toRead => PageAgrees(req.history, req.salary, writes - req.since)
        BY DEF DetailOK, DetailLags
    <2> QED BY <1>1, <1>2, <2>1 DEF DetailLags
<1> QED BY <1>1, <1>2, <1>3 DEF DetailOK, Ids, RecordsOf

\* A page that was overtaken stays right about what it has read.
LEMMA WritingUnderDetail ==
    ASSUME IsCompany(db), writes \in 0..MaxWrites, req.kind = "detail", DetailOK, Write
    PROVE  DetailOK'
<1>1. /\ RowsKept(db, db') /\ writes' = writes + 1 /\ req' = Noticed /\ writes \in Nat
    BY Writing, ScreensConstants
<1>2. req' = req
    BY <1>1 DEF Noticed
<1>3. req.since \in Nat /\ req.since <= writes
    BY DEF DetailOK
<1>4. writes' > req.since /\ req.since <= writes' /\ req.since # writes'
    BY <1>1, <1>3
<1>5. DetailLags'
    <2>1. "history" \notin req.toRead => PageAgrees(req.history, req.salary, writes - req.since)
        BY DEF DetailOK, DetailLags
    <2>2. writes - req.since > 0 => writes' - req.since > 0
        BY <1>1, <1>3
    <2>3. PageAgrees(req.history, req.salary, writes - req.since)
              => PageAgrees(req.history, req.salary, writes' - req.since)
        BY <2>2 DEF PageAgrees
    <2> QED BY <1>2, <2>1, <2>3 DEF DetailLags
<1>6. req.id \in DOMAIN db'.employees
    BY <1>1 DEF DetailOK, RowsKept, Ids
<1>7. \/ req.salary = NoPay
      \/ req.salary \in RecordsOf(db', req.id) /\ req.salary.from <= PageOpener.asOf
    BY <1>1 DEF DetailOK, RowsKept, RecordsOf
<1> QED BY <1>2, <1>3, <1>4, <1>5, <1>6, <1>7 DEF DetailOK, Ids

-----------------------------------------------------------------------------
(* The invariant *)

IInv ==
    /\ IsCompany(db)
    /\ writes \in 0..MaxWrites
    /\ req.kind \in {"none", "detail", "export", "checked"}
    /\ req.kind = "detail" => DetailOK
    /\ req.kind = "export" => FlowOK(req) /\ WalkOK(db, req)

LEMMA Initially == Init => IInv
<1> SUFFICES ASSUME Init PROVE IInv
    OBVIOUS
<1>1. IsCompany(db) /\ writes \in 0..MaxWrites
    BY ScreensConstants DEF Init
<1>2. req.kind = "none"
    BY DEF Init, NoRequest
<1> QED BY <1>1, <1>2 DEF IInv

LEMMA Preserved == IInv /\ [Next]_vars => IInv'
<1> SUFFICES ASSUME IInv, [Next]_vars PROVE IInv'
    OBVIOUS
<1>1. /\ IsCompany(db) /\ writes \in 0..MaxWrites /\ writes \in Nat
      /\ req.kind \in {"none", "detail", "export", "checked"}
      /\ req.kind = "detail" => DetailOK
      /\ req.kind = "export" => FlowOK(req) /\ WalkOK(db, req)
    BY ScreensConstants DEF IInv
<1>2. NoRequest.kind = "none"
    BY DEF NoRequest
<1>3. CASE Write
    <2>1. /\ IsCompany(db') /\ writes' \in 0..MaxWrites
          /\ req' = Noticed
        BY <1>1, <1>3, Writing
    <2>2. CASE req.kind = "export"
        BY <1>1, <1>3, <2>1, <2>2, WritingUnder DEF IInv
    <2>3. CASE req.kind = "detail"
        <3>1. req' = req
            BY <2>1, <2>3 DEF Noticed
        <3> QED BY <1>1, <1>3, <2>1, <2>3, <3>1, WritingUnderDetail DEF IInv
    <2>4. CASE req.kind \in {"none", "checked"}
        <3>1. req' = req
            BY <2>1, <2>4 DEF Noticed
        <3> QED BY <2>1, <2>4, <3>1 DEF IInv
    <2> QED BY <1>1, <2>2, <2>3, <2>4
<1>4. ASSUME NEW i \in Ids, OpenDetail(i) PROVE IInv'
    <2>1. req'.kind = "detail" /\ db' = db /\ writes' = writes
        BY <1>4 DEF OpenDetail
    <2>2. DetailOK'
        BY <1>1, <1>4, OpeningDetail
    <2> QED BY <1>1, <2>1, <2>2 DEF IInv
<1>5. ASSUME NEW e \in Exports, BeginExport(e) PROVE IInv'
    <2>1. db' = db /\ writes' = writes
        BY <1>5 DEF BeginExport
    <2>2. FlowOK(req') /\ WalkOK(db, req') /\ req'.kind = "export"
        BY <1>1, <1>5, BeginningExport
    <2> QED BY <1>1, <2>1, <2>2 DEF IInv
<1>6. ASSUME NEW f \in Uploads, Upload(f) PROVE IInv'
    <2>1. req'.kind = "checked" /\ db' = db /\ writes' = writes
        BY <1>6 DEF Upload
    <2> QED BY <1>1, <2>1 DEF IInv
<1>7. CASE ListHistory
    <2>1. req.kind = "detail" /\ db' = db /\ writes' = writes
        BY <1>7 DEF ListHistory
    <2>2. req' = NoRequest \/ DetailOK'
        BY <1>1, <1>7, <2>1, ListingHistory
    <2>3. CASE req' = NoRequest
        BY <1>1, <1>2, <2>1, <2>3 DEF IInv
    <2>4. CASE DetailOK'
        <3>1. req'.kind = "detail"
            BY <2>4 DEF DetailOK
        <3> QED BY <1>1, <2>1, <2>4, <3>1 DEF IInv
    <2> QED BY <2>2, <2>3, <2>4
<1>8. CASE CountDirectReports
    <2>1. req.kind = "detail" /\ db' = db /\ writes' = writes
        BY <1>8 DEF CountDirectReports
    <2>2. DetailOK'
        BY <1>1, <1>8, <2>1, CountingReports
    <2>3. req'.kind = "detail"
        BY <2>2 DEF DetailOK
    <2> QED BY <1>1, <2>1, <2>2, <2>3 DEF IInv
<1>9. CASE ReadPage
    <2>1. req.kind = "export" /\ db' = db /\ writes' = writes
        BY <1>9 DEF ReadPage
    <2>2. req' = NoRequest \/ (FlowOK(req') /\ WalkOK(db, req') /\ req'.kind = "export")
        BY <1>1, <1>9, <2>1, ReadingPage
    <2> QED BY <1>1, <1>2, <2>1, <2>2 DEF IInv
<1>10. CASE WriteLine
    <2>1. req.kind = "export" /\ db' = db /\ writes' = writes
        BY <1>10 DEF WriteLine
    <2>2. FlowOK(req') /\ WalkOK(db, req') /\ req'.kind = "export"
        BY <1>1, <1>10, <2>1, WritingLine
    <2> QED BY <1>1, <2>1, <2>2 DEF IInv
<1>11. CASE Answer
    <2>1. req' = NoRequest /\ db' = db /\ writes' = writes
        BY <1>11 DEF Answer
    <2> QED BY <1>1, <1>2, <2>1 DEF IInv
<1>12. CASE ClientReads \/ ClientGoes
    <2>1. req.kind = "export" /\ db' = db /\ writes' = writes
        BY <1>12 DEF ClientReads, ClientGoes
    <2>2. FlowOK(req') /\ WalkOK(db, req') /\ req'.kind = "export"
        BY <1>1, <1>12, <2>1, ReadingSocket
    <2> QED BY <1>1, <2>1, <2>2 DEF IInv
<1>13. CASE UNCHANGED vars
    <2>1. db' = db /\ writes' = writes /\ req' = req
        BY <1>13 DEF vars
    <2>2. CASE req.kind = "detail"
        <3>1. DetailLags'
            BY <1>1, <2>1, <2>2 DEF DetailOK, DetailLags
        <3>2. DetailOK'
            BY <1>1, <2>1, <2>2, <3>1 DEF DetailOK, Ids, RecordsOf
        <3> QED BY <1>1, <2>1, <2>2, <3>2 DEF IInv
    <2>3. CASE req.kind # "detail"
        BY <1>1, <2>1, <2>3 DEF IInv
    <2> QED BY <2>2, <2>3
<1> QED BY <1>3, <1>4, <1>5, <1>6, <1>7, <1>8, <1>9, <1>10, <1>11, <1>12, <1>13 DEF Next, Serve

LEMMA Invariantly == Spec => []IInv
<1>1. Init => IInv
    BY Initially
<1>2. IInv /\ [Next]_vars => IInv'
    BY Preserved
<1> QED BY <1>1, <1>2, PTL DEF Spec

\* The tables keep their keys and references, and an export holds no more than one page of
\* rows and what its client's socket takes, and waits only for a socket that will say that
\* it is drained, or for a client who has gone (src/services/employeeCsv.ts,
\* src/routes/employeeCsv.ts: back-pressure).
THEOREM ExportsAreBounded == Spec => []TypeOK
<1>1. IInv => TypeOK
    <2> SUFFICES ASSUME IInv PROVE TypeOK
        OBVIOUS
    <2>1. CASE req.kind = "export"
        <3>1. req.buffer \in Nat /\ FlowOK(req)
            BY <2>1, ExportFields DEF IInv, FlowOK
        <3> QED BY <2>1, <3>1, ScreensConstants DEF IInv, FlowOK, TypeOK
    <2>2. CASE req.kind # "export"
        BY <2>2 DEF IInv, TypeOK
    <2> QED BY <2>1, <2>2
<1> QED BY <1>1, Invariantly, PTL

\* A person's page, read by two statements, may be overtaken by a raise but contradicts
\* itself in nothing else: the salary at its top is in its history, what is in force there
\* is that record or one recorded since, only what is still to come is marked as scheduled,
\* and the changes add up (src/domain/compensation.ts: a page that annotates a history
\* agrees with the list that summarises it).
THEOREM PagesAgreeWithThemselves == Spec => []DetailLags
<1>1. IInv => DetailLags
    BY DEF IInv, DetailOK, DetailLags
<1> QED BY <1>1, Invariantly, PTL

LEMMA WrittenIsRead ==
    ASSUME FlowOK(req), WalkOK(db, req)
    PROVE  /\ DOMAIN Written \subseteq 1..Read(req)
           /\ \A a \in DOMAIN Written : Written[a] = PersonAt(req, a)
           /\ Len(req.queue) = 0 => DOMAIN Written = 1..Read(req)
<1> DEFINE n == Len(req.file) - 1
           S == {0, n}
<1>1. Len(req.file) \in Nat /\ Len(req.queue) \in Nat /\ n \in Int
    BY ExportFields DEF FlowOK
<1>2. S \in SUBSET Int /\ S # {} /\ IsFiniteSet(S)
    <2>1. IsFiniteSet({0} \cup {n})
        BY FS_Singleton, FS_AddElement
    <2>2. {0} \cup {n} = S
        OBVIOUS
    <2> QED BY <1>1, <2>1, <2>2
<1> HIDE DEF S
<1>3. Max(S) \in S /\ \A x \in S : x <= Max(S)
    BY <1>2, MaxIsGreatest
<1>4. Max(S) = IF n >= 0 THEN n ELSE 0
    BY <1>1, <1>3 DEF S
<1>5. Written = [k \in 1..Max(S) |-> req.file[k + 1].id]
    BY DEF Written, S
<1>6. DOMAIN Written = 1..Max(S)
    BY <1>5
<1>7. Read(req) = n + Len(req.queue) /\ Read(req) >= 0
    <2>1. Read(req) = n + Len(req.queue)
        BY DEF Read
    <2>2. Read(req) >= 0
        BY DEF WalkOK
    <2> QED BY <2>1, <2>2
<1>8. ASSUME NEW a \in 1..Max(S) PROVE Written[a] = PersonAt(req, a) /\ a \in 1..Read(req)
    <2>1. n >= 0 /\ a \in 1..n
        BY <1>1, <1>4
    <2>2. a + 1 <= Len(req.file)
        BY <1>1, <2>1
    <2>3. a \in 1..Read(req)
        <3> HIDE DEF n
        <3> QED BY <1>1, <1>7, <2>1
    <2>4. LineAt(req, a + 1) = req.file[a + 1]
        BY <2>2 DEF LineAt
    <2>5. Written[a] = req.file[a + 1].id
        BY <1>5
    <2> QED BY <2>3, <2>4, <2>5 DEF PersonAt
<1>9. Len(req.queue) = 0 => Max(S) = Read(req)
    BY <1>1, <1>4, <1>7
<1> QED BY <1>6, <1>8, <1>9

\* The export walks pages by OFFSET, each a statement of its own.  In order of name and id
\* nobody moves: somebody is written twice only if somebody before them came, and somebody
\* who matched all along is left out only if somebody before them went
\* (src/services/employeeCsv.ts: exactly what a chunked walk needs).
THEOREM EverybodyOnce == Spec => []ExportOnce
<1>1. IInv => ExportOnce
    <2> SUFFICES ASSUME IInv, req.kind = "export" PROVE ExportOnce
        BY DEF ExportOnce
    <2>1. IsCompany(db) /\ FlowOK(req) /\ WalkOK(db, req) /\ req.q \in ExportQueries
        BY ExportFields DEF IInv, FlowOK
    <2>2. /\ req.came \cup req.went \subseteq Ids
          /\ \A k \in 1..Read(req) : PersonAt(req, k) \in Ids
        BY <2>1 DEF WalkOK, Ids
    <2>3. ASSUME NEW a \in DOMAIN Written, NEW b \in DOMAIN Written, a < b, Written[a] = Written[b]
          PROVE  Precedent(Written[a], req.came)
        <3>1. a \in 1..Read(req) /\ b \in 1..Read(req) /\ PersonAt(req, a) = PersonAt(req, b)
              /\ Written[a] = PersonAt(req, a)
            BY <2>1, <2>3, WrittenIsRead
        <3>2. CameBefore(db, req, PersonAt(req, a))
            BY <2>1, <2>3, <3>1 DEF WalkOK
        <3>3. PICK j \in req.came : NameBefore(db, j, PersonAt(req, a))
            BY <3>2 DEF CameBefore
        <3>4. PersonAt(req, a) \in Ids /\ j \in Ids
            BY <2>2, <3>1
        <3> QED BY <2>1, <3>1, <3>3, <3>4, PrecedentByName
    <2>4. ASSUME Exported, NEW i \in Matching(db, req.q) \ (Range(Written) \cup req.came)
          PROVE  Precedent(i, req.went)
        <3>1. Len(req.queue) = 0 /\ req.last
            BY <2>4 DEF Exported
        <3>2. DOMAIN Written = 1..Read(req) /\ \A k \in 1..Read(req) : Written[k] = PersonAt(req, k)
            BY <2>1, <3>1, WrittenIsRead
        <3>3. ~ \E k \in 1..Read(req) : PersonAt(req, k) = i
            BY <3>2 DEF Range
        <3>4. WentBefore(db, req, i)
            BY <2>1, <3>1, <3>3 DEF WalkOK
        <3>5. PICK j \in req.went : NameBefore(db, j, i)
            BY <3>4 DEF WentBefore
        <3>6. i \in Ids /\ j \in Ids
            <4>1. Matching(db, req.q) \subseteq Ids
                BY <2>1, MatchingIsFinite DEF Ids
            <4> QED BY <2>2, <4>1
        <3> QED BY <2>1, <3>5, <3>6, PrecedentByName
    <2> QED BY <2>3, <2>4 DEF ExportOnce
<1> QED BY <1>1, Invariantly, PTL

-----------------------------------------------------------------------------
(* Pay against the band, on every screen *)

LEMMA BandOfType ==
    ASSUME NEW tables, IsCompany(tables), NEW pair
    PROVE  BandFor(tables, pair) \in Band \cup {NoBand}
BY DEF BandFor, IsCompany, IsTable

LEMMA StandingIsFilter ==
    ASSUME NEW tables, IsCompany(tables), NEW i, NEW day, NEW fit \in Fits
    PROVE  BandFitCondition(fit, PayOn(tables, i, day), BandOf(tables, i))
               <=> BandStanding(PayOn(tables, i, day), BandOf(tables, i)).fit = fit
<1>1. BandOf(tables, i) \in Band \cup {NoBand}
    BY BandOfType DEF BandOf
<1>2. PayOn(tables, i, day) \in PayRecords \cup {NoPay}
    <2>1. Record \subseteq PayRecords
        BY PayrollConstants DEF Record, PayRecords, Payable
    <2> QED BY <2>1, PayOnType
<1> QED BY <1>1, <1>2, FilterAgreesWithStanding

\* Who is employed and stands in one place against their band.
Standing(tables, day, fit) ==
    {i \in Active(tables) : BandStanding(PayOn(tables, i, day), BandOf(tables, i)).fit = fit}

LEMMA StandingAreEmployees ==
    ASSUME NEW tables, IsCompany(tables), NEW day, NEW fit \in Fits
    PROVE  /\ Active(tables) \subseteq DOMAIN tables.employees /\ IsFiniteSet(Active(tables))
           /\ Standing(tables, day, fit) \in SUBSET DOMAIN tables.employees
           /\ IsFiniteSet(Standing(tables, day, fit))
           /\ Cardinality(Standing(tables, day, fit)) \in Nat
           /\ Cardinality(Standing(tables, day, fit)) <= Cardinality(People)
           /\ Standing(tables, day, fit) =
                  {i \in Active(tables) :
                      BandFitCondition(fit, PayOn(tables, i, day), BandOf(tables, i))}
<1>1. Active(tables) \subseteq DOMAIN tables.employees /\ DOMAIN tables.employees \subseteq People
    BY DEF Active, IsCompany, IsTable
<1>2. IsFiniteSet(Active(tables))
    BY <1>1, PayrollConstants, FS_Subset
<1>3. Standing(tables, day, fit) \subseteq Active(tables)
    BY DEF Standing
<1>4. IsFiniteSet(Standing(tables, day, fit))
    BY <1>2, <1>3, FS_Subset
<1>5. Standing(tables, day, fit) \subseteq People
    BY <1>1, <1>3
<1>6. Cardinality(Standing(tables, day, fit)) <= Cardinality(People)
    BY <1>5, PayrollConstants, FS_Subset
<1>7. Cardinality(Standing(tables, day, fit)) \in Nat
    BY <1>4, FS_CardinalityType
<1>8. Standing(tables, day, fit) =
          {i \in Active(tables) : BandFitCondition(fit, PayOn(tables, i, day), BandOf(tables, i))}
    BY StandingIsFilter DEF Standing
<1> QED BY <1>1, <1>2, <1>3, <1>4, <1>6, <1>7, <1>8

\* What a row of the coverage says of those of its pair.
CountsStandings(row, tables, pair, day) ==
    LET at(f) == Cardinality({i \in Standing(tables, day, f) : PairOf(tables, i) = pair})
    IN  /\ row.below = at("BELOW") /\ row.within = at("WITHIN") /\ row.above = at("ABOVE")
        /\ row.otherCurrency = at("OTHER_CURRENCY")
        /\ row.band # NoBand => row.headcount - row.paidHeadcount = at("NO_PAY")
        /\ row.band = BandFor(tables, pair)
        /\ row.headcount = Cardinality({i \in Active(tables) : PairOf(tables, i) = pair})

LEMMA RowCountsStandings ==
    ASSUME NEW tables, IsCompany(tables), NEW day, NEW pair
    PROVE  CountsStandings(CoverageRow(tables, pair, day), tables, pair, day)
<1> DEFINE row   == CoverageRow(tables, pair, day)
           band  == BandFor(tables, pair)
           group == {i \in Active(tables) : PairOf(tables, i) = pair}
           pay(i) == PayOn(tables, i, day)
           paid  == {i \in group : pay(i) # NoPay}
           same  == {i \in paid : band # NoBand /\ pay(i).currency = band.currency}
           at(f) == {i \in Standing(tables, day, f) : PairOf(tables, i) = pair}
<1>1. /\ row.band = band
      /\ row.headcount = Cardinality(group) /\ row.paidHeadcount = Cardinality(paid)
      /\ row.below = Cardinality({i \in same : pay(i).amount < band.min})
      /\ row.within = Cardinality({i \in same : pay(i).amount >= band.min /\ pay(i).amount <= band.max})
      /\ row.above = Cardinality({i \in same : pay(i).amount > band.max})
      /\ row.otherCurrency =
             Cardinality({i \in paid : band # NoBand /\ pay(i).currency # band.currency})
    BY DEF CoverageRow
<1>2. \A i \in group : BandOf(tables, i) = band
    BY DEF BandOf
<1>3. ASSUME NEW f \in Fits PROVE at(f) = {i \in group : BandFitCondition(f, pay(i), band)}
    BY <1>2, StandingAreEmployees
<1>4. band # NoBand => band.min \in Int /\ band.max \in Int
    BY BandOfType, BandFields
<1>5. \A i \in paid : pay(i).amount \in Int
    <2>1. \A i \in paid : pay(i) \in Record
        BY PayOnType
    <2> QED BY <2>1, PayrollConstants DEF Record, Payable
<1>6. {i \in same : pay(i).amount < band.min} = at("BELOW")
    BY <1>3 DEF Fits, BandFitCondition, Comparable
<1>7. {i \in same : pay(i).amount >= band.min /\ pay(i).amount <= band.max} = at("WITHIN")
    BY <1>3, <1>4, <1>5 DEF Fits, BandFitCondition, Comparable
<1>8. {i \in same : pay(i).amount > band.max} = at("ABOVE")
    BY <1>3 DEF Fits, BandFitCondition, Comparable
<1>9. {i \in paid : band # NoBand /\ pay(i).currency # band.currency} = at("OTHER_CURRENCY")
    BY <1>3 DEF Fits, BandFitCondition, Comparable
<1>10. ASSUME band # NoBand PROVE Cardinality(group) - Cardinality(paid) = Cardinality(at("NO_PAY"))
    <2>1. at("NO_PAY") = group \ paid
        BY <1>3, <1>10 DEF Fits, BandFitCondition
    <2>2. IsFiniteSet(Active(tables)) /\ group \subseteq Active(tables)
        BY StandingAreEmployees DEF Fits
    <2> HIDE DEF group, paid
    <2>3. IsFiniteSet(group)
        BY <2>2, FS_Subset
    <2>4. Cardinality(group \ paid) = Cardinality(group) - Cardinality(group \cap paid)
        BY <2>3, FS_Difference
    <2>5. group \cap paid = paid
        BY DEF paid
    <2> QED BY <2>1, <2>4, <2>5
<1> HIDE DEF row
<1>11. CountsStandings(row, tables, pair, day)
    BY <1>1, <1>6, <1>7, <1>8, <1>9, <1>10 DEF CountsStandings
<1> QED BY <1>11 DEF row

\* Whoever has no band is counted with the pair they are of.
LEMMA WithoutBandAreCounted ==
    ASSUME NEW tables, IsCompany(tables), NEW day
    PROVE  Coverage(tables, day).peopleWithoutBand = Cardinality(Standing(tables, day, "NO_BAND"))
<1> DEFINE pairs   == {PairOf(tables, i) : i \in Active(tables)} \cup DOMAIN tables.bands
           row     == [p \in pairs |-> CoverageRow(tables, p, day)]
           missing == {p \in pairs : row[p].band = NoBand /\ row[p].headcount > 0}
           S       == Standing(tables, day, "NO_BAND")
           key     == [i \in S |-> PairOf(tables, i)]
           count   == [t \in SUBSET S |-> Cardinality(t)]
           v       == [p \in missing |-> count[{i \in S : key[i] = p}]]
<1>1. Coverage(tables, day).peopleWithoutBand = SumOf([p \in missing |-> row[p].headcount], missing)
    BY DEF Coverage
<1>2. /\ IsFiniteSet(S) /\ IsFiniteSet(Active(tables)) /\ S \subseteq Active(tables)
      /\ S = {i \in Active(tables) : BandOf(tables, i) = NoBand}
    <2>1. "NO_BAND" \in Fits
        BY DEF Fits
    <2>2. S = {i \in Active(tables) :
                  BandFitCondition("NO_BAND", PayOn(tables, i, day), BandOf(tables, i))}
        BY <2>1, StandingAreEmployees
    <2>3. S = {i \in Active(tables) : BandOf(tables, i) = NoBand}
        BY <2>2 DEF BandFitCondition
    <2> QED BY <2>1, <2>3, StandingAreEmployees
<1>3. \A p \in pairs : /\ row[p].band = BandFor(tables, p)
                       /\ row[p].headcount = Cardinality({i \in Active(tables) : PairOf(tables, i) = p})
    <2> TAKE p \in pairs
    <2>1. CountsStandings(row[p], tables, p, day)
        BY RowCountsStandings
    <2> QED BY <2>1 DEF CountsStandings
<1> HIDE DEF S, row
<1>4. \A i \in S : PairOf(tables, i) \in missing
    <2> TAKE i \in S
    <2> DEFINE p == PairOf(tables, i)
               group == {j \in Active(tables) : PairOf(tables, j) = p}
    <2>1. i \in group /\ p \in pairs /\ BandFor(tables, p) = NoBand
        BY <1>2 DEF BandOf
    <2>2. IsFiniteSet(group) /\ group # {}
        BY <1>2, <2>1, FS_Subset
    <2> HIDE DEF group
    <2>3. Cardinality(group) \in Nat /\ Cardinality(group) # 0
        BY <2>2, FS_CardinalityType, FS_EmptySet
    <2>4. row[p].headcount > 0 /\ row[p].band = NoBand
        BY <1>3, <2>1, <2>3 DEF group
    <2> QED BY <2>1, <2>4
<1>5. ASSUME NEW p \in missing
      PROVE  /\ row[p].headcount = Cardinality({i \in S : key[i] = p})
             /\ {i \in S : key[i] = p} \in SUBSET S
             /\ \E i \in Active(tables) : p = PairOf(tables, i)
    <2>1. {i \in S : key[i] = p} = {i \in Active(tables) : PairOf(tables, i) = p}
        BY <1>2, <1>3 DEF BandOf
    <2>2. row[p].headcount = Cardinality({i \in Active(tables) : PairOf(tables, i) = p})
        BY <1>3
    <2>3. {i \in Active(tables) : PairOf(tables, i) = p} # {}
        <3>1. row[p].headcount > 0
            OBVIOUS
        <3> QED BY <2>2, <3>1, FS_EmptySet
    <2> QED BY <2>1, <2>2, <2>3
<1>6. IsFiniteSet(missing)
    <2> DEFINE pairOf == [i \in Active(tables) |-> PairOf(tables, i)]
               image == {pairOf[i] : i \in Active(tables)}
    <2>1. missing \subseteq image
        BY <1>5
    <2>2. IsFiniteSet(image)
        <3> HIDE DEF pairOf
        <3> QED BY <1>2, ImageIsFinite
    <2> HIDE DEF image, missing
    <2> QED BY <2>1, <2>2, FS_Subset
<1> HIDE DEF missing
<1>7. \A p \in missing : row[p].headcount = v[p]
    BY <1>5
<1>8. [p \in missing |-> row[p].headcount] = v
    BY <1>7
<1>9. SumOf(v, missing) = count[S]
    <2> DEFINE one == [i \in S |-> 1]
    <2>1. Additive(count, S, one)
        BY <1>2, CountsAreSums
    <2>2. \A i \in S : key[i] \in missing
        BY <1>4
    <2>3. PerGroup(v, missing, S, key, count)
        BY DEF PerGroup
    <2>4. one \in [S -> Int]
        OBVIOUS
    <2> HIDE DEF count, key, v, one
    <2> QED BY <1>2, <1>6, <2>1, <2>2, <2>3, <2>4, SumOfGroups
<1> QED BY <1>1, <1>8, <1>9 DEF S

\* Setting a field to what it is changes nothing.
LEMMA SameField ==
    ASSUME NEW D, NEW r, r = [k \in D |-> r[k]], NEW f \in D, NEW x, r[f] = x
    PROVE  [r EXCEPT ![f] = x] = r
OBVIOUS

\* What HR sees of those employed who stand in one place against their band.
HrList(day, fit) ==
    [subject |-> [role |-> "HR_ADMIN", employee |-> Null], asOf |-> day, status |-> "ACTIVE",
     fit |-> fit, filter |-> [country |-> All, department |-> All, level |-> All],
     search |-> <<>>, sortBy |-> "name", sortDir |-> "asc"]

LEMMA ListIsStanding ==
    ASSUME NEW tables, IsCompany(tables), NEW day, NEW fit \in Fits
    PROVE  Matching(tables, HrList(day, fit)) = Standing(tables, day, fit)
<1> DEFINE q == HrList(day, fit)
<1>1. InScope(tables, AccessScopeFor(q.subject)) = DOMAIN tables.employees
    BY DEF InScope, AccessScopeFor, HrList
<1>2. \A i : Found(tables, i, q.search)
    <2>1. q.search = <<>>
        BY DEF HrList
    <2>2. Trim(<<>>) = <<>>
        <3> DEFINE kept == {k \in 1..0 : <<>>[k] \notin Whitespace}
        <3>1. kept = {} /\ DOMAIN <<>> = 1..0
            OBVIOUS
        <3> QED BY <3>1 DEF Trim
    <2> QED BY <2>1, <2>2 DEF Found
<1>3. \A i : EmployeeFilter(tables, i, q.filter)
    BY DEF EmployeeFilter, Passes, HrList
<1>4. q.fit = fit /\ q.asOf = day /\ q.status = "ACTIVE"
    BY DEF HrList
<1>5. fit # All /\ "ACTIVE" # All
    <2>1. All \notin Statuses /\ All \notin Fits
        BY ScreensConstants
    <2> QED BY <2>1 DEF Statuses
<1> HIDE DEF q
<1>6. Matching(tables, q) =
          {i \in DOMAIN tables.employees :
              /\ tables.employees[i].status = "ACTIVE"
              /\ BandFitCondition(fit, PayOn(tables, i, day), BandOf(tables, i))}
    BY <1>1, <1>2, <1>3, <1>4, <1>5 DEF Matching, Passes
<1>7. Standing(tables, day, fit) =
          {i \in Active(tables) : BandFitCondition(fit, PayOn(tables, i, day), BandOf(tables, i))}
    BY StandingAreEmployees
<1>8. Matching(tables, q) = Standing(tables, day, fit)
    BY <1>6, <1>7 DEF Active
<1> QED BY <1>8 DEF q

\* Those paid too little, the dearest to put right first.
LEMMA ShortfallIsNumber ==
    ASSUME NEW tables, IsCompany(tables), NEW day,
           NEW i \in Standing(tables, day, "BELOW"), Convertible(tables, i, day)
    PROVE  ShortfallUsd(tables, i, day) \in Int
<1> DEFINE pay == PayOn(tables, i, day)
           band == BandOf(tables, i)
<1>1. Comparable(pay, band)
    <2>1. "BELOW" \in Fits
        BY DEF Fits
    <2>2. BandFitCondition("BELOW", pay, band)
        BY <2>1, StandingAreEmployees
    <2> QED BY <2>2 DEF BandFitCondition
<1>2. pay # NoPay /\ band # NoBand /\ pay.currency \in DOMAIN Rates
    BY <1>1 DEF Comparable, Convertible, Paid, HasRate
<1>3. band.min \in Int
    BY <1>2, BandOfType, BandFields DEF BandOf
<1>4. pay.amount \in Int /\ Rates[pay.currency] \in Int
    <2>1. pay \in Record
        BY <1>2, PayOnType
    <2> QED BY <1>2, <2>1, PayrollConstants, MoneyConstants DEF Record, Payable
<1> DEFINE x == (band.min - pay.amount) * Rates[pay.currency]
<1>5. x \in Int /\ ShortfallUsd(tables, i, day) = Round(x, RateUnit)
    BY <1>3, <1>4 DEF ShortfallUsd, Usd
<1> HIDE DEF x
<1> QED BY <1>5, RoundIsNearest, PayrollConstants

LEMMA WholeOnOnePage ==
    ASSUME NEW S, NEW list \in Seq(S), NEW size \in Nat, Len(list) <= size
    PROVE  PageOf(list, 1, size) = list
<1>1. Len(list) \in Nat /\ list = [k \in 1..Len(list) |-> list[k]]
    OBVIOUS
<1>2. Min({1 * size, Len(list)}) = Len(list) /\ (1 - 1) * size + 1 = 1
    <2>1. 1 * size = size /\ (1 - 1) * size = 0
        OBVIOUS
    <2>2. Min({size, Len(list)}) = IF size <= Len(list) THEN size ELSE Len(list)
        <3>1. size \in Int /\ Len(list) \in Int
            BY <1>1
        <3> DEFINE n == Len(list)
        <3> HIDE DEF n
        <3> QED BY <3>1, Lesser DEF n
    <2>3. (IF size <= Len(list) THEN size ELSE Len(list)) = Len(list)
        BY <1>1
    <2>4. {1 * size, Len(list)} = {size, Len(list)} /\ (1 - 1) * size + 1 = 1
        BY <2>1
    <2> QED BY <2>2, <2>3, <2>4
<1>3. PageOf(list, 1, size) = SubSeq(list, 1, Len(list))
    BY <1>2 DEF PageOf
<1> QED BY <1>1, <1>3, SubSeqProperties

LEMMA LargestFirstLists ==
    ASSUME NEW S \in SUBSET People, NEW cost \in [S -> Int]
    PROVE  LET list == LargestFirst(cost, S)
           IN  /\ list \in Seq(S) /\ Len(list) = Cardinality(S) /\ Range(list) = S
               /\ IsFiniteSet(S) /\ Cardinality(S) \in Nat /\ Cardinality(S) <= Cardinality(People)
<1> DEFINE before(i, j) == cost[i] > cost[j] \/ (cost[i] = cost[j] /\ i < j)
           list == OrderBy(S, before)
           R == {p \in S \X S : before(p[1], p[2])}
           at(x, k) == Cardinality({y \in S : before(y, x)}) = k - 1
<1>1. /\ IsFiniteSet(S) /\ Cardinality(S) \in Nat /\ Cardinality(S) <= Cardinality(People)
      /\ \A i \in S : i \in Int /\ cost[i] \in Int
    BY PayrollConstants, ColumnsAreNumbers, FS_Subset, FS_CardinalityType
<1>2. LargestFirst(cost, S) = list
    BY DEF LargestFirst
<1>3. \A i, j \in S : <<i, j>> \in R <=> before(i, j)
    OBVIOUS
<1>4. StrictlyOrders(R, S)
    <2> HIDE DEF R
    <2>1. \A x \in S : <<x, x>> \notin R
        BY <1>1, <1>3
    <2>2. \A x, y, z \in S : <<x, y>> \in R /\ <<y, z>> \in R => <<x, z>> \in R
        BY <1>1, <1>3
    <2>3. \A x, y \in S : x # y => <<x, y>> \in R \/ <<y, x>> \in R
        BY <1>1, <1>3
    <2> QED BY <2>1, <2>2, <2>3 DEF StrictlyOrders
<1>5. list = [k \in 1..Cardinality(S) |-> CHOOSE x \in S : at(x, k)]
    BY DEF OrderBy
<1>6. \A x \in S : Rank(R, S, x) = Cardinality({y \in S : before(y, x)})
    <2> TAKE x \in S
    <2>1. Below(R, S, x) = {y \in S : before(y, x)}
        BY <1>3 DEF Below
    <2> QED BY <2>1 DEF Rank
<1> HIDE DEF R, before, list
<1>7. ASSUME NEW k \in 1..Cardinality(S) PROVE list[k] \in S /\ Rank(R, S, list[k]) = k - 1
    <2>1. list[k] = CHOOSE x \in S : at(x, k)
        BY <1>5
    <2>2. \E x \in S : at(x, k)
        BY <1>1, <1>4, <1>6, EveryRankIsHeld
    <2> HIDE DEF at
    <2>3. list[k] \in S /\ at(list[k], k)
        BY <2>1, <2>2
    <2> QED BY <1>6, <2>3 DEF at
<1>8. list = [k \in 1..Cardinality(S) |-> list[k]]
    <2> HIDE DEF at
    <2> QED BY <1>5
<1>9. /\ list \in Seq(S) /\ Len(list) = Cardinality(S)
      /\ \A x \in S : Rank(R, S, x) + 1 \in 1..Cardinality(S) /\ list[Rank(R, S, x) + 1] = x
    BY <1>1, <1>4, <1>7, <1>8, SortedByRank
<1>10. Range(list) = S
    <2>1. DOMAIN list = 1..Cardinality(S)
        BY <1>8
    <2> QED BY <1>9, <2>1 DEF Range
<1> QED BY <1>1, <1>2, <1>9, <1>10

LEMMA AttentionIsStanding ==
    ASSUME NEW tables, IsCompany(tables), NEW day
    PROVE  LET answer == NeedsAttention(tables, HrList(day, "BELOW"), 1, Cardinality(People))
           IN  answer # Failed =>
                   /\ Range(answer.rows) = Standing(tables, day, "BELOW")
                   /\ answer.total = Cardinality(Standing(tables, day, "BELOW"))
<1> DEFINE q      == HrList(day, "BELOW")
           S      == Standing(tables, day, "BELOW")
           cost   == [i \in S |-> ShortfallUsd(tables, i, day)]
           list   == LargestFirst(cost, S)
           answer == NeedsAttention(tables, q, 1, Cardinality(People))
<1>1. /\ q.asOf = day
      /\ [q EXCEPT !.status = "ACTIVE", !.fit = "BELOW", !.search = <<>>] = q
    <2> DEFINE D == {"subject", "asOf", "status", "fit", "filter", "search", "sortBy", "sortDir"}
    <2>1. q = [k \in D |-> q[k]] /\ q.asOf = day
        BY DEF HrList
    <2>2. q["status"] = "ACTIVE" /\ q["fit"] = "BELOW" /\ q["search"] = <<>>
        BY DEF HrList
    <2>3. "status" \in D /\ "fit" \in D /\ "search" \in D
        OBVIOUS
    <2> HIDE DEF q, D
    <2>4. /\ [q EXCEPT !["status"] = "ACTIVE"] = q /\ [q EXCEPT !["fit"] = "BELOW"] = q
          /\ [q EXCEPT !["search"] = <<>>] = q
        BY <2>1, <2>2, <2>3, SameField
    <2>5. [q EXCEPT !.status = "ACTIVE", !.fit = "BELOW", !.search = <<>>]
              = [[[q EXCEPT !["status"] = "ACTIVE"] EXCEPT !["fit"] = "BELOW"] EXCEPT !["search"] = <<>>]
        OBVIOUS
    <2> QED BY <2>1, <2>4, <2>5
<1>2. Matching(tables, q) = S /\ IsFiniteSet(S) /\ S \subseteq People
      /\ Cardinality(S) \in Nat /\ Cardinality(S) <= Cardinality(People)
    <2>1. "BELOW" \in Fits
        BY DEF Fits
    <2>2. DOMAIN tables.employees \subseteq People
        BY DEF IsCompany, IsTable
    <2> QED BY <2>1, <2>2, ListIsStanding, StandingAreEmployees
<1>3. SUFFICES ASSUME answer # Failed
               PROVE  Range(answer.rows) = S /\ answer.total = Cardinality(S)
    OBVIOUS
<1> HIDE DEF q, S
<1>4. /\ \A i \in S : Convertible(tables, i, day)
      /\ answer.total = Cardinality(S)
      /\ answer.rows = PageOf(list, 1, Cardinality(People))
    <2> DEFINE short == Matching(tables, [q EXCEPT !.status = "ACTIVE", !.fit = "BELOW", !.search = <<>>])
               costs(T, d) == [i \in T |-> ShortfallUsd(tables, i, d)]
               all(T, d) == \A i \in T : Convertible(tables, i, d)
    <2>1. /\ ~all(short, q.asOf) => answer = Failed
          /\ all(short, q.asOf) =>
                /\ answer.rows = PageOf(LargestFirst(costs(short, q.asOf), short), 1, Cardinality(People))
                /\ answer.total = Cardinality(short)
        BY DEF NeedsAttention
    <2>2. cost = costs(S, day) /\ list = LargestFirst(cost, S)
        OBVIOUS
    <2>3. all(S, day) => \A i \in S : Convertible(tables, i, day)
        OBVIOUS
    <2>4. short = S
        BY <1>1, <1>2
    <2> HIDE DEF answer, list, cost, short, costs, all
    <2> QED BY <1>1, <1>3, <2>1, <2>2, <2>3, <2>4
<1>5. cost \in [S -> Int]
    <2>1. \A i \in S : ShortfallUsd(tables, i, day) \in Int
        BY <1>4, ShortfallIsNumber DEF S
    <2> QED BY <2>1
<1> HIDE DEF cost, list
<1>6. list \in Seq(S) /\ Len(list) = Cardinality(S) /\ Range(list) = S
    BY <1>2, <1>5, LargestFirstLists DEF list
<1>7. PageOf(list, 1, Cardinality(People)) = list
    <2>1. Cardinality(People) \in Nat
        BY PayrollConstants, FS_CardinalityType
    <2> QED BY <1>2, <1>6, <2>1, WholeOnOnePage
<1> QED BY <1>4, <1>6, <1>7

\* Every person employed stands in the same place against their band on every screen: the
\* counts per level and country, the filter of the list, the list of those paid too little
\* and the label on a person all agree (src/repositories/payBands.ts: the same comparison
\* as bandStanding).
THEOREM BandsAgreeOnEveryScreen == Spec => []BandScreensAgree
<1>1. IInv => BandScreensAgree
    <2> SUFFICES ASSUME IsCompany(db), req = NoRequest, NEW day \in {q.asOf : q \in Queries}
                 PROVE  LET coverage == Coverage(db, day)
                            stands == [f \in Fits |-> Standing(db, day, f)]
                            at(f, p) == Cardinality({i \in stands[f] : PairOf(db, i) = p})
                            attention == NeedsAttention(db, HrList(day, "BELOW"), 1, Cardinality(People))
                        IN  /\ \A p \in DOMAIN coverage.rows : LET row == coverage.rows[p] IN
                                  /\ <<row.below, row.within, row.above, row.otherCurrency>> =
                                     <<at("BELOW", p), at("WITHIN", p), at("ABOVE", p), at("OTHER_CURRENCY", p)>>
                                  /\ row.band # NoBand => row.headcount - row.paidHeadcount = at("NO_PAY", p)
                            /\ coverage.peopleWithoutBand = Cardinality(stands["NO_BAND"])
                            /\ \A f \in Fits : Matching(db, HrList(day, f)) = stands[f]
                            /\ attention # Failed =>
                                  /\ Range(attention.rows) = stands["BELOW"]
                                  /\ attention.total = Cardinality(stands["BELOW"])
        BY DEF IInv, BandScreensAgree, Standing, HrList
    <2> DEFINE coverage  == Coverage(db, day)
               stands    == [f \in Fits |-> Standing(db, day, f)]
               at(f, p)  == Cardinality({i \in stands[f] : PairOf(db, i) = p})
               attention == NeedsAttention(db, HrList(day, "BELOW"), 1, Cardinality(People))
    <2>1. \A f \in Fits : stands[f] = Standing(db, day, f)
        OBVIOUS
    <2>2. /\ "BELOW" \in Fits /\ "WITHIN" \in Fits /\ "ABOVE" \in Fits
          /\ "OTHER_CURRENCY" \in Fits /\ "NO_PAY" \in Fits /\ "NO_BAND" \in Fits
        BY DEF Fits
    <2> HIDE DEF stands
    <2>3. ASSUME NEW p \in DOMAIN coverage.rows PROVE CountsStandings(coverage.rows[p], db, p, day)
        <3>1. coverage.rows[p] = CoverageRow(db, p, day)
            BY DEF Coverage
        <3>2. CountsStandings(CoverageRow(db, p, day), db, p, day)
            BY RowCountsStandings
        <3> HIDE DEF coverage
        <3> QED BY <3>1, <3>2
    <2> HIDE DEF coverage
    <2>4. ASSUME NEW p \in DOMAIN coverage.rows
          PROVE  /\ coverage.rows[p].below = at("BELOW", p) /\ coverage.rows[p].within = at("WITHIN", p)
                 /\ coverage.rows[p].above = at("ABOVE", p)
                 /\ coverage.rows[p].otherCurrency = at("OTHER_CURRENCY", p)
                 /\ coverage.rows[p].band # NoBand =>
                        coverage.rows[p].headcount - coverage.rows[p].paidHeadcount = at("NO_PAY", p)
        BY <2>1, <2>2, <2>3 DEF CountsStandings
    <2>5. coverage.peopleWithoutBand = Cardinality(stands["NO_BAND"])
        BY <2>1, <2>2, WithoutBandAreCounted DEF coverage
    <2>6. \A f \in Fits : Matching(db, HrList(day, f)) = stands[f]
        BY <2>1, ListIsStanding
    <2>7. attention # Failed => /\ Range(attention.rows) = stands["BELOW"]
                               /\ attention.total = Cardinality(stands["BELOW"])
        BY <2>1, <2>2, AttentionIsStanding
    <2> HIDE DEF at, attention
    <2> QED BY <2>4, <2>5, <2>6, <2>7 DEF coverage, stands, at, attention
<1> QED BY <1>1, Invariantly, PTL
-----------------------------------------------------------------------------
(* The trend *)

LEMMA MonthBegins ==
    ASSUME NEW day \in Days
    PROVE  MonthOf(day) \in Days /\ MonthOf(day) <= day
<1>1. /\ day \in Nat /\ day \in Int /\ day <= MaxDay /\ MaxDay \in Nat
      /\ DaysPerMonth \in Nat \ {0} /\ DaysPerMonth \in Nat
    BY PayrollConstants DEF Days
<1>2. day % DaysPerMonth \in 0..day
    BY <1>1
<1> QED BY <1>1, <1>2 DEF MonthOf, Days

\* The window of a record holds a day if and only if the record is in force on it.
LEMMA WindowIsInForce ==
    ASSUME NEW tables, RecordTable(tables.records), NEW m \in Int, NEW c \in tables.records
    PROVE  InWindow(tables, c, m) <=> PayOn(tables, c.employee, m) = c
<1> DEFINE i == c.employee
           S == RecordsOf(tables, i)
           later == {x \in S : Precedes(c, x)}
           after == {d.from : d \in later}
           pay == PayOn(tables, i, m)
           begun == {d \in S : d.from <= m}
<1>1. \A d \in S : d.from \in Nat /\ d.id \in Nat /\ d \in tables.records
    BY PayrollConstants DEF RecordTable, PayableRecord, Days, RecordsOf
<1>2. c \in S /\ c # NoPay
    BY PayrollConstants DEF RecordsOf, RecordTable, PayableRecord, NoPay
<1>3. \/ begun = {} /\ pay = NoPay
      \/ pay \in begun /\ pay # NoPay /\ \A d \in begun \ {pay} : Precedes(d, pay)
    BY PayOnIsLatest
<1>4. IsFiniteSet(after) /\ after \in SUBSET Int
    <2>1. IsFiniteSet(tables.records) /\ later \subseteq tables.records
        BY <1>1 DEF RecordTable
    <2> DEFINE from == [d \in later |-> d.from]
    <2>2. IsFiniteSet(later)
        <3> HIDE DEF later
        <3> QED BY <2>1, FS_Subset
    <2>3. IsFiniteSet({from[d] : d \in later})
        <3> HIDE DEF from, later
        <3> QED BY <2>2, ImageIsFinite
    <2>4. {from[d] : d \in later} = after
        <3> HIDE DEF later
        <3> QED OBVIOUS
    <2>5. after \in SUBSET Int
        BY <1>1
    <2> HIDE DEF after, from, later
    <2> QED BY <2>3, <2>4, <2>5
<1>5. \A x, y \in S : ~(Precedes(x, y) /\ Precedes(y, x))
    BY <1>1 DEF Precedes
<1>6. InWindow(tables, c, m) <=> c.from <= m /\ \A d \in S : Precedes(c, d) => d.from > m
    <2>1. NextFrom(tables, c) = IF after = {} THEN Null ELSE Min(after)
        BY DEF NextFrom
    <2>2. CASE after = {}
        <3>1. \A d \in S : ~Precedes(c, d)
            BY <2>2
        <3> HIDE DEF after, S
        <3> QED BY <2>1, <2>2, <3>1 DEF InWindow
    <2>3. CASE after # {}
        <3>1. Min(after) \in after /\ \A x \in after : Min(after) <= x
            <4> HIDE DEF after
            <4> QED BY <1>4, <2>3, MinIsLeast
        <3> DEFINE n == Min(after)
        <3> HIDE DEF n
        <3>2. NextFrom(tables, c) = n /\ n \in after /\ \A x \in after : n <= x
            BY <2>1, <2>3, <3>1 DEF n
        <3>3. PICK d \in later : n = d.from
            BY <3>2
        <3>4. n \in Nat /\ n # Null
            BY <1>1, <3>3 DEF Null
        <3>5. n > m <=> \A x \in later : x.from > m
            <4>1. \A x \in later : x.from \in after /\ x.from \in Nat
                BY <1>1
            <4>2. d \in later /\ n = d.from
                BY <3>3
            <4>3. m \in Int
                BY <1>1
            <4> HIDE DEF after, later, S, pay
            <4>4. ASSUME n > m, NEW x \in later PROVE x.from > m
                <5>1. n <= x.from /\ x.from \in Nat
                    BY <3>2, <4>1
                <5> QED BY <3>4, <4>3, <4>4, <5>1
            <4>5. (\A x \in later : x.from > m) => n > m
                BY <4>2
            <4> QED BY <4>4, <4>5
        <3> QED BY <3>2, <3>4, <3>5 DEF InWindow
    <2> QED BY <2>2, <2>3
<1> HIDE DEF after, later, S, pay
<1>7. ASSUME c.from <= m, \A d \in S : Precedes(c, d) => d.from > m PROVE pay = c
    <2>1. c \in begun
        BY <1>2, <1>7
    <2>2. pay \in begun /\ \A d \in begun \ {pay} : Precedes(d, pay)
        BY <1>3, <2>1
    <2>3. pay # c => Precedes(c, pay)
        BY <2>1, <2>2
    <2>4. pay \in S /\ pay.from <= m /\ pay.from \in Nat
        BY <1>1, <2>2
    <2> QED BY <1>7, <2>3, <2>4
<1>8. ASSUME pay = c PROVE c.from <= m /\ \A d \in S : Precedes(c, d) => d.from > m
    <2>1. c \in begun /\ \A d \in begun \ {c} : Precedes(d, c)
        BY <1>2, <1>3, <1>8
    <2>2. ASSUME NEW d \in S, Precedes(c, d), ~(d.from > m) PROVE FALSE
        <3>1. d.from \in Nat
            BY <1>1
        <3>2. d \in begun
            BY <2>2, <3>1
        <3>3. d # c
            BY <1>2, <1>5, <2>2
        <3>4. Precedes(d, c)
            BY <2>1, <3>2, <3>3
        <3> QED BY <1>2, <1>5, <2>2, <3>4
    <2> QED BY <2>1, <2>2
<1> QED BY <1>6, <1>7, <1>8 DEF pay
\* Who is employed on a day and paid, and what those of them who can be converted cost.
PaidIn(tables, m) ==
    {i \in DOMAIN tables.employees : EmployedIn(tables, i, m) /\ Paid(tables, i, m)}

RatedIn(tables, m) == {i \in PaidIn(tables, m) : Convertible(tables, i, m)}

CostIn(tables, m) ==
    SumOf([i \in RatedIn(tables, m) |-> SalaryUsd(tables, i, m)], RatedIn(tables, m))

\* The windows a day is in are the records in force on it, one for each person paid.
LEMMA RowsArePaid ==
    ASSUME NEW tables, IsCompany(tables), NEW m \in Int
    PROVE  LET rows == PayrollRows(tables, m)
               key == [c \in tables.records |-> c.employee]
           IN  /\ rows \subseteq tables.records
               /\ \A c \in rows : PayOn(tables, c.employee, m) = c
               /\ Renames(key, rows, PaidIn(tables, m))
<1> DEFINE rows == PayrollRows(tables, m)
           key == [c \in tables.records |-> c.employee]
<1>1. RecordTable(tables.records) /\ \A c \in tables.records : c.employee \in DOMAIN tables.employees
    BY CompanyRecords DEF IsCompany
<1>2. \A c \in tables.records :
          c \in rows <=> PayOn(tables, c.employee, m) = c /\ EmployedIn(tables, c.employee, m)
    BY <1>1, WindowIsInForce DEF PayrollRows, Windows
<1>3. rows \subseteq tables.records
    BY DEF PayrollRows, Windows
<1>4. \A c \in tables.records : c # NoPay
    BY <1>1, PayrollConstants DEF RecordTable, PayableRecord, NoPay
<1>5. \A c \in rows : key[c] = c.employee /\ key[c] \in PaidIn(tables, m)
    BY <1>1, <1>2, <1>3, <1>4 DEF PaidIn, Paid
<1>6. ASSUME NEW i \in PaidIn(tables, m) PROVE \E c \in rows : key[c] = i
    <2> DEFINE c == PayOn(tables, i, m)
    <2>1. c # NoPay /\ EmployedIn(tables, i, m)
        BY DEF PaidIn, Paid
    <2>2. c \in RecordsOf(tables, i)
        BY <1>1, <2>1, PayOnIsLatest
    <2>3. c \in tables.records /\ c.employee = i
        BY <2>2 DEF RecordsOf
    <2>4. PayOn(tables, c.employee, m) = c
        BY <2>3
    <2> HIDE DEF c
    <2>5. c \in rows
        BY <1>2, <2>1, <2>3, <2>4
    <2> QED BY <2>3, <2>5
<1>7. \A c, d \in rows : key[c] = key[d] => c = d
    BY <1>2, <1>3, <1>5
<1>8. Renames(key, rows, PaidIn(tables, m))
    <2> HIDE DEF rows, key
    <2> QED BY <1>5, <1>6, <1>7 DEF Renames
<1> QED BY <1>2, <1>3, <1>8

\* A month of the trend is what the people employed on its first day are paid.
LEMMA PointIsCost ==
    ASSUME NEW tables, IsCompany(tables), NEW m \in Int, NEW asOf
    PROVE  /\ TrendPoint(tables, asOf, m).payroll = CostIn(tables, m)
           /\ TrendPoint(tables, asOf, m).paidHeadcount = Cardinality(PaidIn(tables, m))
           /\ CostIn(tables, m) \in Int
<1> DEFINE rows == PayrollRows(tables, m)
           key == [c \in tables.records |-> c.employee]
           rated == {c \in rows : HasRate(c.currency)}
           people == PaidIn(tables, m)
           some == RatedIn(tables, m)
           w == [c \in rated |-> Usd(c.amount, c.currency)]
           v == [i \in some |-> SalaryUsd(tables, i, m)]
<1>1. /\ rows \subseteq tables.records
      /\ \A c \in rows : PayOn(tables, c.employee, m) = c
      /\ Renames(key, rows, people)
    BY RowsArePaid
<1>2. IsFiniteSet(tables.records) /\ \A c \in tables.records : c \in Record
    BY DEF IsCompany
<1>3. IsFiniteSet(rows) /\ IsFiniteSet(rated)
    <2>1. IsFiniteSet(rows)
        <3> HIDE DEF rows
        <3> QED BY <1>1, <1>2, FS_Subset
    <2>2. rated \subseteq rows
        OBVIOUS
    <2> HIDE DEF rows, rated
    <2> QED BY <2>1, <2>2, FS_Subset
<1>4. \A c \in rows : key[c] = c.employee /\ key[c] \in people
    BY <1>1 DEF Renames
<1>5. \A c \in rows : /\ Paid(tables, c.employee, m)
                      /\ Convertible(tables, c.employee, m) <=> HasRate(c.currency)
                      /\ HasRate(c.currency) =>
                             SalaryUsd(tables, c.employee, m) = Usd(c.amount, c.currency)
    <2> TAKE c \in rows
    <2>1. Paid(tables, c.employee, m) /\ PayOn(tables, c.employee, m) = c
        BY <1>1, <1>4 DEF PaidIn
    <2>2. Convertible(tables, c.employee, m) <=> HasRate(c.currency)
        BY <2>1 DEF Convertible
    <2> QED BY <2>1, <2>2 DEF SalaryUsd
<1>6. Renames(key, rated, some)
    <2>1. \A c \in rated : key[c] \in some
        BY <1>4, <1>5 DEF RatedIn
    <2>2. \A i \in some : \E c \in rated : key[c] = i
        <3> TAKE i \in some
        <3>1. i \in people /\ Convertible(tables, i, m)
            BY DEF RatedIn
        <3>2. PICK c \in rows : key[c] = i
            BY <1>1, <3>1 DEF Renames
        <3> QED BY <1>4, <1>5, <3>1, <3>2
    <2>3. \A c, d \in rated : key[c] = key[d] => c = d
        BY <1>1 DEF Renames
    <2> HIDE DEF key, rated, some
    <2> QED BY <2>1, <2>2, <2>3 DEF Renames
<1>7. \A c \in rated : Usd(c.amount, c.currency) \in Int
    <2> TAKE c \in rated
    <2>1. c.amount \in Int /\ Rates[c.currency] \in Int
        BY <1>1, <1>2, PayrollConstants DEF Record, Payable, HasRate
    <2>2. c.amount * Rates[c.currency] \in Int
        BY <2>1
    <2> QED BY <2>2, RoundIsNearest, PayrollConstants DEF Usd
<1>8. w \in [rated -> Int] /\ v \in [some -> Int] /\ \A c \in rated : v[key[c]] = w[c]
    <2>1. \A c \in rated : key[c] \in some /\ SalaryUsd(tables, key[c], m) = Usd(c.amount, c.currency)
        BY <1>4, <1>5, <1>6 DEF Renames
    <2>2. \A i \in some : \E c \in rated : key[c] = i
        BY <1>6 DEF Renames
    <2> HIDE DEF key, rated, some
    <2> QED BY <1>7, <2>1, <2>2
<1>9. SumOf(v, some) = SumOf(w, rated)
    <2> HIDE DEF w, v, rated, some, key
    <2> QED BY <1>3, <1>6, <1>8, SumOfRenamed
<1>10. Cardinality(people) = Cardinality(rows)
    <2> HIDE DEF rows, people, key
    <2> QED BY <1>1, <1>3, RenamedIsFinite
<1>11. TrendPoint(tables, asOf, m).payroll = SumOf(w, rated)
       /\ TrendPoint(tables, asOf, m).paidHeadcount = Cardinality(rows)
    BY DEF TrendPoint
<1>12. SumOf(w, rated) \in Int
    <2> HIDE DEF w, rated
    <2> QED BY <1>3, <1>8, SumIsNumber
<1> QED BY <1>9, <1>10, <1>11, <1>12 DEF CostIn

\* The months there are, and the one that asOf is in.
LEMMA MonthsAreDays ==
    ASSUME NEW asOf \in Days
    PROVE  LET months == Months(asOf, MaxHistoryMonths, MaxHorizonMonths)
           IN  /\ months \in SUBSET Int /\ IsFiniteSet(months)
               /\ MonthOf(asOf) \in months
<1> DEFINE months == Months(asOf, MaxHistoryMonths, MaxHorizonMonths)
<1>1. months \subseteq Days
    BY DEF Months
<1>2. IsFiniteSet(Days) /\ Days \subseteq Int
    <2>1. IsFiniteSet(0..MaxDay)
        BY PayrollConstants, FS_Interval
    <2> QED BY <2>1, PayrollConstants DEF Days
<1>3. IsFiniteSet(months)
    <2> HIDE DEF months
    <2> QED BY <1>1, <1>2, FS_Subset
<1>4. MonthOf(asOf) \in months
    <2>1. MonthOf(asOf) \in Days /\ MonthOf(asOf) \in Int
        BY <1>2, MonthBegins
    <2>2. 0 \in (-MaxHistoryMonths)..MaxHorizonMonths
        BY TrendConstants
    <2>3. MonthOf(asOf) + 0 * DaysPerMonth = MonthOf(asOf)
        BY <2>1, PayrollConstants
    <2> QED BY <2>1, <2>2, <2>3 DEF Months
<1> QED BY <1>1, <1>2, <1>3, <1>4

\* Who may ask for the trend is given the whole window.
LEMMA TrendIsDrawn ==
    ASSUME NEW tables, NEW subject, NEW asOf, CanSeeAggregates(subject)
    PROVE  PayrollTrendFor(tables, subject, asOf, MaxHistoryMonths, MaxHorizonMonths)
               = Trend(tables, asOf, MaxHistoryMonths, MaxHorizonMonths)
<1>1. ASSUME NEW low \in Int, NEW high \in Int, low <= high PROVE Bounded(high, low, high) = high
    <2>1. Max({high, low}) = high
        BY <1>1, Greater
    <2>2. Min({high, high}) = high
        BY Lesser
    <2> QED BY <2>1, <2>2 DEF Bounded
<1>2. Bounded(MaxHistoryMonths, 1, MaxHistoryMonths) = MaxHistoryMonths
    BY <1>1, TrendConstants
<1>3. Bounded(MaxHorizonMonths, 0, MaxHorizonMonths) = MaxHorizonMonths
    BY <1>1, TrendConstants
<1> QED BY <1>2, <1>3 DEF PayrollTrendFor

\* What the trend says of its last month is measured from the month of the day asked about.
LEMMA ChangeIsFromNow ==
    ASSUME NEW tables, NEW asOf \in Days,
           NEW trend, trend = Trend(tables, asOf, MaxHistoryMonths, MaxHorizonMonths),
           NEW last, last = Max(Months(asOf, MaxHistoryMonths, MaxHorizonMonths)),
           MonthOf(asOf) \in DOMAIN trend, last \in DOMAIN trend
    PROVE  CommittedChange(trend) =
               IF last = MonthOf(asOf) THEN 0
               ELSE trend[last].payroll - trend[MonthOf(asOf)].payroll
<1> DEFINE months == Months(asOf, MaxHistoryMonths, MaxHorizonMonths)
           now == MonthOf(asOf)
           shown == DOMAIN trend
           actual == {m \in DOMAIN trend : trend[m].kind = "ACTUAL"}
<1>1. months \in SUBSET Int /\ IsFiniteSet(months) /\ now \in months
    BY MonthsAreDays
<1>2. shown \subseteq months /\ \A m \in shown : trend[m] = TrendPoint(tables, asOf, m)
    BY DEF Trend
<1>3. \A m \in shown : trend[m].kind = IF m <= now THEN "ACTUAL" ELSE "COMMITTED"
    <2> TAKE m \in shown
    <2>1. TrendPoint(tables, asOf, m).kind = IF m <= MonthOf(asOf) THEN "ACTUAL" ELSE "COMMITTED"
        BY DEF TrendPoint
    <2> QED BY <1>2, <2>1 DEF now
<1>4. actual = {m \in shown : m <= now}
    <2> HIDE DEF now
    <2> QED BY <1>3
<1>5. shown \in SUBSET Int /\ IsFiniteSet(shown) /\ now \in shown /\ last \in shown
    <2> HIDE DEF months, shown
    <2>1. IsFiniteSet(shown)
        BY <1>1, <1>2, FS_Subset
    <2> QED BY <1>1, <1>2, <2>1 DEF shown
<1>6. \A m \in months : m <= last
    BY <1>1, MaxIsGreatest
<1>7. Max(shown) = last
    <2> HIDE DEF months, shown
    <2>1. Max(shown) \in shown /\ \A m \in shown : m <= Max(shown)
        BY <1>5, MaxIsGreatest
    <2>2. last <= Max(shown) /\ Max(shown) <= last /\ Max(shown) \in Int /\ last \in Int
        BY <1>2, <1>5, <1>6, <2>1
    <2> QED BY <2>2
<1>8. Max(actual) = now
    <2>1. actual \in SUBSET Int /\ now \in actual /\ actual \subseteq shown
        BY <1>1, <1>4, <1>5
    <2>2. \A m \in actual : m <= now
        BY <1>4
    <2> HIDE DEF actual, shown, now
    <2>3. IsFiniteSet(actual)
        BY <1>5, <2>1, FS_Subset
    <2>4. Max(actual) \in actual /\ \A m \in actual : m <= Max(actual)
        BY <2>1, <2>3, MaxIsGreatest
    <2>5. Max(actual) \in Int /\ now \in Int
        BY <2>1, <2>4
    <2> QED BY <2>1, <2>2, <2>4, <2>5
<1> HIDE DEF months, now
<1>9. CASE last = now
    <2>1. actual = shown
        BY <1>1, <1>2, <1>4, <1>6, <1>9
    <2> QED BY <1>9, <2>1 DEF CommittedChange, now
<1>10. CASE last # now
    <2>1. actual # {} /\ actual # shown
        <3>1. now \in actual
            BY <1>1, <1>4, <1>5
        <3>2. ~(last <= now)
            BY <1>1, <1>5, <1>6, <1>10
        <3> QED BY <1>4, <1>5, <3>1, <3>2
    <2>2. CommittedChange(trend) = trend[Max(DOMAIN trend)].payroll - trend[Max(actual)].payroll
        BY <2>1 DEF CommittedChange
    <2> QED BY <1>7, <1>8, <1>10, <2>2 DEF now
<1> QED BY <1>9, <1>10

\* A month of the trend has everybody employed and paid on its first day, and is what they are
\* paid as the rest of the program works it out if all of them can be converted; the change it
\* is headed with is between the month of the day asked about and the last one
\* (src/repositories/payrollTrend.ts: the same tie-break the current-salary join makes).
THEOREM TrendIsWhatIsPaid == Spec => []TrendAgrees
<1>1. IInv => TrendAgrees
    <2> DEFINE everybody(m) == \A i \in PaidIn(db, m) : Convertible(db, i, m)
               paidOut(m) == SumOf([i \in PaidIn(db, m) |-> SalaryUsd(db, i, m)], PaidIn(db, m))
    <2> SUFFICES ASSUME IsCompany(db), req = NoRequest, NEW q \in Queries, CanSeeAggregates(q.subject)
                 PROVE  LET trend == PayrollTrendFor(db, q.subject, q.asOf,
                                                     MaxHistoryMonths, MaxHorizonMonths)
                            now == MonthOf(q.asOf)
                            last == Max(Months(q.asOf, MaxHistoryMonths, MaxHorizonMonths))
                        IN  /\ \A m \in DOMAIN trend :
                                   /\ trend[m].paidHeadcount = Cardinality(PaidIn(db, m))
                                   /\ everybody(m) => trend[m].payroll = paidOut(m)
                            /\ (\A m \in {now, last} : m \in DOMAIN trend /\ everybody(m)) =>
                                  CommittedChange(trend) = paidOut(last) - paidOut(now)
        BY DEF IInv, TrendAgrees, PaidIn, Ids
    <2> DEFINE asOf == q.asOf
               months == Months(asOf, MaxHistoryMonths, MaxHorizonMonths)
               trend == Trend(db, asOf, MaxHistoryMonths, MaxHorizonMonths)
               now == MonthOf(asOf)
               last == Max(months)
    <2>1. PayrollTrendFor(db, q.subject, asOf, MaxHistoryMonths, MaxHorizonMonths) = trend
        BY TrendIsDrawn
    <2>2. asOf \in Days
        BY ScreensConstants DEF Query
    <2> HIDE DEF asOf
    <2>3. months \in SUBSET Int
        BY <2>2, MonthsAreDays
    <2>4. DOMAIN trend \subseteq months /\ \A m \in DOMAIN trend : trend[m] = TrendPoint(db, asOf, m)
        BY DEF Trend
    <2>5. \A m : everybody(m) => CostIn(db, m) = paidOut(m)
        <3> SUFFICES ASSUME NEW m, everybody(m) PROVE CostIn(db, m) = paidOut(m)
            OBVIOUS
        <3>1. RatedIn(db, m) = PaidIn(db, m)
            BY DEF RatedIn
        <3> QED BY <3>1 DEF CostIn
    <2> HIDE DEF everybody, paidOut
    <2>6. \A m \in DOMAIN trend : /\ trend[m].paidHeadcount = Cardinality(PaidIn(db, m))
                                  /\ trend[m].payroll = CostIn(db, m) /\ CostIn(db, m) \in Int
        BY <2>3, <2>4, PointIsCost
    <2>7. ASSUME now \in DOMAIN trend, last \in DOMAIN trend, everybody(now), everybody(last)
          PROVE  CommittedChange(trend) = paidOut(last) - paidOut(now)
        <3>1. CommittedChange(trend) = IF last = now THEN 0 ELSE trend[last].payroll - trend[now].payroll
            BY <2>2, <2>7, ChangeIsFromNow
        <3>2. trend[last].payroll = paidOut(last) /\ trend[now].payroll = paidOut(now)
            BY <2>5, <2>6, <2>7
        <3>3. paidOut(now) \in Int
            BY <2>5, <2>6, <2>7
        <3> HIDE DEF trend, now, last
        <3> QED BY <3>1, <3>2, <3>3
    <2>8. \A m \in DOMAIN trend : everybody(m) => trend[m].payroll = paidOut(m)
        BY <2>5, <2>6
    <2> HIDE DEF trend, now, last
    <2>9. (\A m \in {now, last} : m \in DOMAIN trend /\ everybody(m)) =>
              CommittedChange(trend) = paidOut(last) - paidOut(now)
        BY <2>7
    <2> QED BY <2>1, <2>6, <2>8, <2>9 DEF asOf, now, last, everybody, paidOut
<1> QED BY <1>1, Invariantly, PTL

-----------------------------------------------------------------------------
(* A bulk raise *)

IsRaise(r) == r.from \in Days /\ r.percent \in BasisPoints

\* Nobody stands in the way of a report.
Reported(tables, r) ==
    /\ AccessScopeFor(r.subject).kind = "ALL"
    /\ \A i \in Candidates(tables, r) : Convertible(tables, i, BaseDay(r))
    /\ ~RaiseRefused(tables, r)

LEMMA ReportOrNone ==
    ASSUME NEW tables, NEW r
    PROVE  /\ Reported(tables, r) => Run(tables, r) = Summarise(tables, r)
           /\ ~Reported(tables, r) => Run(tables, r) \in {Forbidden, Failed}
BY DEF Run, Reported

LEMMA GroupsOfCandidates ==
    ASSUME NEW tables, IsCompany(tables), NEW r, Reported(tables, r)
    PROVE  /\ Candidates(tables, r) \subseteq DOMAIN tables.employees
           /\ Candidates(tables, r) \subseteq People /\ IsFiniteSet(Candidates(tables, r))
           /\ Payees(tables, r) \subseteq Candidates(tables, r)
           /\ Dated(tables, r) \subseteq Payees(tables, r)
           /\ AlreadyRecorded(tables, r) \subseteq Dated(tables, r)
           /\ Planned(tables, r) \subseteq Payees(tables, r) \ Dated(tables, r)
           /\ IsFiniteSet(Planned(tables, r)) /\ Planned(tables, r) \subseteq People
<1>1. InScope(tables, AccessScopeFor(r.subject)) = DOMAIN tables.employees
    BY DEF Reported, InScope
<1>2. Candidates(tables, r) \subseteq DOMAIN tables.employees
    BY <1>1 DEF Candidates
<1>3. Candidates(tables, r) \subseteq People
    BY <1>2 DEF IsCompany, IsTable
<1>4. IsFiniteSet(Candidates(tables, r))
    BY <1>3, PayrollConstants, FS_Subset
<1>5. /\ Payees(tables, r) \subseteq Candidates(tables, r)
      /\ Dated(tables, r) \subseteq Payees(tables, r)
      /\ AlreadyRecorded(tables, r) \subseteq Dated(tables, r)
      /\ Planned(tables, r) \subseteq Payees(tables, r) \ Dated(tables, r)
    BY DEF Payees, Dated, AlreadyRecorded, Planned
<1>6. Planned(tables, r) \subseteq People
    BY <1>3, <1>5
<1>7. IsFiniteSet(Planned(tables, r))
    BY <1>6, PayrollConstants, FS_Subset
<1> QED BY <1>2, <1>3, <1>4, <1>5, <1>6, <1>7

\* Whoever can be raised is paid what converts, gets an amount that can be paid, and is
\* employed by the day of the raise.
LEMMA PayeesArePaid ==
    ASSUME NEW tables, IsCompany(tables), NEW r, IsRaise(r), Reported(tables, r),
           NEW i \in Payees(tables, r)
    PROVE  /\ i \in DOMAIN tables.employees /\ i \in People
           /\ BasePay(tables, r, i) \in Record /\ BasePay(tables, r, i) # NoPay
           /\ BasePay(tables, r, i).amount \in Nat /\ BasePay(tables, r, i).currency \in DOMAIN Rates
           /\ NewMinor(tables, r, i) # Refused /\ NewMinor(tables, r, i) \in 1..MaxMinor
           /\ SalaryUsd(tables, i, BaseDay(r))
                  = Usd(BasePay(tables, r, i).amount, BasePay(tables, r, i).currency)
           /\ tables.employees[i].hired <= r.from
<1> DEFINE pay == BasePay(tables, r, i)
<1>1. i \in Candidates(tables, r) /\ i \notin HiredLater(tables, r) /\ i \notin Unpaid(tables, r)
    BY DEF Payees
<1>2. i \in DOMAIN tables.employees /\ i \in People
    BY <1>1, GroupsOfCandidates
<1>3. pay # NoPay
    BY <1>1 DEF Unpaid
<1>4. pay \in Record
    BY <1>3, PayOnType DEF BasePay
<1>5. pay.amount \in Nat /\ pay.amount \in Int
    BY <1>4, PayrollConstants, MoneyConstants DEF Record, Payable
<1>6. Paid(tables, i, BaseDay(r)) /\ Convertible(tables, i, BaseDay(r))
    BY <1>1, <1>3 DEF Reported, Paid, BasePay
<1>7. pay.currency \in DOMAIN Rates
    BY <1>6 DEF Convertible, HasRate, BasePay
<1>8. NewMinor(tables, r, i) # Refused
    BY DEF Reported, RaiseRefused
<1>9. NewMinor(tables, r, i) \in 1..MaxMinor
    BY <1>8 DEF NewMinor, RaisedAmountMinor, Payable
<1>10. tables.employees[i].hired <= r.from
    <2>1. tables.employees[i] \in Employee
        BY <1>2 DEF IsCompany, IsTable
    <2>2. tables.employees[i].hired \in Days
        BY <2>1, EmployeeFields
    <2>3. tables.employees[i].hired \in Int /\ r.from \in Int
        BY <2>2, ColumnsAreNumbers DEF IsRaise
    <2> QED BY <1>1, <2>3 DEF HiredLater
<1> QED BY <1>2, <1>3, <1>4, <1>5, <1>6, <1>7, <1>8, <1>9, <1>10 DEF SalaryUsd, BasePay

LEMMA SameBegun ==
    ASSUME NEW a, NEW b, NEW i, NEW day, NEW other,
           {c \in RecordsOf(a, i) : c.from <= day} = {c \in RecordsOf(b, i) : c.from <= other}
    PROVE  PayOn(a, i, day) = PayOn(b, i, other)
<1> DEFINE last(S) == IF S = {} THEN NoPay ELSE CHOOSE c \in S : \A d \in S \ {c} : Precedes(d, c)
           begunA == {c \in RecordsOf(a, i) : c.from <= day}
           begunB == {c \in RecordsOf(b, i) : c.from <= other}
<1>1. PayOn(a, i, day) = last(begunA) /\ PayOn(b, i, other) = last(begunB)
    BY DEF PayOn
<1>2. begunA = begunB
    OBVIOUS
<1> HIDE DEF last, begunA, begunB
<1> QED BY <1>1, <1>2

\* Applying a raise adds a record for everybody planned.
LastId(tables) == Max({0} \cup {c.id : c \in tables.records})

RaiseRow(tables, r, i) ==
    [id |-> LastId(tables) + Cardinality({j \in Planned(tables, r) : j <= i}), employee |-> i,
     amount |-> NewMinor(tables, r, i), currency |-> BasePay(tables, r, i).currency,
     from |-> r.from]

LEMMA ApplyingAdds ==
    ASSUME NEW tables, IsCompany(tables), NEW r
    PROVE  LET after == Applied(tables, r)
           IN  /\ after.employees = tables.employees /\ after.bands = tables.bands
               /\ after.records =
                      tables.records \cup {RaiseRow(tables, r, i) : i \in Planned(tables, r)}
<1> DEFINE rows == {RaiseRow(tables, r, i) : i \in Planned(tables, r)}
<1>1. Applied(tables, r) = [tables EXCEPT !.records = @ \cup rows]
    BY DEF Applied, RaiseRow, LastId
<1>2. tables = [employees |-> tables.employees, records |-> tables.records, bands |-> tables.bands]
    BY DEF IsCompany
<1> HIDE DEF rows
<1> QED BY <1>1, <1>2 DEF rows

LEMMA LastIdIsLast ==
    ASSUME NEW tables, IsCompany(tables)
    PROVE  LastId(tables) \in Nat /\ \A c \in tables.records : c.id \in Nat /\ c.id <= LastId(tables)
<1> DEFINE id == [c \in tables.records |-> c.id]
           ids == {0} \cup {id[c] : c \in tables.records}
<1>1. IsFiniteSet(tables.records) /\ \A c \in tables.records : c.id \in Nat
    BY DEF IsCompany, Record
<1>2. ids \in SUBSET Nat /\ 0 \in ids /\ \A c \in tables.records : c.id \in ids
    <2>1. \A c \in tables.records : id[c] = c.id /\ id[c] \in Nat
        BY <1>1
    <2> HIDE DEF id
    <2> QED BY <2>1
<1>3. IsFiniteSet({id[c] : c \in tables.records})
    <2> HIDE DEF id
    <2> QED BY <1>1, ImageIsFinite
<1>4. IsFiniteSet(ids)
    <2> DEFINE T == {id[c] : c \in tables.records}
    <2> HIDE DEF T
    <2>1. IsFiniteSet(T) /\ ids = T \cup {0}
        BY <1>3 DEF T
    <2> HIDE DEF ids
    <2> QED BY <2>1, FS_AddElement
<1>5. LastId(tables) = Max(ids)
    <2>1. ids = {0} \cup {c.id : c \in tables.records}
        OBVIOUS
    <2> HIDE DEF ids
    <2> QED BY <2>1 DEF LastId
<1> HIDE DEF ids
<1>6. ids \in SUBSET Int /\ ids # {}
    BY <1>2
<1>7. Max(ids) \in ids /\ \A n \in ids : n <= Max(ids)
    BY <1>4, <1>6, MaxIsGreatest
<1> QED BY <1>1, <1>2, <1>5, <1>7

LEMMA RaiseRowFields ==
    ASSUME NEW tables, IsCompany(tables), NEW r, IsRaise(r), Reported(tables, r),
           NEW i \in Planned(tables, r)
    PROVE  LET row == RaiseRow(tables, r, i)
           IN  /\ row \in PayableRecord /\ row \in PayRecords /\ row # NoPay
               /\ row.employee = i /\ row.from = r.from
               /\ row.amount = NewMinor(tables, r, i) /\ row.currency = BasePay(tables, r, i).currency
               /\ row.id \in Nat /\ row.id > LastId(tables)
               /\ row \notin tables.records
<1> DEFINE row == RaiseRow(tables, r, i)
           upTo == {j \in Planned(tables, r) : j <= i}
<1>1. /\ i \in Payees(tables, r) /\ i \in People /\ i \in Int
      /\ IsFiniteSet(Planned(tables, r)) /\ Planned(tables, r) \subseteq People
    BY GroupsOfCandidates, ColumnsAreNumbers
<1>2. i \in upTo /\ upTo \subseteq Planned(tables, r)
    BY <1>1
<1>3. Cardinality(upTo) \in Nat \ {0}
    <2> HIDE DEF upTo
    <2>1. IsFiniteSet(upTo)
        BY <1>1, <1>2, FS_Subset
    <2> QED BY <1>2, <2>1, FS_CardinalityType, FS_EmptySet
<1>4. LastId(tables) \in Nat /\ \A c \in tables.records : c.id \in Nat /\ c.id <= LastId(tables)
    BY LastIdIsLast
<1>5. row.id = LastId(tables) + Cardinality(upTo)
    BY DEF RaiseRow
<1> HIDE DEF upTo
<1>6. row.id \in Nat /\ row.id > LastId(tables)
    BY <1>3, <1>4, <1>5
<1>7. /\ NewMinor(tables, r, i) \in 1..MaxMinor
      /\ BasePay(tables, r, i).currency \in Currencies /\ r.from \in Days
    BY <1>1, PayeesArePaid DEF Record, IsRaise
<1>8. /\ row = [id |-> row.id, employee |-> i, amount |-> NewMinor(tables, r, i),
                currency |-> BasePay(tables, r, i).currency, from |-> r.from]
    BY DEF RaiseRow
<1> HIDE DEF row
<1>9. row \in PayableRecord
    BY <1>1, <1>6, <1>7, <1>8 DEF PayableRecord
<1>10. row \in PayRecords
    <2>1. NewMinor(tables, r, i) \in Nat
        BY <1>7, MoneyConstants
    <2> QED BY <1>1, <1>6, <1>7, <1>8, <2>1 DEF PayRecords
<1>11. row # NoPay
    BY <1>9, PayrollConstants DEF PayableRecord, NoPay
<1>12. row \notin tables.records
    BY <1>4, <1>6
<1> QED BY <1>6, <1>8, <1>9, <1>10, <1>11, <1>12 DEF row

\* The ids given out are all different.
LEMMA RaiseRowsDiffer ==
    ASSUME NEW tables, IsCompany(tables), NEW r, IsRaise(r), Reported(tables, r),
           NEW i \in Planned(tables, r), NEW j \in Planned(tables, r), i < j
    PROVE  RaiseRow(tables, r, i).id # RaiseRow(tables, r, j).id
<1> DEFINE upTo(k) == {n \in Planned(tables, r) : n <= k}
<1>1. /\ IsFiniteSet(Planned(tables, r)) /\ i \in Int /\ j \in Int
      /\ \A n \in Planned(tables, r) : n \in Int
    BY GroupsOfCandidates, ColumnsAreNumbers
<1>2. upTo(i) \subseteq upTo(j) /\ j \in upTo(j) /\ j \notin upTo(i) /\ upTo(j) \subseteq Planned(tables, r)
    <2>1. \A n \in upTo(i) : n \in upTo(j)
        <3> TAKE n \in upTo(i)
        <3>1. n \in Planned(tables, r) /\ n \in Int /\ n <= i
            BY <1>1
        <3>2. n <= j
            BY <1>1, <3>1
        <3> QED BY <3>1, <3>2
    <2>2. j <= j /\ ~(j <= i)
        BY <1>1
    <2> QED BY <2>1, <2>2
<1>3. /\ RaiseRow(tables, r, i).id = LastId(tables) + Cardinality(upTo(i))
      /\ RaiseRow(tables, r, j).id = LastId(tables) + Cardinality(upTo(j))
    BY DEF RaiseRow
<1> DEFINE A == upTo(i)
           B == upTo(j)
<1>4. A \subseteq B /\ j \in B /\ j \notin A /\ B \subseteq Planned(tables, r)
    BY <1>2
<1> HIDE DEF A, B
<1>5. IsFiniteSet(B)
    BY <1>1, <1>4, FS_Subset
<1>6. IsFiniteSet(A) /\ Cardinality(A) <= Cardinality(B) /\ (Cardinality(A) = Cardinality(B) => B = A)
    BY <1>4, <1>5, FS_Subset
<1>7. Cardinality(A) # Cardinality(B)
    BY <1>4, <1>6
<1>8. Cardinality(A) \in Nat /\ Cardinality(B) \in Nat /\ LastId(tables) \in Nat
    BY <1>5, <1>6, FS_CardinalityType, LastIdIsLast
<1>9. /\ RaiseRow(tables, r, i).id = LastId(tables) + Cardinality(A)
      /\ RaiseRow(tables, r, j).id = LastId(tables) + Cardinality(B)
    BY <1>3 DEF A, B
<1> QED BY <1>7, <1>8, <1>9

LEMMA AppliedIsTable ==
    ASSUME NEW tables, IsCompany(tables), NEW r, IsRaise(r), Reported(tables, r)
    PROVE  RecordTable(Applied(tables, r).records)
<1> DEFINE planned == Planned(tables, r)
           row == [i \in planned |-> RaiseRow(tables, r, i)]
           rows == {row[i] : i \in planned}
<1>1. Applied(tables, r).records = tables.records \cup rows
    BY ApplyingAdds
<1>2. IsFiniteSet(planned) /\ \A i \in planned : i \in Int
    BY GroupsOfCandidates, ColumnsAreNumbers
<1>3. \A i \in planned : row[i] \in PayableRecord /\ row[i].id \in Nat /\ row[i].id > LastId(tables)
    BY RaiseRowFields
<1>4. \A i, j \in planned : row[i].id = row[j].id => i = j
    <2> TAKE i, j \in planned
    <2>1. i < j => row[i].id # row[j].id
        BY RaiseRowsDiffer
    <2>2. j < i => row[i].id # row[j].id
        BY RaiseRowsDiffer
    <2> HIDE DEF row, planned
    <2> QED BY <1>2, <2>1, <2>2
<1>5. RecordTable(tables.records) /\ LastId(tables) \in Nat
      /\ \A c \in tables.records : c.id \in Nat /\ c.id <= LastId(tables)
    BY CompanyRecords, LastIdIsLast
<1> HIDE DEF row, planned
<1>6. IsFiniteSet(rows)
    BY <1>2, ImageIsFinite
<1>7. IsFiniteSet(tables.records \cup rows)
    <2> DEFINE T == rows
    <2> HIDE DEF T
    <2>1. IsFiniteSet(T) /\ IsFiniteSet(tables.records)
        BY <1>5, <1>6 DEF T, RecordTable
    <2>2. IsFiniteSet(tables.records \cup T)
        BY <2>1, FS_Union
    <2> QED BY <2>2 DEF T
<1>8. tables.records \cup rows \subseteq PayableRecord
    BY <1>3, <1>5 DEF RecordTable
<1>9. ASSUME NEW c \in tables.records \cup rows, NEW d \in tables.records \cup rows, c.id = d.id
      PROVE  c = d
    <2>1. CASE c \in tables.records /\ d \in tables.records
        BY <1>5, <1>9, <2>1 DEF RecordTable
    <2>2. CASE c \in tables.records /\ d \in rows
        BY <1>3, <1>5, <1>9, <2>2
    <2>3. CASE c \in rows /\ d \in tables.records
        BY <1>3, <1>5, <1>9, <2>3
    <2>4. CASE c \in rows /\ d \in rows
        BY <1>4, <1>9, <2>4
    <2> QED BY <2>1, <2>2, <2>3, <2>4
<1> HIDE DEF rows
<1> QED BY <1>1, <1>7, <1>8, <1>9 DEF RecordTable

\* Who is paid what once a raise is applied: those planned what was planned, from the day of
\* the raise, and everybody else what they were.
LEMMA PayAfterRaise ==
    ASSUME NEW tables, IsCompany(tables), NEW r, IsRaise(r), Reported(tables, r)
    PROVE  LET after == Applied(tables, r)
           IN  /\ \A i, day : i \notin Planned(tables, r) => PayOn(after, i, day) = PayOn(tables, i, day)
               /\ \A i : PayOn(after, i, BaseDay(r)) = PayOn(tables, i, BaseDay(r))
               /\ \A i : i \notin Planned(tables, r) => RecordsOf(after, i) = RecordsOf(tables, i)
               /\ \A i \in Planned(tables, r) :
                      /\ PayOn(after, i, r.from) = RaiseRow(tables, r, i)
                      /\ PayOn(tables, i, r.from) = BasePay(tables, r, i)
                      /\ RaiseRow(tables, r, i) \in RecordsOf(after, i)
                      /\ RecordsOf(tables, i) \subseteq RecordsOf(after, i)
<1> DEFINE after == Applied(tables, r)
           planned == Planned(tables, r)
           row(i) == RaiseRow(tables, r, i)
<1>1. after.records = tables.records \cup {row(i) : i \in planned}
    BY ApplyingAdds
<1>2. \A i \in planned : /\ row(i).employee = i /\ row(i).from = r.from /\ row(i).id > LastId(tables)
                         /\ row(i) # NoPay /\ row(i) \notin tables.records
    BY RaiseRowFields
<1>3. r.from \in Nat /\ BaseDay(r) = r.from - 1
    BY ColumnsAreNumbers DEF IsRaise, BaseDay
<1> HIDE DEF after, planned, row
<1>4. \A i : i \notin planned => RecordsOf(after, i) = RecordsOf(tables, i)
    BY <1>1, <1>2 DEF RecordsOf
<1>5. \A i \in planned : RecordsOf(after, i) = RecordsOf(tables, i) \cup {row(i)}
    BY <1>1, <1>2 DEF RecordsOf
<1>6. ASSUME NEW i, NEW day, i \notin planned PROVE PayOn(after, i, day) = PayOn(tables, i, day)
    BY <1>4, <1>6, SameBegun
<1>7. ASSUME NEW i PROVE PayOn(after, i, BaseDay(r)) = PayOn(tables, i, BaseDay(r))
    <2>1. {c \in RecordsOf(after, i) : c.from <= BaseDay(r)}
              = {c \in RecordsOf(tables, i) : c.from <= BaseDay(r)}
        BY <1>2, <1>3, <1>4, <1>5
    <2> QED BY <2>1, SameBegun
<1>8. ASSUME NEW i \in planned PROVE PayOn(tables, i, r.from) = BasePay(tables, r, i)
    <2>1. \A c \in RecordsOf(tables, i) : c.from # r.from
        BY GroupsOfCandidates DEF Dated, planned
    <2>2. \A c \in RecordsOf(tables, i) : c.from \in Nat
        BY CompanyRecords, ColumnsAreNumbers DEF RecordsOf, RecordTable, PayableRecord
    <2>3. {c \in RecordsOf(tables, i) : c.from <= r.from}
              = {c \in RecordsOf(tables, i) : c.from <= BaseDay(r)}
        BY <1>3, <2>1, <2>2
    <2> QED BY <2>3, SameBegun DEF BasePay
<1>9. ASSUME NEW i \in planned PROVE PayOn(after, i, r.from) = row(i)
    <2> DEFINE begun == {c \in RecordsOf(after, i) : c.from <= r.from}
               pay == PayOn(after, i, r.from)
    <2>1. \A c \in RecordsOf(tables, i) : c.from # r.from /\ c.from \in Nat
        <3>1. \A c \in RecordsOf(tables, i) : c.from # r.from
            BY GroupsOfCandidates DEF Dated, planned
        <3>2. \A c \in RecordsOf(tables, i) : c.from \in Nat
            BY CompanyRecords, ColumnsAreNumbers DEF RecordsOf, RecordTable, PayableRecord
        <3> QED BY <3>1, <3>2
    <2>2. row(i) \in begun
        BY <1>2, <1>3, <1>5
    <2>3. pay \in begun /\ \A d \in begun \ {pay} : Precedes(d, pay)
        <3>1. RecordTable(after.records)
            BY AppliedIsTable DEF after
        <3> QED BY <2>2, <3>1, PayOnIsLatest
    <2> HIDE DEF pay
    <2>4. ASSUME pay # row(i) PROVE FALSE
        <3>1. pay \in RecordsOf(tables, i) /\ pay.from <= r.from
            BY <1>5, <2>3, <2>4
        <3>2. Precedes(row(i), pay)
            BY <2>2, <2>3, <2>4
        <3> QED BY <1>2, <1>3, <2>1, <3>1, <3>2 DEF Precedes
    <2> QED BY <2>4 DEF pay
<1>10. \A i \in planned : row(i) \in RecordsOf(after, i) /\ RecordsOf(tables, i) \subseteq RecordsOf(after, i)
    BY <1>5
<1> QED BY <1>4, <1>6, <1>7, <1>8, <1>9, <1>10 DEF after, planned, row

LEMMA RaisedArePlanned ==
    ASSUME NEW tables, IsCompany(tables), NEW r, IsRaise(r), Reported(tables, r)
    PROVE  Planned(tables, r) = {i \in DOMAIN tables.employees :
               PayOn(Applied(tables, r), i, r.from) # PayOn(tables, i, r.from)}
<1>1. Planned(tables, r) \subseteq DOMAIN tables.employees
    BY GroupsOfCandidates
<1>2. ASSUME NEW i \in Planned(tables, r)
      PROVE  PayOn(Applied(tables, r), i, r.from) # PayOn(tables, i, r.from)
    <2>1. PayOn(tables, i, r.from) \in tables.records \cup {NoPay}
        BY CompanyRecords, PayOnIsLatest DEF RecordsOf
    <2>2. RaiseRow(tables, r, i) \notin tables.records \cup {NoPay}
        BY RaiseRowFields
    <2>3. PayOn(Applied(tables, r), i, r.from) = RaiseRow(tables, r, i)
        BY PayAfterRaise
    <2> QED BY <2>1, <2>2, <2>3
<1>3. \A i : i \notin Planned(tables, r) =>
          PayOn(Applied(tables, r), i, r.from) = PayOn(tables, i, r.from)
    BY PayAfterRaise
<1> QED BY <1>1, <1>2, <1>3

\* The same raise asked for again finds everybody it raised, and nobody to raise.
LEMMA AgainIsRecorded ==
    ASSUME NEW tables, IsCompany(tables), NEW r, IsRaise(r), Reported(tables, r)
    PROVE  LET after == Applied(tables, r)
           IN  /\ Reported(after, r)
               /\ Planned(after, r) = {}
               /\ AlreadyRecorded(after, r) = AlreadyRecorded(tables, r) \cup Planned(tables, r)
<1> DEFINE after == Applied(tables, r)
           planned == Planned(tables, r)
<1>1. after.employees = tables.employees
    BY ApplyingAdds
<1>2. /\ \A i : i \notin planned => PayOn(after, i, r.from) = PayOn(tables, i, r.from)
      /\ \A i : PayOn(after, i, BaseDay(r)) = PayOn(tables, i, BaseDay(r))
      /\ \A i : i \notin planned => RecordsOf(after, i) = RecordsOf(tables, i)
      /\ \A i \in planned : /\ PayOn(after, i, r.from) = RaiseRow(tables, r, i)
                            /\ RaiseRow(tables, r, i) \in RecordsOf(after, i)
    BY PayAfterRaise
<1>3. \A i \in planned : /\ RaiseRow(tables, r, i).from = r.from
                         /\ RaiseRow(tables, r, i).amount = NewMinor(tables, r, i)
                         /\ RaiseRow(tables, r, i).currency = BasePay(tables, r, i).currency
    BY RaiseRowFields
<1>4. /\ planned \subseteq Payees(tables, r) \ Dated(tables, r)
      /\ Dated(tables, r) \subseteq Payees(tables, r)
      /\ AlreadyRecorded(tables, r) \subseteq Dated(tables, r)
    BY GroupsOfCandidates
<1>5. planned = {i \in Payees(tables, r) \ Dated(tables, r) : r.employees = All \/ i \in r.employees}
    BY DEF Planned
<1> HIDE DEF after, planned
<1>6. AccessScopeFor(r.subject).kind = "ALL"
    BY DEF Reported
<1>7. Candidates(after, r) = Candidates(tables, r)
    BY <1>1, <1>6 DEF Candidates, InScope, EmployeeFilter
<1>8. \A i : /\ BasePay(after, r, i) = BasePay(tables, r, i)
             /\ NewMinor(after, r, i) = NewMinor(tables, r, i)
             /\ Convertible(after, i, BaseDay(r)) <=> Convertible(tables, i, BaseDay(r))
             /\ SalaryUsd(after, i, BaseDay(r)) = SalaryUsd(tables, i, BaseDay(r))
    BY <1>2 DEF BasePay, NewMinor, Convertible, SalaryUsd, Paid
<1>9. HiredLater(after, r) = HiredLater(tables, r)
    BY <1>1, <1>7 DEF HiredLater
<1>10. Unpaid(after, r) = Unpaid(tables, r)
    BY <1>7, <1>8, <1>9 DEF Unpaid
<1>11. Payees(after, r) = Payees(tables, r)
    BY <1>7, <1>9, <1>10 DEF Payees
<1>12. Dated(after, r) = Dated(tables, r) \cup planned
    <2>1. ASSUME NEW i \in Payees(tables, r), i \notin planned
          PROVE  i \in Dated(after, r) <=> i \in Dated(tables, r)
        BY <1>2, <1>11, <2>1 DEF Dated
    <2>2. ASSUME NEW i \in planned PROVE i \in Dated(after, r)
        BY <1>2, <1>3, <1>4, <1>11 DEF Dated
    <2>3. Dated(after, r) \subseteq Payees(tables, r)
        BY <1>11 DEF Dated
    <2> QED BY <1>4, <2>1, <2>2, <2>3
<1>13. Planned(after, r) = {}
    BY <1>5, <1>11, <1>12 DEF Planned
<1>14. AlreadyRecorded(after, r) = AlreadyRecorded(tables, r) \cup planned
    <2>1. ASSUME NEW i \in planned PROVE i \in AlreadyRecorded(after, r)
        BY <1>2, <1>3, <1>8, <1>12 DEF AlreadyRecorded
    <2>2. ASSUME NEW i \in Dated(tables, r)
          PROVE  i \in AlreadyRecorded(after, r) <=> i \in AlreadyRecorded(tables, r)
        <3>1. i \notin planned
            BY <1>4
        <3> QED BY <1>2, <1>8, <1>12, <3>1 DEF AlreadyRecorded
    <2>3. AlreadyRecorded(after, r) \subseteq Dated(tables, r) \cup planned
        BY <1>12 DEF AlreadyRecorded
    <2> QED BY <1>4, <2>1, <2>2, <2>3
<1>15. ~RaiseRefused(after, r)
    <2>1. ~RaiseRefused(tables, r)
        BY DEF Reported
    <2> QED BY <1>8, <1>11, <1>12, <2>1 DEF RaiseRefused
<1>16. Reported(after, r)
    <2>1. \A i \in Candidates(tables, r) : Convertible(tables, i, BaseDay(r))
        BY DEF Reported
    <2> QED BY <1>6, <1>7, <1>8, <1>15, <2>1 DEF Reported
<1> QED BY <1>13, <1>14, <1>16 DEF after, planned

\* Everybody matched is in one group of the report.
LEMMA GroupsAddUp ==
    ASSUME NEW tables, IsCompany(tables), NEW r, Reported(tables, r)
    PROVE  /\ Cardinality(Candidates(tables, r)) =
                  Cardinality(Planned(tables, r)) + Cardinality(Unpaid(tables, r))
                  + Cardinality(HiredLater(tables, r)) + Cardinality(AlreadyRecorded(tables, r))
                  + Cardinality(Dated(tables, r) \ AlreadyRecorded(tables, r))
                  + Cardinality(Payees(tables, r) \ (Dated(tables, r) \cup Planned(tables, r)))
           /\ Cardinality(AlreadyRecorded(tables, r) \cup Planned(tables, r)) =
                  Cardinality(Planned(tables, r)) + Cardinality(AlreadyRecorded(tables, r))
<1> DEFINE everybody == Candidates(tables, r)
           planned == Planned(tables, r)
           unpaid == Unpaid(tables, r)
           later == HiredLater(tables, r)
           recorded == AlreadyRecorded(tables, r)
           dated == Dated(tables, r)
           payees == Payees(tables, r)
<1>1. /\ IsFiniteSet(everybody)
      /\ payees = everybody \ (later \cup unpaid) /\ later \subseteq everybody
      /\ unpaid \subseteq everybody \ later
      /\ dated \subseteq payees /\ recorded \subseteq dated /\ planned \subseteq payees \ dated
    BY GroupsOfCandidates DEF Payees, HiredLater, Unpaid
<1> HIDE DEF everybody, planned, unpaid, later, recorded, dated, payees
<1>2. ASSUME NEW X \in SUBSET everybody, NEW Y \in SUBSET X
      PROVE  /\ Cardinality(X) = Cardinality(Y) + Cardinality(X \ Y)
             /\ Cardinality(X) \in Nat /\ Cardinality(Y) \in Nat /\ Cardinality(X \ Y) \in Nat
    <2>1. IsFiniteSet(X)
        BY <1>1, FS_Subset
    <2>2. IsFiniteSet(Y) /\ IsFiniteSet(X \ Y)
        <3>1. X \ Y \subseteq X /\ Y \subseteq X
            OBVIOUS
        <3>2. IsFiniteSet(Y)
            BY <2>1, FS_Subset
        <3>3. IsFiniteSet(X \ Y)
            BY <2>1, FS_Difference
        <3> QED BY <3>2, <3>3
    <2>3. Cardinality(X \ Y) = Cardinality(X) - Cardinality(X \cap Y)
        BY <2>1, FS_Difference
    <2>4. Cardinality(X \cap Y) = Cardinality(Y)
        <3>1. X \cap Y = Y
            OBVIOUS
        <3> QED BY <3>1, Zenon
    <2>5. Cardinality(X) \in Nat /\ Cardinality(Y) \in Nat /\ Cardinality(X \ Y) \in Nat
        BY <2>1, <2>2, FS_CardinalityType
    <2> QED BY <2>3, <2>4, <2>5
<1> DEFINE due == everybody \ later
           open == payees \ dated
<1>3. /\ due \in SUBSET everybody /\ unpaid \in SUBSET due /\ due \ unpaid = payees
      /\ payees \in SUBSET everybody /\ dated \in SUBSET everybody /\ open \in SUBSET everybody
      /\ everybody \in SUBSET everybody /\ later \in SUBSET everybody
      /\ payees \ dated = open /\ planned \in SUBSET open
      /\ dated \in SUBSET payees /\ recorded \in SUBSET dated
      /\ open \ planned = payees \ (dated \cup planned)
    BY <1>1
<1>4. Cardinality(everybody) = Cardinality(later) + Cardinality(due)
    BY <1>2, <1>3
<1> HIDE DEF due, open
<1>5. Cardinality(due) = Cardinality(unpaid) + Cardinality(payees)
    BY <1>2, <1>3
<1>6. Cardinality(payees) = Cardinality(dated) + Cardinality(open)
    BY <1>2, <1>3
<1>7. Cardinality(dated) = Cardinality(recorded) + Cardinality(dated \ recorded)
    BY <1>2, <1>3
<1>8. Cardinality(open) = Cardinality(planned) + Cardinality(payees \ (dated \cup planned))
    BY <1>2, <1>3
<1>9. /\ Cardinality(later) \in Nat /\ Cardinality(unpaid) \in Nat
      /\ Cardinality(recorded) \in Nat /\ Cardinality(dated \ recorded) \in Nat
      /\ Cardinality(planned) \in Nat /\ Cardinality(payees \ (dated \cup planned)) \in Nat
      /\ Cardinality(due) \in Nat /\ Cardinality(payees) \in Nat /\ Cardinality(dated) \in Nat
      /\ Cardinality(open) \in Nat
    BY <1>2, <1>3
<1>10. Cardinality(everybody) =
           Cardinality(planned) + Cardinality(unpaid) + Cardinality(later) + Cardinality(recorded)
           + Cardinality(dated \ recorded) + Cardinality(payees \ (dated \cup planned))
    BY <1>4, <1>5, <1>6, <1>7, <1>8, <1>9
<1>11. Cardinality(recorded \cup planned) = Cardinality(planned) + Cardinality(recorded)
    <2>1. /\ recorded \cup planned \in SUBSET everybody /\ planned \in SUBSET (recorded \cup planned)
          /\ (recorded \cup planned) \ planned = recorded
        BY <1>1
    <2> QED BY <1>2, <2>1
<1> QED BY <1>10, <1>11 DEF everybody, planned, unpaid, later, recorded, dated, payees

\* What a report says, field by field.
Changes(tables, r) == [i \in Planned(tables, r) |-> PlannedChange(tables, r, i)]

Breaches(tables, r) == {i \in Planned(tables, r) : Changes(tables, r)[i].exceedsBand}

WorstFirst(tables, r) ==
    LargestFirst([i \in Breaches(tables, r) |-> Changes(tables, r)[i].new - BandOf(tables, i).max],
                 Breaches(tables, r))

Increases(tables, r) ==
    [i \in Planned(tables, r) |->
        RaisedAmountMinor(SalaryUsd(tables, i, BaseDay(r)), r.percent) - SalaryUsd(tables, i, BaseDay(r))]

InCurrency(tables, r, c) == {j \in Planned(tables, r) : Changes(tables, r)[j].currency = c}

ChangesIn(tables, r, c) == {Changes(tables, r)[i] : i \in InCurrency(tables, r, c)}

PlannedCurrencies(tables, r) == {Changes(tables, r)[i].currency : i \in Planned(tables, r)}

TotalsOf(tables, r) ==
    [c \in PlannedCurrencies(tables, r) |-> CurrencyTotal(ChangesIn(tables, r, c))]

LEMMA SummaryFields ==
    ASSUME NEW tables, NEW r
    PROVE  LET report == Summarise(tables, r)
           IN  /\ report.matched = Cardinality(Candidates(tables, r))
               /\ report.affected = Cardinality(Planned(tables, r))
               /\ report.skippedNoPay = Cardinality(Unpaid(tables, r))
               /\ report.skippedHiredLater = Cardinality(HiredLater(tables, r))
               /\ report.skippedAlreadyRecorded = Cardinality(AlreadyRecorded(tables, r))
               /\ report.skippedChangedOnDate =
                      Cardinality(Dated(tables, r) \ AlreadyRecorded(tables, r))
               /\ report.skippedNotSelected =
                      Cardinality(Payees(tables, r) \ (Dated(tables, r) \cup Planned(tables, r)))
               /\ report.byCurrency = TotalsOf(tables, r)
               /\ report.increaseUsdEstimate = SumOf(Increases(tables, r), Planned(tables, r))
               /\ report.wouldExceedBand =
                      SubSeq(WorstFirst(tables, r), 1, Min({MaxListed, Len(WorstFirst(tables, r))}))
               /\ report.wouldExceedBandCount = Cardinality(Breaches(tables, r))
BY DEF Summarise, Changes, Breaches, WorstFirst, Increases, InCurrency, ChangesIn,
       PlannedCurrencies, TotalsOf

\* The preview warns of those who would be above their band, and of nobody else.
LEMMA BreachesAreAbove ==
    ASSUME NEW tables, IsCompany(tables), NEW r, IsRaise(r), Reported(tables, r)
    PROVE  Breaches(tables, r) = {i \in Planned(tables, r) :
               BandStanding(PayOn(Applied(tables, r), i, r.from), BandOf(tables, i)).fit = "ABOVE"}
<1> SUFFICES ASSUME NEW i \in Planned(tables, r)
             PROVE  Changes(tables, r)[i].exceedsBand <=>
                        BandStanding(PayOn(Applied(tables, r), i, r.from), BandOf(tables, i)).fit = "ABOVE"
    BY DEF Breaches
<1> DEFINE row == RaiseRow(tables, r, i)
           band == BandOf(tables, i)
<1>1. /\ row \in PayRecords /\ row.amount = NewMinor(tables, r, i)
      /\ row.currency = BasePay(tables, r, i).currency
    BY RaiseRowFields
<1>2. PayOn(Applied(tables, r), i, r.from) = row
    BY PayAfterRaise
<1>3. band \in Band \cup {NoBand}
    BY BandOfType DEF BandOf
<1>4. Changes(tables, r)[i].exceedsBand = BreachOf(row.currency, row.amount, band)
    BY <1>1 DEF Changes, PlannedChange
<1> HIDE DEF row, band
<1>5. row.amount \in Nat /\ [row EXCEPT !.amount = row.amount] = row
    BY <1>1 DEF PayRecords
<1>6. BreachOf(row.currency, row.amount, band)
          <=> BandStanding([row EXCEPT !.amount = row.amount], band).fit = "ABOVE"
    BY <1>1, <1>3, <1>5, BreachMeansAbove
<1> QED BY <1>2, <1>4, <1>5, <1>6 DEF band

LEMMA ListedAreBreaches ==
    ASSUME NEW tables, IsCompany(tables), NEW r, IsRaise(r), Reported(tables, r)
    PROVE  Range(SubSeq(WorstFirst(tables, r), 1, Min({MaxListed, Len(WorstFirst(tables, r))})))
               \subseteq Breaches(tables, r)
<1> DEFINE S == Breaches(tables, r)
           excess == [i \in S |-> Changes(tables, r)[i].new - BandOf(tables, i).max]
           worst == WorstFirst(tables, r)
<1>1. S \in SUBSET People /\ S \subseteq Planned(tables, r)
    BY GroupsOfCandidates DEF Breaches
<1>2. \A i \in S : Changes(tables, r)[i].new - BandOf(tables, i).max \in Int
    <2> TAKE i \in S
    <2>1. i \in Planned(tables, r) /\ i \in Payees(tables, r)
        BY <1>1, GroupsOfCandidates
    <2>2. Changes(tables, r)[i] = PlannedChange(tables, r, i)
        BY <2>1 DEF Changes
    <2>3. Changes(tables, r)[i].new = NewMinor(tables, r, i) /\ NewMinor(tables, r, i) \in Int
        BY <2>1, <2>2, PayeesArePaid DEF PlannedChange
    <2>4. BandOf(tables, i).max \in Int
        <3>1. BandOf(tables, i) \in Band \cup {NoBand}
            BY BandOfType DEF BandOf
        <3>2. NoBand.max \in Int
            BY DEF NoBand, Null
        <3> QED BY <3>1, <3>2, BandFields
    <2> QED BY <2>3, <2>4
<1>3. excess \in [S -> Int]
    BY <1>2
<1>4. worst = LargestFirst(excess, S)
    BY DEF WorstFirst
<1> HIDE DEF excess, worst
<1>5. worst \in Seq(S)
    <2> HIDE DEF S
    <2> QED BY <1>1, <1>3, <1>4, LargestFirstLists
<1> DEFINE n == Min({MaxListed, Len(worst)})
<1>6. n \in Nat /\ n <= Len(worst)
    <2>1. MaxListed \in Int /\ Len(worst) \in Int /\ MaxListed \in Nat /\ Len(worst) \in Nat
        BY <1>5, BulkRaiseConstants
    <2> DEFINE m == Len(worst)
    <2> HIDE DEF m
    <2>2. Min({MaxListed, m}) = IF MaxListed <= m THEN MaxListed ELSE m
        BY <2>1, Lesser DEF m
    <2> QED BY <2>1, <2>2 DEF m
<1> HIDE DEF n, S
<1>7. SubSeq(worst, 1, n) = [k \in 1..n |-> worst[k]]
    BY <1>5, <1>6
<1>8. \A k \in 1..n : worst[k] \in S
    BY <1>5, <1>6
<1>9. Range(SubSeq(worst, 1, n)) \subseteq S
    BY <1>7, <1>8 DEF Range
<1> QED BY <1>9 DEF n, S, worst

\* Who is planned, by the currency they are paid in; and what they are paid before and after.
InCurrencyBefore(tables, r, c) ==
    {i \in Planned(tables, r) : PayOn(tables, i, r.from).currency = c}

PaidFrom(tables, r, S, after) == SumOf([i \in S |-> PayOn(after, i, r.from).amount], S)

LEMMA CurrencyTotalsAreWhole ==
    ASSUME NEW tables, IsCompany(tables), NEW r, IsRaise(r), Reported(tables, r), NEW c
    PROVE  LET inC   == InCurrencyBefore(tables, r, c)
               total == CurrencyTotal(ChangesIn(tables, r, c))
           IN  /\ inC = InCurrency(tables, r, c)
               /\ total.affected = Cardinality(inC)
               /\ total.new = PaidFrom(tables, r, inC, Applied(tables, r))
               /\ total.current = PaidFrom(tables, r, inC, tables)
<1> DEFINE after == Applied(tables, r)
           change == Changes(tables, r)
           inC == InCurrency(tables, r, c)
           made == {change[i] : i \in inC}
           newOf == [x \in made |-> x.new]
           currentOf == [x \in made |-> x.current]
           newPay == [i \in inC |-> PayOn(after, i, r.from).amount]
           oldPay == [i \in inC |-> PayOn(tables, i, r.from).amount]
<1>1. IsFiniteSet(inC) /\ inC \subseteq Planned(tables, r)
    <2>1. InCurrency(tables, r, c) \subseteq Planned(tables, r)
        BY DEF InCurrency
    <2> QED BY <2>1, GroupsOfCandidates, FS_Subset
<1>2. ASSUME NEW i \in Planned(tables, r)
      PROVE  /\ change[i].employee = i
             /\ change[i].currency = PayOn(tables, i, r.from).currency
             /\ change[i].new = PayOn(after, i, r.from).amount /\ change[i].new \in Int
             /\ change[i].current = PayOn(tables, i, r.from).amount /\ change[i].current \in Int
    <2>1. change[i] = PlannedChange(tables, r, i)
        BY DEF Changes
    <2>2. /\ change[i].employee = i /\ change[i].currency = BasePay(tables, r, i).currency
          /\ change[i].current = BasePay(tables, r, i).amount /\ change[i].new = NewMinor(tables, r, i)
        BY <2>1 DEF PlannedChange
    <2>3. PayOn(after, i, r.from) = RaiseRow(tables, r, i) /\ PayOn(tables, i, r.from) = BasePay(tables, r, i)
        BY PayAfterRaise
    <2>4. RaiseRow(tables, r, i).amount = NewMinor(tables, r, i)
        BY RaiseRowFields
    <2>5. i \in Payees(tables, r)
        BY GroupsOfCandidates
    <2>6. NewMinor(tables, r, i) \in Int /\ BasePay(tables, r, i).amount \in Int
        BY <2>5, PayeesArePaid
    <2> QED BY <2>2, <2>3, <2>4, <2>6
<1>3. InCurrencyBefore(tables, r, c) = inC
    BY <1>2 DEF InCurrencyBefore, InCurrency
<1> HIDE DEF change, inC, after
<1>4. Renames(change, inC, made)
    <2>1. \A i, j \in inC : change[i] = change[j] => i = j
        BY <1>1, <1>2
    <2> QED BY <2>1 DEF Renames
<1>5. /\ newPay \in [inC -> Int] /\ oldPay \in [inC -> Int]
      /\ newOf \in [made -> Int] /\ currentOf \in [made -> Int]
      /\ \A i \in inC : change[i] \in made /\ newOf[change[i]] = newPay[i]
                                           /\ currentOf[change[i]] = oldPay[i]
    BY <1>1, <1>2
<1>6. /\ CurrencyTotal(made).affected = Cardinality(made)
      /\ CurrencyTotal(made).new = SumOf(newOf, made)
      /\ CurrencyTotal(made).current = SumOf(currentOf, made)
    BY DEF CurrencyTotal
<1>7. /\ SumOf(newPay, inC) = PaidFrom(tables, r, inC, after)
      /\ SumOf(oldPay, inC) = PaidFrom(tables, r, inC, tables)
    BY DEF PaidFrom
<1> HIDE DEF made, newOf, currentOf, newPay, oldPay
<1>8. Cardinality(made) = Cardinality(inC)
    BY <1>1, <1>4, RenamedIsFinite
<1>9. SumOf(newPay, inC) = SumOf(newOf, made)
    <2>1. SumOf(newOf, made) = SumOf(newPay, inC)
        BY <1>1, <1>4, <1>5, SumOfRenamed
    <2> QED BY <2>1
<1>10. SumOf(oldPay, inC) = SumOf(currentOf, made)
    <2>1. SumOf(currentOf, made) = SumOf(oldPay, inC)
        BY <1>1, <1>4, <1>5, SumOfRenamed
    <2> QED BY <2>1
<1>11. /\ CurrencyTotal(made).affected = Cardinality(inC)
       /\ CurrencyTotal(made).new = PaidFrom(tables, r, inC, after)
       /\ CurrencyTotal(made).current = PaidFrom(tables, r, inC, tables)
    BY <1>6, <1>7, <1>8, <1>9, <1>10
<1>12. ChangesIn(tables, r, c) = made
    BY DEF ChangesIn, made, change, inC
<1> QED BY <1>3, <1>11, <1>12 DEF inC, after

\* The estimate against what everybody's pay comes to in dollars.
UsdFrom(tables, r, S, after) == SumOf([i \in S |-> SalaryUsd(after, i, r.from)], S)

LEMMA EstimateIsWithin ==
    ASSUME \A c \in DOMAIN Rates : Rates[c] \in CheapRates,
           NEW tables, IsCompany(tables), NEW r, IsRaise(r), Reported(tables, r)
    PROVE  LET planned == Planned(tables, r)
               off == SumOf(Increases(tables, r), planned)
                          - (UsdFrom(tables, r, planned, Applied(tables, r))
                                 - UsdFrom(tables, r, planned, tables))
           IN  off \in (-2 * Cardinality(planned))..(2 * Cardinality(planned))
<1> DEFINE after == Applied(tables, r)
           planned == Planned(tables, r)
           was == [i \in planned |-> SalaryUsd(tables, i, r.from)]
           is == [i \in planned |-> SalaryUsd(after, i, r.from)]
           up == Increases(tables, r)
           paid == [i \in planned |-> is[i] - was[i]]
           off == [i \in planned |-> up[i] - paid[i]]
<1>1. IsFiniteSet(planned)
    BY GroupsOfCandidates
<1>2. ASSUME NEW i \in planned
      PROVE  /\ was[i] \in Int /\ is[i] \in Int /\ up[i] \in Int
             /\ up[i] - (is[i] - was[i]) \in -2..2
    <2> DEFINE pay == BasePay(tables, r, i)
               new == NewMinor(tables, r, i)
               rate == Rates[pay.currency]
               usd == Round(pay.amount * rate, RateUnit)
    <2>1. /\ pay # NoPay /\ pay.amount \in Nat /\ pay.currency \in DOMAIN Rates
          /\ new # Refused /\ new \in 1..MaxMinor
          /\ SalaryUsd(tables, i, BaseDay(r)) = Usd(pay.amount, pay.currency)
        BY GroupsOfCandidates, PayeesArePaid
    <2>2. /\ PayOn(after, i, r.from) = RaiseRow(tables, r, i) /\ PayOn(tables, i, r.from) = pay
        BY PayAfterRaise
    <2>3. /\ RaiseRow(tables, r, i) # NoPay /\ RaiseRow(tables, r, i).amount = new
          /\ RaiseRow(tables, r, i).currency = pay.currency
        BY RaiseRowFields
    <2>4. rate \in CheapRates
        BY <2>1, PayrollConstants DEF CheapRates
    <2>5. usd = Usd(pay.amount, pay.currency)
        BY DEF Usd
    <2>6. new = RaisedAmountMinor(pay.amount, r.percent)
        BY DEF NewMinor
    <2>7. RaisedAmountMinor(SalaryUsd(tables, i, BaseDay(r)), r.percent) # Refused
        BY GroupsOfCandidates DEF Reported, RaiseRefused
    <2> HIDE DEF pay, rate
    <2>8. SalaryUsd(tables, i, r.from) = Usd(pay.amount, pay.currency)
        BY <2>1, <2>2 DEF SalaryUsd, Paid, Convertible, HasRate
    <2>9. SalaryUsd(after, i, r.from) = Usd(new, pay.currency)
        <3> HIDE DEF new, after
        <3> QED BY <2>1, <2>2, <2>3 DEF SalaryUsd, Paid, Convertible, HasRate
    <2>10. Usd(new, pay.currency) = Round(RaisedAmountMinor(pay.amount, r.percent) * rate, RateUnit)
        BY <2>6 DEF Usd, rate
    <2> DEFINE est == RaisedAmountMinor(usd, r.percent)
    <2>11. est # Refused
        BY <2>1, <2>5, <2>7
    <2>12. r.percent \in BasisPoints
        BY DEF IsRaise
    <2>13. est - Round(RaisedAmountMinor(pay.amount, r.percent) * rate, RateUnit) \in -2..2
        <3>1. RaisedAmountMinor(pay.amount, r.percent) # Refused
            BY <2>1, <2>6
        <3> QED BY <2>1, <2>4, <2>11, <2>12, <3>1, EstimateIsClose
    <2>14. usd \in Int /\ Round(RaisedAmountMinor(pay.amount, r.percent) * rate, RateUnit) \in Int
        <3>1. rate \in Int
            BY <2>4, PayrollConstants DEF CheapRates
        <3>2. pay.amount * rate \in Int /\ RaisedAmountMinor(pay.amount, r.percent) * rate \in Int
            <4>1. RaisedAmountMinor(pay.amount, r.percent) \in Int
                BY <2>1, <2>6
            <4> QED BY <2>1, <3>1, <4>1
        <3>3. \A x \in Int : Round(x, RateUnit) \in Int
            BY RoundIsNearest, PayrollConstants
        <3> QED BY <3>2, <3>3
    <2>15. est \in Int
        BY <2>11 DEF RaisedAmountMinor, Payable
    <2>16. up[i] = est - usd
        BY <2>1, <2>5 DEF Increases
    <2>17. was[i] = usd /\ is[i] = Round(RaisedAmountMinor(pay.amount, r.percent) * rate, RateUnit)
        BY <2>5, <2>8, <2>9, <2>10
    <2> HIDE DEF est, usd, was, is, up
    <2> QED BY <2>13, <2>14, <2>15, <2>16, <2>17
<1>3. /\ was \in [planned -> Int] /\ is \in [planned -> Int] /\ paid \in [planned -> Int]
      /\ up \in [planned -> Int] /\ off \in [planned -> Int]
    <2>1. up = [i \in planned |-> up[i]]
        BY DEF Increases
    <2>2. was = [i \in planned |-> was[i]] /\ is = [i \in planned |-> is[i]]
        OBVIOUS
    <2> HIDE DEF was, is, up, planned
    <2> QED BY <1>2, <2>1, <2>2
<1>4. \A i \in planned : /\ paid[i] = is[i] - was[i] /\ off[i] = up[i] - paid[i]
                         /\ -2 <= off[i] /\ off[i] <= 2
    <2> HIDE DEF was, is, up, planned
    <2>1. \A i \in planned : paid[i] = is[i] - was[i] /\ off[i] = up[i] - paid[i]
        OBVIOUS
    <2> HIDE DEF paid, off
    <2> QED BY <1>2, <2>1
<1>5. SumOf(is, planned) = UsdFrom(tables, r, planned, after)
      /\ SumOf(was, planned) = UsdFrom(tables, r, planned, tables)
    BY DEF UsdFrom
<1> HIDE DEF was, is, up, paid, off, planned
<1>6. SumOf(paid, planned) = SumOf(is, planned) - SumOf(was, planned)
    BY <1>1, <1>3, <1>4, SumOfDifferences
<1>7. SumOf(off, planned) = SumOf(up, planned) - SumOf(paid, planned)
    BY <1>1, <1>3, <1>4, SumOfDifferences
<1>8. SumOf(off, planned) \in Int /\ Cardinality(planned) \in Nat
    BY <1>1, <1>3, SumIsNumber, FS_CardinalityType
<1>9. /\ -2 * Cardinality(planned) <= SumOf(off, planned)
      /\ SumOf(off, planned) <= 2 * Cardinality(planned)
    <2> DEFINE low == -2
               high == 2
               n == Cardinality(planned)
    <2>1. low \in Int /\ high \in Int /\ \A i \in planned : low <= off[i] /\ off[i] <= high
        BY <1>4
    <2> HIDE DEF low, high
    <2>2. low * n <= SumOf(off, planned) /\ SumOf(off, planned) <= high * n
        BY <1>1, <1>3, <2>1, SumIsWithin
    <2>3. n \in Int
        BY <1>8
    <2> HIDE DEF n
    <2>4. low * n = -2 * n /\ high * n = 2 * n
        BY <2>3 DEF low, high
    <2> QED BY <2>2, <2>4 DEF n
<1>10. SumOf(off, planned) = SumOf(up, planned) - (UsdFrom(tables, r, planned, after)
                                                      - UsdFrom(tables, r, planned, tables))
    BY <1>5, <1>6, <1>7
<1>11. SumOf(off, planned) \in (-2 * Cardinality(planned))..(2 * Cardinality(planned))
    BY <1>8, <1>9
<1> QED BY <1>10, <1>11 DEF planned, up, after

\* What is promised of a preview, of any tables and request.
PreviewHolds(tables, r, report, after) ==
    LET again  == Run(after, r)
        raised == {i \in DOMAIN tables.employees : PayOn(after, i, r.from) # PayOn(tables, i, r.from)}
        above  == {i \in raised : BandStanding(PayOn(after, i, r.from), BandOf(tables, i)).fit = "ABOVE"}
        off == report.increaseUsdEstimate
                   - (UsdFrom(tables, r, raised, after) - UsdFrom(tables, r, raised, tables))
    IN  report \in {Forbidden, Failed} \/
        /\ report.matched = report.affected + report.skippedNoPay + report.skippedHiredLater
                                + report.skippedAlreadyRecorded + report.skippedChangedOnDate
                                + report.skippedNotSelected
        /\ report.affected = Cardinality(raised)
        /\ Range(report.wouldExceedBand) \subseteq above
        /\ report.wouldExceedBandCount = Cardinality(above)
        /\ \A c \in Currencies :
              LET inC == {i \in raised : PayOn(tables, i, r.from).currency = c}
              IN  IF c \notin DOMAIN report.byCurrency THEN inC = {}
                  ELSE LET total == report.byCurrency[c]
                       IN  /\ total.affected = Cardinality(inC)
                           /\ total.new - total.current
                                  = PaidFrom(tables, r, inC, after) - PaidFrom(tables, r, inC, tables)
        /\ off \in (-2 * report.affected)..(2 * report.affected)
        /\ \A c \in after.records \ tables.records : tables.employees[c.employee].hired <= c.from
        /\ again.affected = 0
        /\ again.skippedAlreadyRecorded = report.affected + report.skippedAlreadyRecorded

LEMMA PreviewIsKept ==
    ASSUME \A c \in DOMAIN Rates : Rates[c] \in CheapRates,
           NEW tables, IsCompany(tables), NEW r, IsRaise(r)
    PROVE  PreviewHolds(tables, r, Run(tables, r), Applied(tables, r))
<1>1. CASE ~Reported(tables, r)
    BY <1>1, ReportOrNone DEF PreviewHolds
<1>2. CASE Reported(tables, r)
    <2> DEFINE after == Applied(tables, r)
               report == Run(tables, r)
               again == Run(after, r)
               planned == Planned(tables, r)
               raised == {i \in DOMAIN tables.employees :
                             PayOn(after, i, r.from) # PayOn(tables, i, r.from)}
               above == {i \in raised :
                            BandStanding(PayOn(after, i, r.from), BandOf(tables, i)).fit = "ABOVE"}
               inC(c) == {i \in raised : PayOn(tables, i, r.from).currency = c}
               off == report.increaseUsdEstimate
                          - (UsdFrom(tables, r, raised, after) - UsdFrom(tables, r, raised, tables))
    <2>1. report = Summarise(tables, r)
        BY <1>2, ReportOrNone
    <2>2. raised = planned
        BY <1>2, RaisedArePlanned
    <2> HIDE DEF raised
    <2>3. above = Breaches(tables, r)
        BY <1>2, <2>2, BreachesAreAbove
    <2>4. \A c : inC(c) = InCurrencyBefore(tables, r, c)
        BY <2>2 DEF InCurrencyBefore
    <2> HIDE DEF above, inC
    <2>5. report.matched = report.affected + report.skippedNoPay + report.skippedHiredLater
                               + report.skippedAlreadyRecorded + report.skippedChangedOnDate
                               + report.skippedNotSelected
        <3> HIDE DEF report
        <3>1. /\ report.matched = Cardinality(Candidates(tables, r))
              /\ report.affected = Cardinality(Planned(tables, r))
              /\ report.skippedNoPay = Cardinality(Unpaid(tables, r))
              /\ report.skippedHiredLater = Cardinality(HiredLater(tables, r))
              /\ report.skippedAlreadyRecorded = Cardinality(AlreadyRecorded(tables, r))
              /\ report.skippedChangedOnDate =
                     Cardinality(Dated(tables, r) \ AlreadyRecorded(tables, r))
              /\ report.skippedNotSelected =
                     Cardinality(Payees(tables, r) \ (Dated(tables, r) \cup Planned(tables, r)))
            BY <2>1, SummaryFields
        <3>2. Cardinality(Candidates(tables, r)) =
                  Cardinality(Planned(tables, r)) + Cardinality(Unpaid(tables, r))
                  + Cardinality(HiredLater(tables, r)) + Cardinality(AlreadyRecorded(tables, r))
                  + Cardinality(Dated(tables, r) \ AlreadyRecorded(tables, r))
                  + Cardinality(Payees(tables, r) \ (Dated(tables, r) \cup Planned(tables, r)))
            BY <1>2, GroupsAddUp
        <3> QED BY <3>1, <3>2, Zenon
    <2>6. report.affected = Cardinality(raised)
        BY <2>1, <2>2, SummaryFields
    <2>7. Range(report.wouldExceedBand) \subseteq above
        BY <1>2, <2>1, <2>3, SummaryFields, ListedAreBreaches
    <2>8. report.wouldExceedBandCount = Cardinality(above)
        BY <2>1, <2>3, SummaryFields
    <2>9. ASSUME NEW c \in Currencies
          PROVE  IF c \notin DOMAIN report.byCurrency THEN inC(c) = {}
                 ELSE LET total == report.byCurrency[c]
                      IN  /\ total.affected = Cardinality(inC(c))
                          /\ total.new - total.current
                                 = PaidFrom(tables, r, inC(c), after) - PaidFrom(tables, r, inC(c), tables)
        <3> DEFINE all == PlannedCurrencies(tables, r)
                   total == CurrencyTotal(ChangesIn(tables, r, c))
        <3>1. report.byCurrency = TotalsOf(tables, r)
            BY <2>1, SummaryFields
        <3>2. DOMAIN report.byCurrency = all /\ (c \in all => report.byCurrency[c] = total)
            BY <3>1 DEF TotalsOf
        <3>3. /\ inC(c) = InCurrency(tables, r, c)
              /\ total.affected = Cardinality(inC(c))
              /\ total.new = PaidFrom(tables, r, inC(c), after)
              /\ total.current = PaidFrom(tables, r, inC(c), tables)
            BY <1>2, <2>4, CurrencyTotalsAreWhole
        <3>4. c \notin all => inC(c) = {}
            BY <3>3 DEF InCurrency, PlannedCurrencies
        <3> HIDE DEF all, total, report, after
        <3> QED BY <3>2, <3>3, <3>4
    <2>10. off \in (-2 * report.affected)..(2 * report.affected)
        <3>1. report.increaseUsdEstimate = SumOf(Increases(tables, r), planned)
              /\ report.affected = Cardinality(planned)
            BY <2>1, SummaryFields
        <3>2. (SumOf(Increases(tables, r), planned)
                   - (UsdFrom(tables, r, planned, after) - UsdFrom(tables, r, planned, tables)))
                  \in (-2 * Cardinality(planned))..(2 * Cardinality(planned))
            BY <1>2, EstimateIsWithin
        <3> HIDE DEF planned, report, after
        <3> QED BY <2>2, <3>1, <3>2
    <2>11. ASSUME NEW c \in after.records \ tables.records
           PROVE  tables.employees[c.employee].hired <= c.from
        <3>1. PICK i \in planned : c = RaiseRow(tables, r, i)
            BY ApplyingAdds
        <3>2. c.employee = i /\ c.from = r.from
            BY <1>2, <3>1, RaiseRowFields
        <3>3. i \in Payees(tables, r)
            BY <1>2, GroupsOfCandidates
        <3> QED BY <1>2, <3>2, <3>3, PayeesArePaid
    <2>12. again = Summarise(after, r) /\ Planned(after, r) = {}
           /\ AlreadyRecorded(after, r) = AlreadyRecorded(tables, r) \cup planned
        <3>1. Reported(after, r) /\ Planned(after, r) = {}
              /\ AlreadyRecorded(after, r) = AlreadyRecorded(tables, r) \cup planned
            BY <1>2, AgainIsRecorded
        <3>2. again = Summarise(after, r)
            BY <3>1, ReportOrNone
        <3> QED BY <3>1, <3>2
    <2>13. again.affected = 0
        <3>1. again.affected = Cardinality({})
            BY <2>12, SummaryFields
        <3> QED BY <3>1, FS_EmptySet
    <2>14. again.skippedAlreadyRecorded = report.affected + report.skippedAlreadyRecorded
        <3>1. again.skippedAlreadyRecorded = Cardinality(AlreadyRecorded(tables, r) \cup planned)
            BY <2>12, SummaryFields
        <3>2. /\ report.affected = Cardinality(planned)
              /\ report.skippedAlreadyRecorded = Cardinality(AlreadyRecorded(tables, r))
            BY <2>1, SummaryFields
        <3> QED BY <1>2, <3>1, <3>2, GroupsAddUp
    <2> HIDE DEF report, after, again, planned
    <2> QED BY <2>5, <2>6, <2>7, <2>8, <2>9, <2>10, <2>11, <2>13, <2>14
            DEF PreviewHolds, report, after, again, raised, above, inC
<1> QED BY <1>1, <1>2

\* What the preview of a bulk raise says is what applying it does: everybody matched is
\* accounted for, those said to go past their band are those who then stand above it, the
\* cost in each currency is what people are paid more, the estimate in dollars is within two
\* cents a person as long as no currency is worth two dollars, nobody is paid from before
\* they are employed, and the same raise asked for again adds nothing
\* (src/services/bulkRaise.ts: the figure was signed off, and the table is append-only).
THEOREM PreviewsAreKept ==
    ASSUME \A c \in DOMAIN Rates : Rates[c] \in CheapRates
    PROVE  Spec => []PreviewIsPaid
<1>1. IInv => PreviewIsPaid
    <2> SUFFICES ASSUME IInv PROVE PreviewIsPaid
        OBVIOUS
    <2>1. \A r \in RaiseRequests : PreviewHolds(db, r, Run(db, r), Applied(db, r))
        BY PreviewIsKept, ScreensConstants DEF IInv, IsRaise
    <2> QED BY <2>1 DEF PreviewIsPaid, PreviewHolds, PaidFrom, UsdFrom, Ids
<1> QED BY <1>1, Invariantly, PTL
-----------------------------------------------------------------------------
(* Teams *)

\* Whoever i reports to, or nobody.
Above(i) == IF i = Null THEN Null ELSE db.employees[i].manager

\* "up" goes from i to their manager and on, as far as there are people.
IsWayUp(up, i) ==
    /\ up \in [0..Cardinality(People) -> Ids \cup {Null}]
    /\ up[0] = i
    /\ \A n \in 1..Cardinality(People) : up[n] = Above(up[n - 1])

LEMMA ManagersAreEmployees ==
    ASSUME IsCompany(db)
    PROVE  /\ Null \notin Ids
           /\ \A i \in Ids \cup {Null} : Above(i) \in Ids \cup {Null}
<1>1. Ids \subseteq People
    BY DEF IsCompany, IsTable, Ids
<1>2. Null \notin Ids
    BY <1>1, PayrollConstants DEF Null
<1> QED BY <1>2 DEF IsCompany, Above, Ids

LEMMA WayUpIsFound ==
    ASSUME IsCompany(db), NEW i \in Ids
    PROVE  \E up : /\ IsWayUp(up, i)
                   /\ UpFrom(i) = {up[n] : n \in 0..Cardinality(People)} \ {Null}
<1> DEFINE N == Cardinality(People)
           A == Ids \cup {Null}
           Again(f) == [n \in 0..N |->
                           IF n = 0 THEN i
                           ELSE IF f[n - 1] = Null THEN Null ELSE db.employees[f[n - 1]].manager]
           up == CHOOSE f : f = Again(f)
           F == [j \in A |-> Above(j)]
<1>1. N \in Nat
    BY PayrollConstants, FS_CardinalityType
<1>2. UpFrom(i) = {up[n] : n \in 0..N} \ {Null}
    BY DEF UpFrom
<1>3. i \in A /\ F \in [A -> A]
    BY ManagersAreEmployees
<1>4. PICK f : f \in [0..N -> A] /\ f[0] = i /\ \A n \in 1..N : f[n] = F[f[n - 1]]
    <2> HIDE DEF N, A, F
    <2>1. \E f : Rounds(f, N, A, i, F)
        BY <1>1, <1>3, RoundsExist
    <2> QED BY <2>1 DEF Rounds
<1>5. f = Again(f)
    <2>1. ASSUME NEW n \in 1..N PROVE f[n] = Above(f[n - 1])
        <3>1. n - 1 \in 0..N
            BY <1>1
        <3>2. f[n - 1] \in A
            BY <1>4, <3>1
        <3>3. F[f[n - 1]] = Above(f[n - 1])
            BY <3>2
        <3> HIDE DEF F, A, N
        <3> QED BY <1>4, <3>3
    <2> HIDE DEF F, N, A
    <2>2. \A n \in 0..N : n # 0 => n \in 1..N
        BY <1>1
    <2> QED BY <1>4, <2>1, <2>2 DEF Above
<1> HIDE DEF Again
<1>6. up = Again(up)
    BY <1>5
<1> HIDE DEF up
<1>7. up[0] = i /\ \A n \in 1..N : up[n] = Above(up[n - 1])
    BY <1>1, <1>6 DEF Again, Above
<1>8. up \in [0..N -> A]
    <2> DEFINE bad == {n \in 0..N : up[n] \notin A}
    <2>1. up = [n \in 0..N |-> up[n]]
        BY <1>6 DEF Again
    <2>2. SUFFICES ASSUME bad # {} PROVE FALSE
        BY <2>1
    <2>3. PICK n \in bad : \A k \in bad : n <= k
        <3>1. bad \in SUBSET Nat
            BY <1>1
        <3> HIDE DEF bad
        <3> QED BY <2>2, <3>1, LeastExists
    <2>4. n \in 0..N /\ up[n] \notin A
        OBVIOUS
    <2>5. n # 0
        BY <1>7, <2>4
    <2>6. n - 1 \in 0..N /\ ~ n <= n - 1 /\ n \in 1..N
        BY <1>1, <2>4, <2>5
    <2>7. up[n - 1] \in A
        BY <2>3, <2>6
    <2> QED BY <1>7, <2>4, <2>6, <2>7, ManagersAreEmployees
<1> QED BY <1>2, <1>7, <1>8 DEF IsWayUp

\* The way up from somebody goes on as that of their manager.
LEMMA WaysUpMeet ==
    ASSUME IsCompany(db), NEW i \in Ids, NEW up, IsWayUp(up, i),
           NEW over, Above(i) # Null => IsWayUp(over, Above(i)),
           NEW n \in 1..Cardinality(People)
    PROVE  up[n] = IF Above(i) = Null THEN Null ELSE over[n - 1]
<1> DEFINE N == Cardinality(People)
           bad == {k \in 1..N : up[k] # IF Above(i) = Null THEN Null ELSE over[k - 1]}
<1>1. N \in Nat
    BY PayrollConstants, FS_CardinalityType
<1>2. SUFFICES ASSUME bad # {} PROVE FALSE
    OBVIOUS
<1>3. PICK k \in bad : \A j \in bad : k <= j
    <2>1. bad \in SUBSET Nat
        BY <1>1
    <2> HIDE DEF bad
    <2> QED BY <1>2, <2>1, LeastExists
<1>4. k \in 1..N /\ up[k] # IF Above(i) = Null THEN Null ELSE over[k - 1]
    OBVIOUS
<1>5. up[k] = Above(up[k - 1]) /\ up[0] = i
    BY <1>4 DEF IsWayUp
<1>6. CASE k = 1
    BY <1>4, <1>5, <1>6 DEF IsWayUp
<1>7. CASE k # 1
    <2>1. k - 1 \in 1..N /\ ~ k <= k - 1 /\ (k - 1) - 1 = k - 2
        BY <1>1, <1>4, <1>7
    <2>2. up[k - 1] = IF Above(i) = Null THEN Null ELSE over[k - 2]
        BY <1>3, <2>1
    <2>3. CASE Above(i) = Null
        BY <1>4, <1>5, <2>2, <2>3 DEF Above
    <2>4. CASE Above(i) # Null
        <3>1. over[k - 1] = Above(over[k - 2])
            BY <2>1, <2>4 DEF IsWayUp
        <3> QED BY <1>4, <1>5, <2>2, <2>4, <3>1
    <2> QED BY <2>3, <2>4
<1> QED BY <1>6, <1>7

\* The team of teamCte is everybody whose way up passes the manager.
LEMMA TeamIsUnderManager ==
    ASSUME IsCompany(db), NEW m
    PROVE  Team(db, m) = {i \in Ids : m \in UpFrom(i)}
<1> DEFINE N == Cardinality(People)
           way == [i \in Ids |-> CHOOSE up : /\ IsWayUp(up, i)
                                             /\ UpFrom(i) = {up[n] : n \in 0..N} \ {Null}]
           under(n) == {i \in Ids : m # Null /\ \E k \in 0..n : way[i][k] = m}
<1>1. N \in Nat
    BY PayrollConstants, FS_CardinalityType
<1>2. \A i \in Ids : IsWayUp(way[i], i) /\ UpFrom(i) = {way[i][n] : n \in 0..N} \ {Null}
    <2> TAKE i \in Ids
    <2>1. \E up : IsWayUp(up, i) /\ UpFrom(i) = {up[n] : n \in 0..N} \ {Null}
        BY WayUpIsFound
    <2> QED BY <2>1
<1> HIDE DEF way
<1>3. PICK found \in [0..N -> SUBSET Ids] :
          /\ found[0] = Ids \cap {m}
          /\ \A n \in 1..N :
                found[n] = found[n - 1] \cup {i \in Ids : db.employees[i].manager \in found[n - 1]}
          /\ Team(db, m) = found[N]
    <2>1. PICK found \in [0..Cardinality(People) -> SUBSET DOMAIN db.employees] :
              /\ found[0] = DOMAIN db.employees \cap {m}
              /\ \A n \in 1..Cardinality(People) :
                    found[n] = found[n - 1] \cup {i \in DOMAIN db.employees :
                                                     db.employees[i].manager \in found[n - 1]}
              /\ Team(db, m) = found[Cardinality(People)]
        BY TeamRounds
    <2> QED BY <2>1 DEF Ids
<1>4. \A i \in Ids : Above(i) = db.employees[i].manager /\ Above(i) \in Ids \cup {Null}
    BY ManagersAreEmployees DEF Above
<1>5. Null \notin Ids
    BY ManagersAreEmployees
<1>6. \A i \in Ids : \A n \in 1..N :
          way[i][n] = IF Above(i) = Null THEN Null ELSE way[Above(i)][n - 1]
    <2> TAKE i \in Ids
    <2> TAKE n \in 1..N
    <2>1. Above(i) # Null => IsWayUp(way[Above(i)], Above(i))
        BY <1>2, <1>4
    <2>2. IsWayUp(way[i], i)
        BY <1>2
    <2> QED BY <2>1, <2>2, WaysUpMeet
<1>7. \A n \in 0..N : found[n] = under(n)
    <2> DEFINE bad == {n \in 0..N : found[n] # under(n)}
    <2>1. SUFFICES ASSUME bad # {} PROVE FALSE
        OBVIOUS
    <2>2. PICK n \in bad : \A k \in bad : n <= k
        <3>1. bad \in SUBSET Nat
            BY <1>1
        <3> HIDE DEF bad
        <3> QED BY <2>1, <3>1, LeastExists
    <2>3. n \in 0..N /\ found[n] # under(n)
        OBVIOUS
    <2>4. \A i \in Ids : way[i][0] = i
        BY <1>2 DEF IsWayUp
    <2>5. n # 0
        BY <1>3, <1>5, <2>3, <2>4
    <2>6. n \in 1..N /\ n - 1 \in 0..N /\ ~ n <= n - 1
        BY <1>1, <2>3, <2>5
    <2>7. found[n - 1] = under(n - 1)
        <3> HIDE DEF under
        <3> QED BY <2>2, <2>6
    <2>8. found[n] = found[n - 1] \cup {i \in Ids : Above(i) \in found[n - 1]}
        BY <1>3, <1>4, <2>6
    <2>9. ASSUME NEW i \in under(n) PROVE i \in found[n]
        <3>1. PICK k \in 0..n : way[i][k] = m
            OBVIOUS
        <3>2. CASE k <= n - 1
            <4>1. k \in 0..(n - 1)
                BY <2>6, <3>2
            <4> QED BY <2>7, <2>8, <3>1, <4>1
        <3>3. CASE ~ k <= n - 1
            <4>1. k = n
                BY <2>6, <3>3
            <4>2. m # Null /\ way[i][n] = m
                BY <3>1, <4>1
            <4>3. Above(i) # Null /\ way[Above(i)][n - 1] = m /\ Above(i) \in Ids
                BY <1>4, <1>6, <2>6, <4>2
            <4>4. n - 1 \in 0..(n - 1)
                BY <2>6
            <4>5. Above(i) \in under(n - 1)
                BY <4>2, <4>3, <4>4
            <4>6. i \in Ids
                OBVIOUS
            <4> HIDE DEF under
            <4> QED BY <2>7, <2>8, <4>3, <4>5, <4>6
        <3> QED BY <3>2, <3>3
    <2>10. ASSUME NEW i \in found[n] PROVE i \in under(n)
        <3>1. CASE i \in found[n - 1]
            <4>1. 0..(n - 1) \subseteq 0..n
                BY <2>6
            <4> QED BY <2>7, <3>1, <4>1
        <3>2. CASE i \in Ids /\ Above(i) \in found[n - 1]
            <4>1. Above(i) \in Ids /\ m # Null
                BY <2>7, <3>2
            <4>2. PICK k \in 0..(n - 1) : way[Above(i)][k] = m
                BY <2>7, <3>2
            <4>3. k + 1 \in 1..N /\ k + 1 \in 0..n /\ (k + 1) - 1 = k
                BY <1>1, <2>6
            <4>4. way[i][k + 1] = m
                BY <1>5, <1>6, <3>2, <4>1, <4>2, <4>3
            <4> QED BY <3>2, <4>1, <4>3, <4>4
        <3> QED BY <2>8, <3>1, <3>2
    <2> QED BY <2>3, <2>9, <2>10
<1>8. Team(db, m) = under(N)
    <2>1. N \in 0..N
        BY <1>1
    <2> QED BY <1>3, <1>7, <2>1
<1> QED BY <1>2, <1>8

-----------------------------------------------------------------------------
(* Pages *)

\* The last page is the first to reach the end of the list.
LEMMA LastPage ==
    ASSUME NEW total \in Nat, NEW size \in Nat \ {0}
    PROVE  LET P == TotalPages(total, size)
           IN  /\ P \in 0..total /\ total <= P * size
               /\ \A n \in 1..P : (n - 1) * size < total /\ (n # P => n * size < total)
<1> DEFINE P == TotalPages(total, size)
           x == total + size - 1
<1>1. P = x \div size /\ x \in Nat
    BY DEF TotalPages
<1>2. P \in Int /\ P * size <= x /\ x < P * size + size
    BY <1>1
<1> HIDE DEF P
<1>3. (P - 1) * size < total
    BY <1>2
<1>4. ASSUME NEW n \in 1..P PROVE (n - 1) * size <= (P - 1) * size /\ (n # P => n * size <= (P - 1) * size)
    BY <1>2
<1>5. total <= P * size
    BY <1>2
<1>6. P >= 0
    BY <1>2
<1>7. P <= total
    BY <1>2, <1>3
<1> QED BY <1>2, <1>3, <1>4, <1>5, <1>6, <1>7 DEF P

\* The first "upto" of a list.
FirstOf(list, upto) == [k \in 1..upto |-> list[k]]

\* What has been shown, and then a page, is what has been shown after that page.
LEMMA PageContinues ==
    ASSUME NEW S, NEW list \in Seq(S), NEW first \in Nat, first <= Len(list),
           NEW size \in Nat \ {0}, NEW rows \in Seq(S), Slice(rows, list, first, size)
    PROVE  FirstOf(list, first) \o rows =
               FirstOf(list, IF first + size <= Len(list) THEN first + size ELSE Len(list))
<1> DEFINE last == IF first + size <= Len(list) THEN first + size ELSE Len(list)
           was == FirstOf(list, first)
           is == FirstOf(list, last)
<1>1. Len(list) \in Nat /\ last \in Nat /\ first <= last /\ last <= Len(list)
    OBVIOUS
<1>2. Len(rows) = last - first /\ \A k \in 1..Len(rows) : rows[k] = list[first + k]
    BY <1>1 DEF Slice
<1> HIDE DEF last
<1>3. was \in Seq(S) /\ Len(was) = first /\ \A k \in 1..first : was[k] = list[k]
    BY <1>1 DEF FirstOf
<1>4. is \in Seq(S) /\ Len(is) = last /\ \A k \in 1..last : is[k] = list[k]
    BY <1>1 DEF FirstOf
<1> HIDE DEF was, is
<1>5. (was \o rows) \in Seq(S) /\ Len(was \o rows) = last
    BY <1>1, <1>2, <1>3
<1>6. ASSUME NEW k \in 1..last PROVE (was \o rows)[k] = is[k]
    <2>1. CASE k <= first
        BY <1>1, <1>2, <1>3, <1>4, <2>1
    <2>2. CASE ~ k <= first
        <3>1. k - first \in 1..Len(rows) /\ first + (k - first) = k
            BY <1>1, <1>2, <2>2
        <3>2. (was \o rows)[k] = rows[k - first]
            BY <1>1, <1>2, <1>3, <2>2
        <3> QED BY <1>2, <1>4, <3>1, <3>2
    <2> QED BY <2>1, <2>2
<1>7. was \o rows = is
    BY <1>4, <1>5, <1>6
<1> QED BY <1>7 DEF was, is, last

\* Page after page, and as many as there are, is the list.
LEMMA PagesMakeTheList ==
    ASSUME NEW S, NEW list \in Seq(S), NEW size \in Nat \ {0}
    PROVE  FlattenSeq([n \in 1..TotalPages(Len(list), size) |-> PageOf(list, n, size)]) = list
<1> DEFINE L == Len(list)
           P == TotalPages(L, size)
           pages == [n \in 1..P |-> PageOf(list, n, size)]
           Again(f) == [n \in 1..Len(pages) |-> IF n = 1 THEN pages[n] ELSE f[n - 1] \o pages[n]]
           flatten == CHOOSE f : f = Again(f)
           upto(n) == IF n * size <= L THEN n * size ELSE L
           f == [n \in 1..P |-> FirstOf(list, upto(n))]
<1>1. L \in Nat
    OBVIOUS
<1>2. /\ P \in 0..L /\ L <= P * size
      /\ \A n \in 1..P : (n - 1) * size < L /\ (n # P => n * size < L)
    <2> HIDE DEF L
    <2> QED BY <1>1, LastPage
<1> HIDE DEF L, P
<1>3. P \in Nat /\ Len(pages) = P /\ pages \in Seq(Seq(S))
    <2>1. \A n \in 1..P : PageOf(list, n, size) \in Seq(S)
        <3> TAKE n \in 1..P
        <3>1. n \in Nat \ {0}
            BY <1>1, <1>2
        <3> QED BY <3>1, PageIsSlice
    <2> QED BY <1>1, <1>2, <2>1
<1>4. FlattenSeq(pages) = IF P = 0 THEN pages ELSE flatten[P]
    BY <1>3 DEF FlattenSeq
<1>5. \A n \in 1..P : /\ pages[n] \in Seq(S)
                      /\ Slice(pages[n], list, (n - 1) * size, size)
    <2> TAKE n \in 1..P
    <2>1. n \in Nat \ {0} /\ pages[n] = PageOf(list, n, size)
        BY <1>2
    <2> HIDE DEF pages
    <2> QED BY <2>1, PageIsSlice
<1>6. ASSUME NEW n \in 1..P
      PROVE  FirstOf(list, (n - 1) * size) \o pages[n] = FirstOf(list, upto(n))
    <2> DEFINE first == (n - 1) * size
    <2>1. first \in Nat /\ n * size = first + size /\ first <= L
        <3>1. n \in Nat \ {0} /\ first < L
            BY <1>1, <1>2
        <3>2. first \in Nat /\ n * size = first + size
            BY <3>1, FirstOfPage
        <3> QED BY <1>1, <3>1, <3>2
    <2>2. pages[n] \in Seq(S) /\ Slice(pages[n], list, first, size)
        BY <1>5
    <2> HIDE DEF first, pages
    <2>3. FirstOf(list, first) \o pages[n] =
              FirstOf(list, IF first + size <= Len(list) THEN first + size ELSE Len(list))
        BY <2>1, <2>2, PageContinues DEF L
    <2> QED BY <2>1, <2>3 DEF first, L
<1>7. f = Again(f)
    <2>1. ASSUME NEW n \in 1..P
          PROVE  f[n] = IF n = 1 THEN pages[n] ELSE f[n - 1] \o pages[n]
        <3>1. f[n] = FirstOf(list, upto(n))
            OBVIOUS
        <3>2. CASE n = 1
            <4>1. FirstOf(list, (n - 1) * size) = <<>>
                <5>1. (n - 1) * size = 0
                    BY <3>2
                <5> QED BY <5>1 DEF FirstOf
            <4>2. <<>> \o pages[n] = pages[n]
                BY <1>5
            <4> HIDE DEF f, pages
            <4> QED BY <1>6, <3>1, <3>2, <4>1, <4>2
        <3>3. CASE n # 1
            <4>1. n - 1 \in 1..P /\ n - 1 # P
                BY <1>3, <3>3
            <4>2. upto(n - 1) = (n - 1) * size
                <5>1. (n - 1) * size < L /\ (n - 1) * size \in Int
                    BY <1>1, <1>2, <4>1
                <5> QED BY <1>1, <5>1
            <4>3. f[n - 1] = FirstOf(list, (n - 1) * size)
                BY <4>1, <4>2
            <4> HIDE DEF f, pages
            <4> QED BY <1>6, <3>1, <3>3, <4>3
        <3> QED BY <3>2, <3>3
    <2>2. f = [n \in 1..P |-> f[n]] /\ 1..Len(pages) = 1..P
        BY <1>3
    <2> HIDE DEF f, pages
    <2> QED BY <2>1, <2>2
<1> HIDE DEF pages, f
<1>8. flatten = Again(flatten)
    <2> HIDE DEF Again
    <2> QED BY <1>7
<1> HIDE DEF flatten
<1>9. \A n \in 1..P : flatten[n] = f[n]
    <2> DEFINE bad == {n \in 1..P : flatten[n] # f[n]}
    <2>1. SUFFICES ASSUME bad # {} PROVE FALSE
        OBVIOUS
    <2>2. PICK n \in bad : \A k \in bad : n <= k
        <3>1. bad \in SUBSET Nat
            BY <1>3
        <3> HIDE DEF bad
        <3> QED BY <2>1, <3>1, LeastExists
    <2>3. n \in 1..P /\ flatten[n] # f[n]
        OBVIOUS
    <2>4. /\ f[n] = IF n = 1 THEN pages[n] ELSE f[n - 1] \o pages[n]
          /\ flatten[n] = IF n = 1 THEN pages[n] ELSE flatten[n - 1] \o pages[n]
        BY <1>3, <1>7, <1>8, <2>3
    <2>5. n # 1
        BY <2>3, <2>4
    <2>6. n - 1 \in 1..P /\ ~ n <= n - 1
        BY <1>3, <2>3, <2>5
    <2>7. flatten[n - 1] = f[n - 1]
        BY <2>2, <2>6
    <2> QED BY <2>3, <2>4, <2>5, <2>7
<1>10. CASE P = 0
    <2>1. L = 0
        BY <1>1, <1>2, <1>10
    <2>2. list = <<>> /\ pages = <<>>
        BY <1>10, <2>1 DEF L, pages
    <2> QED BY <1>4, <1>10, <2>2 DEF pages, P, L
<1>11. CASE P # 0
    <2>1. P \in 1..P
        BY <1>3, <1>11
    <2>2. upto(P) = L
        <3>1. P * size \in Int
            BY <1>3
        <3> QED BY <1>1, <1>2, <3>1
    <2>3. FirstOf(list, L) = list
        BY DEF FirstOf, L
    <2>4. FlattenSeq(pages) = list
        BY <1>4, <1>9, <1>11, <2>1, <2>2, <2>3 DEF f
    <2> QED BY <2>4 DEF pages, P, L
<1> QED BY <1>10, <1>11

\* Of two who are listed one after the other, the keys are in the order asked for.
LEMMA NeighboursAreInOrder ==
    ASSUME NEW tables, IsCompany(tables), NEW q, q.sortBy \in SortFields,
           NEW i \in DOMAIN tables.employees, NEW j \in DOMAIN tables.employees,
           Comes(tables, q, i, j), SortKey(tables, q, i) # Null, SortKey(tables, q, j) # Null
    PROVE  IF q.sortDir = "asc" THEN SortKey(tables, q, i) <= SortKey(tables, q, j)
           ELSE SortKey(tables, q, j) <= SortKey(tables, q, i)
<1>1. SortKey(tables, q, i) \in Int /\ SortKey(tables, q, j) \in Int
    BY SortKeysAreNumbers
<1> QED BY <1>1 DEF Comes, KeyBefore

\* A page is answered unless somebody on it has a salary that cannot be converted.
LEMMA PageIsAnswered ==
    ASSUME NEW tables, IsCompany(tables), NEW q \in Query, NEW n \in Nat \ {0},
           NEW size \in Nat \ {0}
    PROVE  LET M      == Matching(tables, q)
               list   == Listed(tables, q, M)
               rows   == PageOf(list, n, size)
               answer == ListEmployees(tables, q, n, size)
           IN  /\ answer = Failed => \E i \in M : ~Convertible(tables, i, q.asOf)
               /\ answer # Failed => answer = [rows |-> rows, total |-> Cardinality(M)]
               /\ Len(list) <= (n - 1) * size => answer = [rows |-> <<>>, total |-> Cardinality(M)]
<1> DEFINE M      == Matching(tables, q)
           list   == Listed(tables, q, M)
           rows   == PageOf(list, n, size)
           answer == ListEmployees(tables, q, n, size)
           whole  == [rows |-> rows, total |-> Cardinality(M)]
           good(k) == Convertible(tables, rows[k], q.asOf)
<1>1. q.sortBy \in SortFields /\ q.subject.role \in Roles
    BY DEF Query
<1>2. M \in SUBSET DOMAIN tables.employees
    BY <1>1, MatchingAreEmployees
<1>3. list \in Seq(M) /\ Len(list) = Cardinality(M) /\ Cardinality(M) \in Nat
    <2> HIDE DEF M
    <2> QED BY <1>1, <1>2, ListIsSorted
<1>4. answer = IF \A k \in DOMAIN rows : good(k) THEN whole ELSE Failed
    BY DEF ListEmployees
<1> HIDE DEF M, list
<1>5. rows \in Seq(M) /\ Slice(rows, list, (n - 1) * size, size)
    BY <1>3, PageIsSlice
<1> HIDE DEF rows, answer
<1>6. whole # Failed
    BY <1>3 DEF Failed, Null
<1>7. ASSUME answer = Failed PROVE \E i \in M : ~Convertible(tables, i, q.asOf)
    <2> HIDE DEF whole, good
    <2>1. PICK k \in DOMAIN rows : ~good(k)
        BY <1>4, <1>6, <1>7
    <2>2. rows[k] \in M
        BY <1>5, <2>1
    <2> QED BY <2>1, <2>2 DEF good
<1>8. ASSUME answer # Failed PROVE answer = whole
    <2> HIDE DEF whole, good
    <2> QED BY <1>4, <1>8
<1>9. ASSUME Len(list) <= (n - 1) * size
      PROVE  answer = [rows |-> <<>>, total |-> Cardinality(M)]
    <2> DEFINE first == (n - 1) * size
    <2>1. first \in Nat
        BY FirstOfPage
    <2> HIDE DEF first
    <2>2. Len(rows) = 0
        BY <1>3, <1>5, <1>9, <2>1 DEF Slice, first
    <2>3. rows = <<>>
        BY <1>5, <2>2
    <2> HIDE DEF good
    <2> QED BY <1>4, <2>3
<1> QED BY <1>7, <1>8, <1>9 DEF M, list, rows, answer

\* If no page fails, the pages one after the other are the list.
LEMMA ListIsCovered ==
    ASSUME NEW tables, IsCompany(tables), NEW q \in Query, NEW size \in Nat \ {0},
           \A n \in 1..Cardinality(People) : ListEmployees(tables, q, n, size) # Failed
    PROVE  LET answer(n) == ListEmployees(tables, q, n, size)
               M     == Matching(tables, q)
               total == answer(1).total
               P     == TotalPages(total, size)
           IN  /\ total = Cardinality(M) /\ total \in Nat
               /\ \A n \in 1..P : /\ answer(n).total = total
                                  /\ answer(n).rows = PageOf(Listed(tables, q, M), n, size)
               /\ answer(P + 1) = [rows |-> <<>>, total |-> total]
               /\ P \in Nat
               /\ FlattenSeq([n \in 1..P |-> answer(n).rows]) = Listed(tables, q, M)
<1> DEFINE answer(n) == ListEmployees(tables, q, n, size)
           M     == Matching(tables, q)
           list  == Listed(tables, q, M)
           total == answer(1).total
           P     == TotalPages(total, size)
<1>1. q.sortBy \in SortFields /\ q.subject.role \in Roles
    BY DEF Query
<1>2. M \in SUBSET DOMAIN tables.employees
    BY <1>1, MatchingAreEmployees
<1>3. list \in Seq(M) /\ Len(list) = Cardinality(M) /\ Cardinality(M) \in Nat
    <2> HIDE DEF M
    <2> QED BY <1>1, <1>2, ListIsSorted
<1>4. Cardinality(M) <= Cardinality(People) /\ Cardinality(People) \in Nat
    <2>1. M \subseteq People
        BY <1>2 DEF IsCompany, IsTable
    <2> HIDE DEF M
    <2> QED BY <2>1, PayrollConstants, FS_Subset, FS_CardinalityType
<1>5. \A n \in Nat \ {0} :
          /\ answer(n) # Failed =>
                 answer(n) = [rows |-> PageOf(list, n, size), total |-> Cardinality(M)]
          /\ Len(list) <= (n - 1) * size => answer(n) = [rows |-> <<>>, total |-> Cardinality(M)]
    BY PageIsAnswered
<1>6. \A n \in 1..Cardinality(People) : answer(n) # Failed
    OBVIOUS
<1> HIDE DEF M, list, answer
<1>7. total = Cardinality(M)
    <2>1. CASE Cardinality(People) = 0
        <3>1. Len(list) <= (1 - 1) * size
            BY <1>3, <1>4, <2>1
        <3>2. answer(1) = [rows |-> <<>>, total |-> Cardinality(M)]
            BY <1>5, <3>1
        <3> QED BY <3>2
    <2>2. CASE Cardinality(People) # 0
        <3>1. 1 \in 1..Cardinality(People)
            BY <1>4, <2>2
        <3>2. answer(1) # Failed
            BY <1>6, <3>1
        <3>3. answer(1) = [rows |-> PageOf(list, 1, size), total |-> Cardinality(M)]
            BY <1>5, <3>2
        <3> QED BY <3>3
    <2> QED BY <2>1, <2>2
<1> HIDE DEF total
<1>8. P \in 0..total /\ total <= P * size
    BY <1>3, <1>7, LastPage
<1> HIDE DEF P
<1>9. ASSUME NEW n \in 1..P
      PROVE  answer(n) = [rows |-> PageOf(list, n, size), total |-> total]
    <2>1. n \in Nat \ {0} /\ n \in 1..Cardinality(People)
        BY <1>3, <1>4, <1>7, <1>8
    <2> QED BY <1>5, <1>6, <1>7, <2>1
<1>10. answer(P + 1) = [rows |-> <<>>, total |-> total]
    <2>1. P + 1 \in Nat \ {0} /\ (P + 1) - 1 = P
        BY <1>3, <1>7, <1>8
    <2>2. Len(list) <= ((P + 1) - 1) * size
        BY <1>3, <1>7, <1>8, <2>1
    <2> QED BY <1>5, <1>7, <2>1, <2>2
<1>11. FlattenSeq([n \in 1..P |-> answer(n).rows]) = list
    <2>1. [n \in 1..P |-> answer(n).rows] = [n \in 1..P |-> PageOf(list, n, size)]
        BY <1>9
    <2>2. FlattenSeq([n \in 1..TotalPages(Len(list), size) |-> PageOf(list, n, size)]) = list
        BY <1>3, PagesMakeTheList
    <2>3. P = TotalPages(Len(list), size)
        BY <1>3, <1>7 DEF P
    <2> QED BY <2>1, <2>2, <2>3
<1>12. P \in Nat /\ \A n \in 1..P : /\ answer(n).total = total
                                    /\ answer(n).rows = PageOf(list, n, size)
    BY <1>3, <1>7, <1>8, <1>9
<1> QED BY <1>3, <1>7, <1>10, <1>11, <1>12 DEF answer, M, list, total, P

\* The list that the pages make has everybody once, one after the other as asked for.
LEMMA ListHasEverybody ==
    ASSUME NEW tables, IsCompany(tables), NEW q \in Query
    PROVE  LET M     == Matching(tables, q)
               shown == Listed(tables, q, M)
           IN  /\ Len(shown) = Cardinality(M) /\ Range(shown) = M
               /\ \A k \in 2..Len(shown) : \A j \in {k - 1} :
                     SortKey(tables, q, shown[j]) # Null /\ SortKey(tables, q, shown[k]) # Null =>
                         IF q.sortDir = "asc"
                         THEN SortKey(tables, q, shown[j]) <= SortKey(tables, q, shown[k])
                         ELSE SortKey(tables, q, shown[k]) <= SortKey(tables, q, shown[j])
<1> DEFINE M     == Matching(tables, q)
           shown == Listed(tables, q, M)
<1>1. q.sortBy \in SortFields /\ q.subject.role \in Roles
    BY DEF Query
<1>2. M \in SUBSET DOMAIN tables.employees
    BY <1>1, MatchingAreEmployees
<1> HIDE DEF M
<1>3. /\ shown \in Seq(M) /\ Len(shown) = Cardinality(M) /\ Cardinality(M) \in Nat
      /\ \A k \in 1..Cardinality(M) : shown[k] \in M
      /\ \A i \in M : /\ Ahead(tables, q, M, i) + 1 \in 1..Cardinality(M)
                      /\ shown[Ahead(tables, q, M, i) + 1] = i
      /\ \A j, k \in 1..Cardinality(M) : j < k <=> Comes(tables, q, shown[j], shown[k])
    BY <1>1, <1>2, ListIsSorted
<1> HIDE DEF shown
<1>4. Range(shown) = M
    <2>1. DOMAIN shown = 1..Cardinality(M)
        BY <1>3
    <2>2. \A i \in M : \E k \in 1..Cardinality(M) : shown[k] = i
        BY <1>3
    <2> QED BY <1>3, <2>1, <2>2 DEF Range
<1>5. ASSUME NEW k \in 2..Len(shown), NEW j \in {k - 1},
             SortKey(tables, q, shown[j]) # Null, SortKey(tables, q, shown[k]) # Null
      PROVE  IF q.sortDir = "asc" THEN SortKey(tables, q, shown[j]) <= SortKey(tables, q, shown[k])
             ELSE SortKey(tables, q, shown[k]) <= SortKey(tables, q, shown[j])
    <2>1. j \in 1..Cardinality(M) /\ k \in 1..Cardinality(M) /\ j < k
        BY <1>3
    <2>2. /\ Comes(tables, q, shown[j], shown[k])
          /\ shown[j] \in DOMAIN tables.employees /\ shown[k] \in DOMAIN tables.employees
        BY <1>2, <1>3, <2>1
    <2> QED BY <1>1, <1>5, <2>2, NeighboursAreInOrder
<1> QED BY <1>3, <1>4, <1>5 DEF M, shown

\* The pages of any list, in any order and of any size, show everybody it is about exactly
\* once and nobody else, in that order, and the page after the last is empty; a manager's
\* list is everybody whose way up passes them (src/repositories/employees.ts: id last, or
\* page 2 repeats somebody from page 1).
THEOREM PagesCoverEverybody == Spec => []PagesCoverTheList
<1>1. ASSUME IInv, NEW q \in Queries, NEW size \in {2, 3}
      PROVE  LET answer(n) == ListEmployees(db, q, n, size)
                 total     == answer(1).total
                 pages     == [n \in 1..TotalPages(total, size) |-> answer(n)]
                 shown     == FlattenSeq([n \in DOMAIN pages |-> pages[n].rows])
             IN  IF \E n \in 1..Cardinality(People) : answer(n) = Failed
                 THEN \E i \in Matching(db, q) : ~Convertible(db, i, q.asOf)
                 ELSE /\ Len(shown) = total /\ Range(shown) = Matching(db, q)
                      /\ Cardinality(Range(shown)) = total
                      /\ \A n \in DOMAIN pages : pages[n].total = total
                      /\ answer(Len(pages) + 1) = [rows |-> <<>>, total |-> total]
                      /\ q.subject.role = "MANAGER" =>
                            Team(db, q.subject.employee) =
                                {i \in Ids : q.subject.employee \in UpFrom(i)}
                      /\ \A k \in 2..Len(shown) : \A j \in {k - 1} :
                            SortKey(db, q, shown[j]) # Null /\ SortKey(db, q, shown[k]) # Null =>
                                IF q.sortDir = "asc"
                                THEN SortKey(db, q, shown[j]) <= SortKey(db, q, shown[k])
                                ELSE SortKey(db, q, shown[k]) <= SortKey(db, q, shown[j])
    <2> DEFINE answer(n) == ListEmployees(db, q, n, size)
               M     == Matching(db, q)
               list  == Listed(db, q, M)
               total == answer(1).total
               P     == TotalPages(total, size)
               pages == [n \in 1..P |-> answer(n)]
               shown == FlattenSeq([n \in DOMAIN pages |-> pages[n].rows])
               failed == \E n \in 1..Cardinality(People) : answer(n) = Failed
               covered ==
                   /\ Len(shown) = total /\ Range(shown) = M
                   /\ Cardinality(Range(shown)) = total
                   /\ \A n \in DOMAIN pages : pages[n].total = total
                   /\ answer(Len(pages) + 1) = [rows |-> <<>>, total |-> total]
                   /\ q.subject.role = "MANAGER" =>
                         Team(db, q.subject.employee) = {i \in Ids : q.subject.employee \in UpFrom(i)}
                   /\ \A k \in 2..Len(shown) : \A j \in {k - 1} :
                         SortKey(db, q, shown[j]) # Null /\ SortKey(db, q, shown[k]) # Null =>
                             IF q.sortDir = "asc" THEN SortKey(db, q, shown[j]) <= SortKey(db, q, shown[k])
                             ELSE SortKey(db, q, shown[k]) <= SortKey(db, q, shown[j])
    <2>1. IsCompany(db) /\ q \in Query /\ size \in Nat \ {0}
        BY <1>1, ScreensConstants DEF IInv
    <2>2. ASSUME failed PROVE \E i \in M : ~Convertible(db, i, q.asOf)
        <3>1. PICK n \in 1..Cardinality(People) : answer(n) = Failed
            BY <2>2
        <3>2. n \in Nat \ {0}
            BY PayrollConstants, FS_CardinalityType
        <3>3. \E i \in M : ~Convertible(db, i, q.asOf)
            <4> HIDE DEF answer, M
            <4>1. ListEmployees(db, q, n, size) = Failed
                BY <3>1 DEF answer
            <4> QED BY <2>1, <3>2, <4>1, PageIsAnswered DEF M
        <3> QED BY <3>3
    <2>3. ASSUME ~failed PROVE covered
        <3>1. /\ total = Cardinality(M) /\ total \in Nat
              /\ \A n \in 1..P : answer(n).total = total
              /\ answer(P + 1) = [rows |-> <<>>, total |-> total]
              /\ P \in Nat
              /\ FlattenSeq([n \in 1..P |-> answer(n).rows]) = list
            BY <2>1, <2>3, ListIsCovered
        <3>2. /\ Len(list) = Cardinality(M) /\ Range(list) = M
              /\ \A k \in 2..Len(list) : \A j \in {k - 1} :
                    SortKey(db, q, list[j]) # Null /\ SortKey(db, q, list[k]) # Null =>
                        IF q.sortDir = "asc" THEN SortKey(db, q, list[j]) <= SortKey(db, q, list[k])
                        ELSE SortKey(db, q, list[k]) <= SortKey(db, q, list[j])
            BY <2>1, ListHasEverybody
        <3>3. Team(db, q.subject.employee) = {i \in Ids : q.subject.employee \in UpFrom(i)}
            BY <2>1, TeamIsUnderManager
        <3> HIDE DEF answer, M, list, total, P
        <3>4. DOMAIN pages = 1..P /\ Len(pages) = P /\ \A n \in 1..P : pages[n] = answer(n)
            BY <3>1
        <3>5. [n \in DOMAIN pages |-> pages[n].rows] = [n \in 1..P |-> answer(n).rows]
            BY <3>4
        <3>6. shown = list
            BY <3>1, <3>5
        <3> HIDE DEF shown, pages
        <3>7. \A n \in DOMAIN pages : pages[n].total = total
            BY <3>1, <3>4
        <3>8. answer(Len(pages) + 1) = [rows |-> <<>>, total |-> total]
            BY <3>1, <3>4
        <3> QED BY <3>1, <3>2, <3>3, <3>6, <3>7, <3>8
    <2>4. IF failed THEN \E i \in M : ~Convertible(db, i, q.asOf) ELSE covered
        <3> HIDE DEF failed, covered, M
        <3> QED BY <2>2, <2>3
    <2> QED BY <2>4
<1>2. IInv => PagesCoverTheList
    BY <1>1 DEF PagesCoverTheList
<1> QED BY <1>2, Invariantly, PTL

-----------------------------------------------------------------------------
(* Percentiles *)

\* What percentile_cont sorts: those who have something, by what they have.
Ascending(of) == OrderBy(DOMAIN of, LAMBDA i, j : of[i] < of[j] \/ (of[i] = of[j] /\ i < j))

\* "list" has everybody, nobody after somebody who has more, and so no more before a place
\* who have less, or after it who have more, than there are places.
Ascends(list, of, n) ==
    /\ n \in Nat /\ n = Cardinality(DOMAIN of) /\ Len(list) = n
    /\ \A k \in 1..n : list[k] \in DOMAIN of
    /\ \A j, k \in 1..n : j <= k => of[list[j]] <= of[list[k]]
    /\ \A k \in 1..n :
          LET less == Cardinality({i \in DOMAIN of : of[i] < of[list[k]]})
              more == Cardinality({i \in DOMAIN of : of[i] > of[list[k]]})
          IN  less \in Nat /\ less <= k - 1 /\ more \in Nat /\ more <= n - k

LEMMA AscendingAscends ==
    ASSUME NEW S \in SUBSET Int, IsFiniteSet(S), NEW of \in [S -> Int]
    PROVE  Ascends(Ascending(of), of, Cardinality(S))
<1> DEFINE n == Cardinality(S)
           before(i, j) == of[i] < of[j] \/ (of[i] = of[j] /\ i < j)
           list == OrderBy(S, before)
           R == {p \in S \X S : before(p[1], p[2])}
           at(x, k) == Cardinality({y \in S : before(y, x)}) = k - 1
<1>1. n \in Nat /\ \A i \in S : i \in Int /\ of[i] \in Int
    BY FS_CardinalityType
<1>2. Ascending(of) = list /\ DOMAIN of = S
    BY DEF Ascending
<1>3. \A i, j \in S : <<i, j>> \in R <=> before(i, j)
    OBVIOUS
<1>4. StrictlyOrders(R, S)
    <2> HIDE DEF R
    <2>1. \A x \in S : <<x, x>> \notin R
        BY <1>1, <1>3
    <2>2. \A x, y, z \in S : <<x, y>> \in R /\ <<y, z>> \in R => <<x, z>> \in R
        BY <1>1, <1>3
    <2>3. \A x, y \in S : x # y => <<x, y>> \in R \/ <<y, x>> \in R
        BY <1>1, <1>3
    <2> QED BY <2>1, <2>2, <2>3 DEF StrictlyOrders
<1>5. list = [k \in 1..n |-> CHOOSE x \in S : at(x, k)]
    BY DEF OrderBy
<1>6. \A x \in S : Rank(R, S, x) = Cardinality({y \in S : before(y, x)})
    <2> TAKE x \in S
    <2>1. Below(R, S, x) = {y \in S : before(y, x)}
        BY <1>3 DEF Below
    <2> QED BY <2>1 DEF Rank
<1> HIDE DEF R, before, list
<1>7. ASSUME NEW k \in 1..n PROVE list[k] \in S /\ Rank(R, S, list[k]) = k - 1
    <2>1. list[k] = CHOOSE x \in S : at(x, k)
        BY <1>5
    <2>2. PICK x \in S : Rank(R, S, x) = k - 1
        BY <1>4, EveryRankIsHeld
    <2>4. \E y \in S : at(y, k)
        <3>1. at(x, k)
            BY <1>6, <2>2
        <3> HIDE DEF at
        <3> QED BY <3>1
    <2> HIDE DEF at
    <2>3. list[k] \in S /\ at(list[k], k)
        BY <2>1, <2>4
    <2> QED BY <1>6, <2>3 DEF at
<1>8. list = [k \in 1..n |-> list[k]]
    <2> HIDE DEF at
    <2> QED BY <1>5
<1>9. /\ list \in Seq(S) /\ Len(list) = n
      /\ \A j, k \in 1..n : j < k <=> <<list[j], list[k]>> \in R
    BY <1>4, <1>7, <1>8, SortedByRank
<1>10. ASSUME NEW j \in 1..n, NEW k \in 1..n, j <= k PROVE of[list[j]] <= of[list[k]]
    <2> HIDE DEF n
    <2>3. list[j] \in S /\ list[k] \in S
        BY <1>7
    <2>4. of[list[j]] \in Int /\ of[list[k]] \in Int
        BY <1>1, <2>3
    <2>1. CASE j = k
        BY <2>4, <2>1
    <2>2. CASE j # k
        <3>1. <<list[j], list[k]>> \in R
            BY <1>1, <1>9, <1>10, <2>2
        <3>2. before(list[j], list[k])
            BY <1>3, <2>3, <3>1
        <3> QED BY <2>4, <3>2 DEF before
    <2> QED BY <2>1, <2>2
<1>11. ASSUME NEW k \in 1..n
       PROVE  LET less == Cardinality({i \in S : of[i] < of[list[k]]})
                  more == Cardinality({i \in S : of[i] > of[list[k]]})
              IN  less \in Nat /\ less <= k - 1 /\ more \in Nat /\ more <= n - k
    <2> DEFINE x == list[k]
               Less == {i \in S : of[i] < of[x]}
               More == {i \in S : of[i] > of[x]}
               Ahead_ == Below(R, S, x)
               Rest == S \ Ahead_
    <2>1. x \in S /\ Cardinality(Ahead_) = k - 1
        BY <1>7 DEF Rank
    <2>2. Less \subseteq Ahead_ /\ Ahead_ \subseteq S /\ x \notin Ahead_
        BY <1>1, <1>3, <1>4, <2>1 DEF Below, before, StrictlyOrders
    <2>10. x \in Rest
        BY <2>1, <2>2
    <2>11. ASSUME NEW i \in More PROVE i \in Rest \ {x}
        <3>1. i \in S /\ of[i] > of[x] /\ of[i] \in Int /\ of[x] \in Int
            BY <1>1, <2>1
        <3> HIDE DEF x, More
        <3>2. ~ before(i, x) /\ i # x
            BY <3>1 DEF before
        <3>3. i \notin Ahead_
            BY <1>3, <2>1, <3>1, <3>2 DEF Below
        <3> QED BY <3>1, <3>2, <3>3
    <2>3. More \subseteq Rest \ {x} /\ x \in Rest
        BY <2>10, <2>11
    <2> HIDE DEF x, Less, More, Ahead_
    <2>4. IsFiniteSet(Ahead_) /\ IsFiniteSet(Rest)
        BY <2>2, FS_Subset, FS_Difference
    <2>5. Cardinality(Rest) = n - (k - 1)
        <3>1. S \cap Ahead_ = Ahead_
            BY <2>2
        <3>2. Cardinality(Rest) = Cardinality(S) - Cardinality(S \cap Ahead_)
            BY FS_Difference
        <3> QED BY <2>1, <3>1, <3>2
    <2> HIDE DEF Rest
    <2>6. IsFiniteSet(Rest \ {x}) /\ Cardinality(Rest \ {x}) = n - k
        <3>1. IsFiniteSet(Rest \ {x}) /\ Cardinality(Rest \ {x}) = Cardinality(Rest) - 1
            BY <2>3, <2>4, FS_RemoveElement
        <3> QED BY <1>1, <2>5, <3>1
    <2>7. IsFiniteSet(Less) /\ Cardinality(Less) <= k - 1
        BY <2>1, <2>2, <2>4, FS_Subset
    <2>8. IsFiniteSet(More) /\ Cardinality(More) <= n - k
        BY <2>3, <2>6, FS_Subset
    <2>9. Cardinality(Less) \in Nat /\ Cardinality(More) \in Nat
        BY <2>7, <2>8, FS_CardinalityType
    <2> QED BY <2>7, <2>8, <2>9 DEF Less, More, x
<1> QED BY <1>1, <1>2, <1>7, <1>9, <1>10, <1>11 DEF Ascends

\* Rounding to a quarter's whole keeps order, and what is whole already.
LEMMA RoundEvenKeepsOrder ==
    ASSUME NEW x \in Int, NEW y \in Int, x <= y
    PROVE  /\ RoundEven(x, 4) \in Int /\ RoundEven(y, 4) \in Int
           /\ RoundEven(x, 4) <= RoundEven(y, 4)
BY DEF RoundEven

LEMMA RoundEvenOfWhole ==
    ASSUME NEW x \in Int
    PROVE  RoundEven(4 * x, 4) = x
BY DEF RoundEven

\* Where a percentile stands: between the a-th and the b-th, r quarters on from the a-th.
StandsAt(of, n, quarters, a, b, r) ==
    LET list == Ascending(of)
        low  == of[list[a]]
        high == of[list[b]]
    IN  /\ a \in 1..n /\ b = (IF a < n THEN a + 1 ELSE n) /\ r \in 0..3
        /\ 4 * (a - 1) + r = quarters * (n - 1)
        /\ Percentile(of, quarters) = RoundEven(4 * low + r * (high - low), 4)

LEMMA PercentileStands ==
    ASSUME NEW S \in SUBSET Int, IsFiniteSet(S), S # {}, NEW of \in [S -> Int],
           NEW quarters \in 0..4
    PROVE  \E a, b, r \in Nat : StandsAt(of, Cardinality(S), quarters, a, b, r)
<1> DEFINE n    == Cardinality(S)
           list == Ascending(of)
           at   == quarters * (n - 1)
           a    == at \div 4 + 1
           r    == at % 4
           b    == Min({at \div 4 + 2, n})
<1>1. n \in Nat \ {0}
    BY FS_CardinalityType, FS_EmptySet
<1>2. Len(list) = n
    BY AscendingAscends DEF Ascends
<1>3. Percentile(of, quarters) = RoundEven(4 * of[list[a]] + r * (of[list[b]] - of[list[a]]), 4)
    BY <1>2 DEF Percentile, Ascending
<1> HIDE DEF n, list
<1>4. at \in Nat /\ at <= 4 * (n - 1)
    <2>1. quarters \in {0, 1, 2, 3, 4}
        OBVIOUS
    <2> QED BY <1>1, <2>1
<1> HIDE DEF at
<1>5. a \in 1..n /\ r \in 0..3 /\ 4 * (a - 1) + r = at
    BY <1>1, <1>4
<1>6. b = IF a < n THEN a + 1 ELSE n
    <2>1. at \div 4 + 2 = a + 1
        BY <1>4
    <2> HIDE DEF a
    <2>2. b = IF a + 1 <= n THEN a + 1 ELSE n
        <3>1. b = Min({a + 1, n})
            BY <2>1
        <3>2. a + 1 \in Int /\ n \in Int
            BY <1>1, <1>5
        <3> HIDE DEF b
        <3> QED BY <3>1, <3>2, Lesser
    <2> QED BY <1>1, <1>5, <2>2
<1>7. a \in Nat /\ b \in Nat /\ r \in Nat
    BY <1>1, <1>5, <1>6
<1> HIDE DEF a, b, r
<1>8. StandsAt(of, n, quarters, a, b, r)
    BY <1>3, <1>5, <1>6 DEF StandsAt, at, list
<1> QED BY <1>7, <1>8 DEF n
\* What is between two whole numbers is rounded to between them.
LEMMA QuarterIsBetween ==
    ASSUME NEW low \in Int, NEW high \in Int, low <= high, NEW r \in 0..3
    PROVE  LET v == 4 * low + r * (high - low)
           IN  v \in Int /\ RoundEven(v, 4) \in Int /\ low <= RoundEven(v, 4) /\ RoundEven(v, 4) <= high
<1> DEFINE v == 4 * low + r * (high - low)
<1>1. v \in Int /\ 4 * low <= v /\ v <= 4 * high
    <2>1. r \in {0, 1, 2, 3}
        OBVIOUS
    <2> QED BY <2>1
<1> HIDE DEF v
<1>2. 4 * low \in Int /\ 4 * high \in Int
    OBVIOUS
<1>3. /\ RoundEven(v, 4) \in Int
      /\ RoundEven(4 * low, 4) <= RoundEven(v, 4) /\ RoundEven(v, 4) <= RoundEven(4 * high, 4)
    BY <1>1, <1>2, RoundEvenKeepsOrder
<1>4. RoundEven(4 * low, 4) = low /\ RoundEven(4 * high, 4) = high
    BY RoundEvenOfWhole
<1> QED BY <1>1, <1>3, <1>4 DEF v

\* A percentile is between two that people have.
LEMMA PercentileIsBetween ==
    ASSUME NEW S \in SUBSET Int, IsFiniteSet(S), NEW of \in [S -> Int],
           NEW quarters, NEW a \in Nat, NEW b \in Nat, NEW r \in Nat,
           StandsAt(of, Cardinality(S), quarters, a, b, r)
    PROVE  LET list == Ascending(of)
               n    == Cardinality(S)
               p    == Percentile(of, quarters)
           IN  /\ n \in Nat /\ a \in 1..n /\ b \in 1..n /\ list[a] \in S /\ list[b] \in S
               /\ of[list[a]] \in Int /\ of[list[b]] \in Int /\ p \in Int
               /\ of[list[a]] <= p /\ p <= of[list[b]]
<1> DEFINE list == Ascending(of)
           n    == Cardinality(S)
           p    == Percentile(of, quarters)
           low  == of[list[a]]
           high == of[list[b]]
<1>1. Ascends(list, of, n)
    BY AscendingAscends
<1>2. /\ a \in 1..n /\ b = (IF a < n THEN a + 1 ELSE n) /\ r \in 0..3
      /\ p = RoundEven(4 * low + r * (high - low), 4)
    BY DEF StandsAt
<1> HIDE DEF list, n, p
<1>3. n \in Nat /\ DOMAIN of = S
    BY <1>1 DEF Ascends
<1>4. b \in 1..n /\ a <= b
    BY <1>2, <1>3
<1>5. list[a] \in S /\ list[b] \in S /\ low <= high
    BY <1>1, <1>2, <1>3, <1>4 DEF Ascends
<1>6. low \in Int /\ high \in Int
    BY <1>5
<1> HIDE DEF low, high
<1>7. p \in Int /\ low <= p /\ p <= high
    BY <1>2, <1>5, <1>6, QuarterIsBetween
<1> QED BY <1>2, <1>3, <1>4, <1>5, <1>6, <1>7 DEF list, n, p, low, high

\* Somebody has no more than a percentile, and somebody no less.
LEMMA PercentileIsWithin ==
    ASSUME NEW S \in SUBSET Int, IsFiniteSet(S), S # {}, NEW of \in [S -> Int],
           NEW quarters \in 0..4
    PROVE  /\ Percentile(of, quarters) \in Int
           /\ \E i \in S : of[i] <= Percentile(of, quarters)
           /\ \E i \in S : of[i] >= Percentile(of, quarters)
<1>1. PICK a, b, r \in Nat : StandsAt(of, Cardinality(S), quarters, a, b, r)
    BY PercentileStands
<1> DEFINE list == Ascending(of)
           p    == Percentile(of, quarters)
<1>2. /\ list[a] \in S /\ list[b] \in S /\ p \in Int
      /\ of[list[a]] \in Int /\ of[list[b]] \in Int
      /\ of[list[a]] <= p /\ p <= of[list[b]]
    BY <1>1, PercentileIsBetween
<1> HIDE DEF list, p
<1>3. p \in Int /\ (\E i \in S : of[i] <= p) /\ (\E i \in S : of[i] >= p)
    BY <1>2
<1> QED BY <1>3 DEF p

\* A higher percentile is not less.
LEMMA PercentilesRise ==
    ASSUME NEW S \in SUBSET Int, IsFiniteSet(S), S # {}, NEW of \in [S -> Int],
           NEW x \in 0..4, NEW y \in 0..4, x <= y
    PROVE  Percentile(of, x) <= Percentile(of, y)
<1> DEFINE list == Ascending(of)
           n    == Cardinality(S)
           p    == Percentile(of, x)
           q    == Percentile(of, y)
<1>1. PICK a, b, r \in Nat : StandsAt(of, n, x, a, b, r)
    BY PercentileStands
<1>2. PICK c, d, s \in Nat : StandsAt(of, n, y, c, d, s)
    BY PercentileStands
<1>3. /\ a \in 1..n /\ b \in 1..n /\ of[list[a]] \in Int /\ of[list[b]] \in Int /\ p \in Int
      /\ p <= of[list[b]]
    BY <1>1, PercentileIsBetween
<1>4. /\ n \in Nat /\ c \in 1..n /\ d \in 1..n /\ of[list[c]] \in Int /\ of[list[d]] \in Int
      /\ q \in Int /\ of[list[c]] <= q
    BY <1>2, PercentileIsBetween
<1>5. /\ b = (IF a < n THEN a + 1 ELSE n) /\ r \in 0..3 /\ 4 * (a - 1) + r = x * (n - 1)
      /\ p = RoundEven(4 * of[list[a]] + r * (of[list[b]] - of[list[a]]), 4)
    BY <1>1 DEF StandsAt
<1>6. /\ d = (IF c < n THEN c + 1 ELSE n) /\ s \in 0..3 /\ 4 * (c - 1) + s = y * (n - 1)
      /\ q = RoundEven(4 * of[list[c]] + s * (of[list[d]] - of[list[c]]), 4)
    BY <1>2 DEF StandsAt
<1>7. Ascends(list, of, n)
    BY AscendingAscends
<1> HIDE DEF list, n, p, q
<1>8. \A j, k \in 1..n : j <= k => of[list[j]] <= of[list[k]]
    BY <1>7 DEF Ascends
<1>9. x * (n - 1) <= y * (n - 1)
    <2>1. x \in {0, 1, 2, 3, 4} /\ y \in {0, 1, 2, 3, 4} /\ n - 1 \in Nat
        BY <1>3, <1>4
    <2> QED BY <2>1
<1>10. a <= c /\ (a = c => r <= s)
    <2> DEFINE u == x * (n - 1)
               w == y * (n - 1)
    <2>1. u = 4 * (a - 1) + r /\ w = 4 * (c - 1) + s /\ u <= w
        BY <1>5, <1>6, <1>9
    <2> HIDE DEF u, w
    <2> QED BY <1>3, <1>4, <1>5, <1>6, <2>1
<1>11. ASSUME a = c PROVE p <= q
    <2> DEFINE low  == of[list[a]]
               high == of[list[b]]
               v    == 4 * low + r * (high - low)
               w    == 4 * low + s * (high - low)
    <2>1. b = d /\ a <= b /\ low <= high /\ low \in Int /\ high \in Int
        BY <1>3, <1>4, <1>5, <1>6, <1>8, <1>11
    <2>2. p = RoundEven(v, 4) /\ q = RoundEven(w, 4)
        BY <1>5, <1>6, <1>11, <2>1
    <2> HIDE DEF low, high
    <2>3. v \in Int /\ w \in Int /\ v <= w
        <3>1. r \in {0, 1, 2, 3} /\ s \in {0, 1, 2, 3} /\ r <= s
            BY <1>5, <1>6, <1>10, <1>11
        <3> QED BY <2>1, <3>1
    <2> HIDE DEF v, w
    <2> QED BY <2>2, <2>3, RoundEvenKeepsOrder
<1>12. ASSUME a # c PROVE p <= q
    <2>1. b <= c
        BY <1>3, <1>4, <1>5, <1>10, <1>12
    <2>2. of[list[b]] <= of[list[c]]
        BY <1>3, <1>4, <1>8, <2>1
    <2> QED BY <1>3, <1>4, <2>2
<1>13. p <= q
    BY <1>11, <1>12
<1> QED BY <1>13 DEF p, q

\* m divides them: no more than half have less, and no more than half more.
Halves(of, m) ==
    /\ 2 * Cardinality({i \in DOMAIN of : of[i] < m}) <= Cardinality(DOMAIN of)
    /\ 2 * Cardinality({i \in DOMAIN of : of[i] > m}) <= Cardinality(DOMAIN of)

\* Nobody is between a median and the ones it is between.
LEMMA MedianHalves ==
    ASSUME NEW S \in SUBSET Int, IsFiniteSet(S), S # {}, NEW of \in [S -> Int]
    PROVE  Median(of) \in Int /\ Halves(of, Median(of))
<1> DEFINE list == Ascending(of)
           n    == Cardinality(S)
           m    == Percentile(of, 2)
           Less(v) == {i \in S : of[i] < v}
           More(v) == {i \in S : of[i] > v}
<1>1. PICK a, b, r \in Nat : StandsAt(of, n, 2, a, b, r)
    BY PercentileStands
<1>2. /\ n \in Nat /\ a \in 1..n /\ b \in 1..n /\ list[a] \in S /\ list[b] \in S
      /\ of[list[a]] \in Int /\ of[list[b]] \in Int /\ m \in Int
      /\ of[list[a]] <= m /\ m <= of[list[b]]
    BY <1>1, PercentileIsBetween
<1>3. /\ b = (IF a < n THEN a + 1 ELSE n) /\ r \in 0..3 /\ 4 * (a - 1) + r = 2 * (n - 1)
      /\ m = RoundEven(4 * of[list[a]] + r * (of[list[b]] - of[list[a]]), 4)
    BY <1>1 DEF StandsAt
<1>4. Ascends(list, of, n) /\ DOMAIN of = S
    BY AscendingAscends
<1>5. \A k \in 1..n : /\ Cardinality(Less(of[list[k]])) \in Nat
                      /\ Cardinality(Less(of[list[k]])) <= k - 1
                      /\ Cardinality(More(of[list[k]])) \in Nat
                      /\ Cardinality(More(of[list[k]])) <= n - k
    BY <1>4 DEF Ascends
<1>6. Median(of) = m
    BY DEF Median
<1>7. \A i \in S : of[i] \in Int
    OBVIOUS
<1>8. \A v : /\ Less(v) \subseteq S /\ More(v) \subseteq S
             /\ IsFiniteSet(Less(v)) /\ IsFiniteSet(More(v))
    <2> TAKE v
    <2>1. Less(v) \subseteq S /\ More(v) \subseteq S
        OBVIOUS
    <2> HIDE DEF Less, More
    <2> QED BY <2>1, FS_Subset
<1> DEFINE low  == of[list[a]]
           high == of[list[b]]
<1> HIDE DEF n, m, list
<1>9. Less(m) \subseteq Less(high) /\ More(m) \subseteq More(low)
    <2>1. low \in Int /\ high \in Int /\ m \in Int /\ low <= m /\ m <= high
        BY <1>2
    <2> HIDE DEF low, high
    <2>2. \A i \in S : (of[i] < m => of[i] < high) /\ (of[i] > m => of[i] > low)
        BY <1>7, <2>1
    <2> QED BY <2>2
<1> HIDE DEF Less, More
<1>10. /\ Cardinality(Less(m)) \in Nat /\ Cardinality(More(m)) \in Nat
       /\ Cardinality(Less(m)) <= Cardinality(Less(high))
       /\ Cardinality(More(m)) <= Cardinality(More(low))
    BY <1>8, <1>9, FS_Subset, FS_CardinalityType
<1>11. /\ Cardinality(Less(high)) \in Nat /\ Cardinality(Less(high)) <= b - 1
       /\ Cardinality(More(low)) \in Nat /\ Cardinality(More(low)) <= n - a
    BY <1>2, <1>5
<1>12. r \in {0, 2}
    BY <1>2, <1>3
<1>13. ASSUME r = 2 PROVE 2 * Cardinality(Less(m)) <= n /\ 2 * Cardinality(More(m)) <= n
    <2>1. n = 2 * a /\ b = a + 1
        BY <1>2, <1>3, <1>13
    <2> QED BY <1>2, <1>10, <1>11, <2>1
<1>14. ASSUME r = 0 PROVE 2 * Cardinality(Less(m)) <= n /\ 2 * Cardinality(More(m)) <= n
    <2>1. n = 2 * a - 1
        BY <1>2, <1>3, <1>14
    <2>2. m = low
        <3>1. low \in Int /\ high \in Int /\ m = RoundEven(4 * low + 0 * (high - low), 4)
            BY <1>2, <1>3, <1>14
        <3> HIDE DEF low, high
        <3>2. 4 * low + 0 * (high - low) = 4 * low
            BY <3>1
        <3>3. m = RoundEven(4 * low, 4)
            BY <3>1, <3>2
        <3> QED BY <3>1, <3>3, RoundEvenOfWhole
    <2>3. Cardinality(Less(m)) <= a - 1 /\ Cardinality(More(m)) <= n - a
        BY <1>2, <1>5, <2>2
    <2> QED BY <1>2, <1>10, <2>1, <2>3
<1>15. 2 * Cardinality(Less(m)) <= n /\ 2 * Cardinality(More(m)) <= n
    BY <1>12, <1>13, <1>14
<1>16. Halves(of, m)
    BY <1>4, <1>15 DEF Halves, Less, More, n
<1> QED BY <1>2, <1>6, <1>16

-----------------------------------------------------------------------------
(* The overview *)

\* What everybody who is counted and whose pay converts is paid.
UsdOf(tables, q) == [i \in Priced(tables, q) |-> SalaryUsd(tables, i, q.asOf)]

LEMMA CountedArePeople ==
    ASSUME NEW tables, IsCompany(tables), NEW q
    PROVE  /\ Counted(tables, q) \subseteq DOMAIN tables.employees
           /\ Counted(tables, q) \in SUBSET Int /\ IsFiniteSet(Counted(tables, q))
<1>1. Counted(tables, q) \subseteq DOMAIN tables.employees
    BY DEF Counted
<1>2. Counted(tables, q) \subseteq People
    BY <1>1 DEF IsCompany, IsTable
<1>3. IsFiniteSet(Counted(tables, q))
    BY <1>2, PayrollConstants, FS_Subset
<1>4. People \subseteq Int
    BY PayrollConstants
<1> QED BY <1>1, <1>2, <1>3, <1>4

LEMMA PricedAreNumbers ==
    ASSUME NEW tables, IsCompany(tables), NEW q
    PROVE  /\ Priced(tables, q) \subseteq Counted(tables, q)
           /\ Priced(tables, q) \in SUBSET Int /\ IsFiniteSet(Priced(tables, q))
           /\ Cardinality(Priced(tables, q)) \in Nat
           /\ UsdOf(tables, q) \in [Priced(tables, q) -> Int]
<1>1. Priced(tables, q) \subseteq Counted(tables, q)
    BY DEF Priced
<1>2. Priced(tables, q) \in SUBSET Int /\ IsFiniteSet(Priced(tables, q))
    BY <1>1, CountedArePeople, FS_Subset
<1>3. Cardinality(Priced(tables, q)) \in Nat
    BY <1>2, FS_CardinalityType
<1>4. ASSUME NEW i \in Priced(tables, q) PROVE SalaryUsd(tables, i, q.asOf) \in Int
    <2> DEFINE bySalary == [sortBy |-> "salary", asOf |-> q.asOf]
    <2>1. i \in DOMAIN tables.employees /\ bySalary.sortBy \in SortFields
        BY <1>1, CountedArePeople DEF SortFields
    <2>2. SortKey(tables, bySalary, i) = SalaryUsd(tables, i, q.asOf)
        BY DEF SortKey
    <2> HIDE DEF bySalary
    <2>3. SortKey(tables, bySalary, i) \in Int
        BY <2>1, SortKeysAreNumbers
    <2> QED BY <2>2, <2>3
<1>5. UsdOf(tables, q) \in [Priced(tables, q) -> Int]
    BY <1>4 DEF UsdOf
<1> QED BY <1>1, <1>2, <1>3, <1>5

\* A breakdown: its groups' totals and headcounts are those of everybody, and a small group
\* has no median.
BreaksDown(groups, all) ==
    /\ SumOf([g \in DOMAIN groups |-> groups[g].total], DOMAIN groups) = all.total
    /\ SumOf([g \in DOMAIN groups |-> groups[g].headcount], DOMAIN groups) = all.headcount
    /\ \A g \in DOMAIN groups : groups[g].median # Null => groups[g].paidHeadcount >= MinGroup

LEMMA GroupsBreakDown ==
    ASSUME NEW tables, IsCompany(tables), NEW q, NEW by
    PROVE  BreaksDown(Groups(tables, q, by), Overall(tables, q))
<1> DEFINE C      == Counted(tables, q)
           S      == Priced(tables, q)
           usd    == UsdOf(tables, q)
           groups == Groups(tables, q, by)
           G      == {GroupOf(tables, i, by) : i \in C}
           key    == [i \in C |-> GroupOf(tables, i, by)]
           In(g)  == {i \in C : GroupOf(tables, i, by) = g}
           totals == [g \in G |-> groups[g].total]
           counts == [g \in G |-> groups[g].headcount]
           ones   == [i \in C |-> 1]
           count  == [t \in SUBSET C |-> Cardinality(t)]
<1>1. /\ S \subseteq C /\ IsFiniteSet(S) /\ IsFiniteSet(C) /\ usd \in [S -> Int]
      /\ ones \in [C -> Int]
    BY CountedArePeople, PricedAreNumbers
<1>2. DOMAIN groups = G
    BY DEF Groups
<1>3. \A g \in G : /\ groups[g].headcount = Cardinality(In(g))
                   /\ groups[g].paidHeadcount = Cardinality(In(g) \cap DOMAIN usd)
                   /\ groups[g].total = SumOf(usd, In(g) \cap DOMAIN usd)
                   /\ groups[g].median # Null => Cardinality(In(g) \cap DOMAIN usd) >= MinGroup
    BY DEF Groups, UsdOf
<1>4. /\ Overall(tables, q).total = SumOf(usd, S)
      /\ Overall(tables, q).headcount = Cardinality(C)
    BY DEF Overall, UsdOf
<1> HIDE DEF C, S, usd, groups
<1>5. G = {key[i] : i \in C} /\ (\A i \in C : key[i] \in G) /\ \A i \in S : key[i] \in G
    BY <1>1
<1>6. IsFiniteSet(G)
    <2> HIDE DEF key, G
    <2> QED BY <1>1, <1>5, ImageIsFinite
<1>7. SumOf(totals, G) = SumOf(usd, S)
    <2>1. PICK total : Additive(total, S, usd)
        BY <1>1, SumExists
    <2>2. ASSUME NEW g \in G PROVE groups[g].total = total[{i \in S : key[i] = g}]
        <3> DEFINE part == {i \in S : key[i] = g}
        <3>1. part = In(g) \cap DOMAIN usd
            BY <1>1
        <3>2. part \in SUBSET S
            OBVIOUS
        <3>3. groups[g].total = SumOf(usd, part)
            <4> HIDE DEF part
            <4> QED BY <1>3, <3>1
        <3> HIDE DEF part
        <3>4. SumOf(usd, part) = total[part]
            BY <1>1, <2>1, <3>2, SumIsTotal
        <3> QED BY <3>3, <3>4 DEF part
    <2>3. totals = [g \in G |-> total[{i \in S : key[i] = g}]]
        BY <2>2
    <2> HIDE DEF totals, G, key
    <2>4. PerGroup(totals, G, S, key, total)
        BY <2>3 DEF PerGroup
    <2>5. SumOf(totals, G) = total[S]
        BY <1>1, <1>5, <1>6, <2>1, <2>4, SumOfGroups
    <2>6. S \in SUBSET S
        OBVIOUS
    <2>7. SumOf(usd, S) = total[S]
        BY <1>1, <2>1, <2>6, SumIsTotal
    <2> QED BY <2>5, <2>7
<1>8. SumOf(counts, G) = Cardinality(C)
    <2>1. Additive(count, C, ones)
        BY <1>1, CountsAreSums
    <2>2. ASSUME NEW g \in G PROVE groups[g].headcount = count[{i \in C : key[i] = g}]
        <3>1. {i \in C : key[i] = g} = In(g) /\ In(g) \in SUBSET C
            OBVIOUS
        <3> HIDE DEF In
        <3> QED BY <1>3, <3>1
    <2>3. counts = [g \in G |-> count[{i \in C : key[i] = g}]]
        BY <2>2
    <2>4. count[C] = Cardinality(C)
        OBVIOUS
    <2> HIDE DEF counts, G, key, ones, count
    <2>5. PerGroup(counts, G, C, key, count)
        BY <2>3 DEF PerGroup
    <2>6. SumOf(counts, G) = count[C]
        BY <1>1, <1>5, <1>6, <2>1, <2>5, SumOfGroups
    <2> QED BY <2>4, <2>6
<1>9. \A g \in G : groups[g].median # Null => groups[g].paidHeadcount >= MinGroup
    BY <1>3
<1>10. /\ SumOf([g \in DOMAIN groups |-> groups[g].total], DOMAIN groups) = SumOf(usd, S)
       /\ SumOf([g \in DOMAIN groups |-> groups[g].headcount], DOMAIN groups) = Cardinality(C)
    <2>1. /\ [g \in DOMAIN groups |-> groups[g].total] = totals
          /\ [g \in DOMAIN groups |-> groups[g].headcount] = counts
        BY <1>2
    <2> HIDE DEF totals, counts, G
    <2> QED BY <1>2, <1>7, <1>8, <2>1
<1>11. BreaksDown(groups, Overall(tables, q))
    BY <1>2, <1>4, <1>9, <1>10 DEF BreaksDown
<1> QED BY <1>11 DEF groups

\* The quartiles, between the least and the greatest, and the mean: Null all of them if
\* there is nobody.
InOrder(all) ==
    /\ all.min <= all.p25 /\ all.p25 <= all.median
    /\ all.median <= all.p75 /\ all.p75 <= all.max
    /\ all.min <= all.mean /\ all.mean <= all.max

LEMMA RoundOfWhole ==
    ASSUME NEW x \in Int, NEW d \in Nat \ {0}
    PROVE  Round(x * d, d) = x
<1> DEFINE q == Round(x * d, d)
           n == x * d
<1>1. n \in Int
    OBVIOUS
<1> HIDE DEF n
<1>2. q \in Int /\ 2 * n - d < 2 * (d * q) /\ 2 * (d * q) <= 2 * n + d
    BY <1>1, RoundIsNearest DEF n
<1> HIDE DEF q
<1>3. ~(q < x)
    <2>1. SUFFICES ASSUME q < x PROVE FALSE
        OBVIOUS
    <2>2. d * q <= d * (x - 1)
        BY <1>2, <2>1
    <2>3. d * (x - 1) = n - d
        BY DEF n
    <2> QED BY <1>1, <1>2, <2>2, <2>3
<1>4. ~(q > x)
    <2>1. SUFFICES ASSUME q > x PROVE FALSE
        OBVIOUS
    <2>2. d * q >= d * (x + 1)
        BY <1>2, <2>1
    <2>3. d * (x + 1) = n + d
        BY DEF n
    <2> QED BY <1>1, <1>2, <2>2, <2>3
<1>5. q = x
    BY <1>2, <1>3, <1>4
<1> QED BY <1>5 DEF q, n

LEMMA QuartilesAreInOrder ==
    ASSUME NEW tables, IsCompany(tables), NEW q
    PROVE  InOrder(Overall(tables, q))
<1> DEFINE S   == Priced(tables, q)
           usd == UsdOf(tables, q)
           n   == Cardinality(S)
           all == Overall(tables, q)
           total == SumOf(usd, S)
           least == Min(Range(usd))
           most  == Max(Range(usd))
<1>1. S \in SUBSET Int /\ IsFiniteSet(S) /\ n \in Nat /\ usd \in [S -> Int]
    BY PricedAreNumbers
<1>2. IF S = {}
      THEN /\ all.min = Null /\ all.p25 = Null /\ all.median = Null /\ all.p75 = Null
           /\ all.max = Null /\ all.mean = Null
      ELSE /\ all.min = least /\ all.p25 = Percentile(usd, 1) /\ all.median = Percentile(usd, 2)
           /\ all.p75 = Percentile(usd, 3) /\ all.max = most /\ all.mean = Round(total, n)
    BY DEF Overall, UsdOf, Median
<1> HIDE DEF S, usd, n, all
<1>3. ASSUME S = {} PROVE InOrder(all)
    BY <1>2, <1>3 DEF InOrder, Null
<1>4. ASSUME S # {} PROVE InOrder(all)
    <2> DEFINE R == Range(usd)
    <2>1. R = {usd[i] : i \in S}
        BY <1>1 DEF Range
    <2>2. IsFiniteSet(R)
        <3> HIDE DEF R
        <3> QED BY <1>1, <2>1, ImageIsFinite
    <2>3. R \in SUBSET Int /\ R # {}
        BY <1>1, <1>4, <2>1
    <2> HIDE DEF R
    <2>4. /\ Min(R) \in R /\ \A y \in R : Min(R) <= y
          /\ Max(R) \in R /\ \A y \in R : y <= Max(R)
        BY <2>2, <2>3, MinIsLeast, MaxIsGreatest
    <2>5. /\ least \in Int /\ most \in Int
          /\ \A i \in S : usd[i] \in Int /\ least <= usd[i] /\ usd[i] <= most
        BY <1>1, <2>1, <2>3, <2>4 DEF R
    <2> HIDE DEF least, most
    <2> DEFINE one == 1
               two == 2
               three == 3
    <2>6. /\ one \in 0..4 /\ two \in 0..4 /\ three \in 0..4 /\ one <= two /\ two <= three
        OBVIOUS
    <2>7. all.p25 = Percentile(usd, one) /\ all.median = Percentile(usd, two) /\ all.p75 = Percentile(usd, three)
        BY <1>2, <1>4
    <2> HIDE DEF one, two, three
    <2>8. /\ all.p25 \in Int /\ all.p25 <= all.median /\ all.median <= all.p75 /\ all.p75 \in Int
          /\ \E i \in S : usd[i] <= all.p25
          /\ \E i \in S : usd[i] >= all.p75
        BY <1>1, <1>4, <2>6, <2>7, PercentileIsWithin, PercentilesRise
    <2>9. all.min <= all.p25 /\ all.p75 <= all.max
        <3>1. PICK i \in S : usd[i] <= all.p25
            BY <2>8
        <3>2. PICK j \in S : usd[j] >= all.p75
            BY <2>8
        <3>3. least <= usd[i] /\ usd[i] \in Int /\ usd[j] <= most /\ usd[j] \in Int
            BY <2>5
        <3>4. least <= all.p25 /\ all.p75 <= most
            BY <2>5, <2>8, <3>1, <3>2, <3>3
        <3> QED BY <1>2, <1>4, <3>4
    <2>10. all.min <= all.mean /\ all.mean <= all.max
        <3>1. n \in Nat \ {0}
            BY <1>1, <1>4, FS_EmptySet DEF n
        <3>2. least * n <= total /\ total <= most * n /\ total \in Int
            BY <1>1, <2>5, SumIsWithin, SumIsNumber DEF n
        <3> HIDE DEF total
        <3> DEFINE x == least * n
                   y == most * n
        <3>3. x \in Int /\ y \in Int
            BY <2>5, <3>1
        <3>4. Round(x, n) = least /\ Round(y, n) = most
            BY <2>5, <3>1, RoundOfWhole
        <3>5. x <= total /\ total <= y
            BY <3>2
        <3> HIDE DEF x, y
        <3>6. Round(x, n) <= Round(total, n) /\ Round(total, n) <= Round(y, n)
            BY <3>1, <3>2, <3>3, <3>5, RoundKeepsOrder
        <3> QED BY <1>2, <1>4, <3>4, <3>6
    <2> QED BY <2>8, <2>9, <2>10 DEF InOrder
<1>5. InOrder(all)
    BY <1>3, <1>4
<1> QED BY <1>5 DEF all

\* Everybody between the ends has one bar, and lies within the printed range of it.
LEMMA BucketHolds ==
    ASSUME NEW lo \in Int, NEW hi \in Int, lo < hi, NEW usd \in Int, lo <= usd, usd <= hi
    PROVE  LET k == BucketOf(usd, lo, hi)
           IN  k \in 1..Buckets /\ usd \in Edge(lo, hi, k - 1)..Edge(lo, hi, k)
<1> DEFINE B == Buckets
           D == hi - lo
           x == (usd - lo) * B
           d == x \div D
           k == BucketOf(usd, lo, hi)
<1>1. B \in Nat \ {0} /\ D \in Nat \ {0} /\ usd - lo \in Nat
    BY ScreensConstants
<1>2. k = Min({d + 1, B})
    BY DEF BucketOf
<1> HIDE DEF B, k
<1>3. x \in Nat
    BY <1>1
<1>4. d \in Int /\ D * d <= x /\ x < D * d + D
    <2> HIDE DEF x, D
    <2> QED BY <1>1, <1>3, Quotient
<1>5. d \in Nat
    <2> HIDE DEF x, d, D
    <2>1. SUFFICES ASSUME d < 0 PROVE FALSE
        BY <1>4
    <2>2. D * (d + 1) <= 0
        <3> DEFINE e == d + 1
        <3>1. e \in Int /\ e <= 0 /\ D \in Nat
            BY <1>1, <1>4, <2>1
        <3> HIDE DEF e
        <3>2. D * e <= 0
            BY <3>1, SMT
        <3> QED BY <3>2 DEF e
    <2>3. D * (d + 1) = D * d + D
        BY <1>1, <1>4
    <2>4. D * d \in Int
        BY <1>1, <1>4
    <2> QED BY <1>1, <1>3, <1>4, <2>2, <2>3, <2>4
<1> HIDE DEF d
<1>6. k = (IF d + 1 <= B THEN d + 1 ELSE B)
    <2>1. d + 1 \in Int /\ B \in Int
        BY <1>1, <1>5
    <2> QED BY <1>2, <2>1, Lesser
<1>7. k \in 1..B /\ k - 1 <= d
    BY <1>1, <1>5, <1>6
<1> DEFINE at(j) == lo * B + D * j
<1>8. x = usd * B - lo * B /\ usd * B \in Int /\ lo * B \in Int /\ hi * B \in Int
    BY <1>1
<1>9. at(k - 1) <= usd * B /\ at(k - 1) \in Int /\ at(k) \in Int
    <2>1. D * (k - 1) <= D * d /\ D * (k - 1) \in Int /\ D * k \in Int
        <3> DEFINE e == k - 1
        <3>1. e \in Int /\ e <= d /\ D \in Nat /\ k \in Int
            BY <1>1, <1>5, <1>7
        <3> HIDE DEF D, e
        <3>2. D * e <= D * d /\ D * e \in Int /\ D * k \in Int
            BY <1>5, <3>1, SMT
        <3> QED BY <3>2 DEF e
    <2>2. D * d \in Int
        BY <1>1, <1>5
    <2> DEFINE e == D * d
               l == D * (k - 1)
               h == D * k
    <2>3. e \in Int /\ l \in Int /\ h \in Int /\ l <= e /\ e <= x
        BY <1>4, <2>1, <2>2
    <2>4. at(k - 1) = lo * B + l /\ at(k) = lo * B + h
        OBVIOUS
    <2> HIDE DEF x, D, e, l, h, at
    <2> QED BY <1>3, <1>8, <2>3, <2>4
<1>10. Edge(lo, hi, k - 1) <= usd
    <2>1. Edge(lo, hi, k - 1) = Round(at(k - 1), B)
        BY DEF Edge, B
    <2> DEFINE v == usd * B
               w == at(k - 1)
    <2>2. v \in Int /\ w \in Int /\ w <= v
        BY <1>8, <1>9
    <2>3. Round(v, B) = usd
        BY <1>1, RoundOfWhole
    <2>4. Edge(lo, hi, k - 1) = Round(w, B)
        BY <2>1
    <2> HIDE DEF v, w
    <2> QED BY <1>1, <2>2, <2>3, <2>4, RoundKeepsOrder
<1>11. usd <= Edge(lo, hi, k)
    <2>1. Edge(lo, hi, k) = Round(at(k), B)
        BY DEF Edge, B
    <2>2. ASSUME k = d + 1 PROVE usd <= Edge(lo, hi, k)
        <3> DEFINE v == usd * B
                   w == at(k)
        <3>1. D * k = D * d + D
            <4> HIDE DEF D
            <4> QED BY <1>1, <1>5, <2>2
        <3>2. v \in Int /\ w \in Int /\ v <= w
            <4>1. x < D * k /\ D * k \in Int
                <5> HIDE DEF x, D
                <5> QED BY <1>1, <1>4, <1>7, <3>1
            <4> HIDE DEF x, D
            <4> QED BY <1>8, <1>9, <4>1
        <3>3. Round(v, B) = usd
            BY <1>1, RoundOfWhole
        <3>4. Edge(lo, hi, k) = Round(w, B)
            BY <2>1
        <3> HIDE DEF v, w
        <3> QED BY <1>1, <3>2, <3>3, <3>4, RoundKeepsOrder
    <2>3. ASSUME k = B PROVE usd <= Edge(lo, hi, k)
        <3> DEFINE w == hi * B
        <3>1. at(k) = w
            BY <1>1, <2>3
        <3>2. Round(w, B) = hi
            BY <1>1, RoundOfWhole
        <3> HIDE DEF w, at
        <3> QED BY <2>1, <3>1, <3>2
    <2> QED BY <1>5, <1>6, <2>2, <2>3
<1>12. Edge(lo, hi, k - 1) \in Int /\ Edge(lo, hi, k) \in Int
    <2> HIDE DEF D
    <2>1. Round(at(k - 1), B) \in Int /\ Round(at(k), B) \in Int
        <3> DEFINE v == at(k - 1)
                   w == at(k)
        <3>1. v \in Int /\ w \in Int
            BY <1>9
        <3> HIDE DEF v, w
        <3>2. Round(v, B) \in Int /\ Round(w, B) \in Int
            BY <1>1, <3>1, RoundIsNearest
        <3> QED BY <3>2 DEF v, w
    <2> QED BY <2>1 DEF Edge, B, D
<1>13. k \in 1..B /\ usd \in Edge(lo, hi, k - 1)..Edge(lo, hi, k)
    BY <1>7, <1>10, <1>11, <1>12
<1> QED BY <1>13 DEF B, k

\* The bars count everybody whose pay converts, each in a bar whose printed range they are in.
BarsAddUp(bars, usd) ==
    /\ Cardinality(DOMAIN usd) =
           SumOf([k \in DOMAIN bars |-> bars[k].employees], DOMAIN bars)
    /\ \A k \in DOMAIN bars :
           bars[k].employees <= Cardinality({i \in DOMAIN usd : usd[i] \in bars[k].from..bars[k].to})

LEMMA SumHasTotal ==
    ASSUME NEW S, IsFiniteSet(S), NEW w \in [S -> Int]
    PROVE  \E total : Additive(total, S, w) /\ SumOf(w, S) = total[S]
<1>1. PICK total : Additive(total, S, w)
    BY SumExists
<1>2. S \in SUBSET S
    OBVIOUS
<1>3. SumOf(w, S) = total[S]
    BY <1>1, <1>2, SumIsTotal
<1> QED BY <1>1, <1>3

LEMMA SumOfNothing ==
    ASSUME NEW S, S = {}, NEW w, w = [i \in S |-> w[i]]
    PROVE  SumOf(w, S) = 0
<1>1. IsFiniteSet(S) /\ w \in [S -> Int]
    BY FS_EmptySet
<1>2. PICK total : Additive(total, S, w) /\ SumOf(w, S) = total[S]
    BY <1>1, SumHasTotal
<1>3. total[S] = 0
    BY <1>2 DEF Additive
<1> QED BY <1>2, <1>3

LEMMA DistributionAddsUp ==
    ASSUME NEW tables, IsCompany(tables), NEW q
    PROVE  BarsAddUp(Distribution(tables, q), UsdOf(tables, q))
<1> DEFINE S    == Priced(tables, q)
           usd  == UsdOf(tables, q)
           U    == {SalaryUsd(tables, i, q.asOf) : i \in S}
           lo   == Min(U)
           top  == Max(U)
           hi   == IF top = lo THEN lo + 1 ELSE top
           key  == [i \in S |-> BucketOf(SalaryUsd(tables, i, q.asOf), lo, hi)]
           In(k) == {i \in S : BucketOf(SalaryUsd(tables, i, q.asOf), lo, hi) = k}
           bars == Distribution(tables, q)
           K    == 1..Buckets
           counts == [k \in K |-> bars[k].employees]
           count  == [t \in SUBSET S |-> Cardinality(t)]
           ones   == [i \in S |-> 1]
<1>1. /\ S \in SUBSET Int /\ IsFiniteSet(S) /\ usd \in [S -> Int] /\ ones \in [S -> Int]
      /\ Buckets \in Nat \ {0}
    BY PricedAreNumbers, ScreensConstants
<1>2. usd = [i \in S |-> SalaryUsd(tables, i, q.asOf)]
    BY DEF UsdOf
<1>3. bars = IF S = {} THEN <<>>
             ELSE [k \in K |-> [from |-> Edge(lo, hi, k - 1), to |-> Edge(lo, hi, k),
                                employees |-> Cardinality(In(k))]]
    BY DEF Distribution
<1> HIDE DEF S, usd, bars
<1>4. ASSUME S = {} PROVE BarsAddUp(bars, usd)
    <2> DEFINE none == [k \in DOMAIN bars |-> bars[k].employees]
               nobody == DOMAIN bars
    <2>1. nobody = {}
        BY <1>3, <1>4
    <2>2. none = [k \in nobody |-> none[k]]
        OBVIOUS
    <2> HIDE DEF none, nobody
    <2>3. SumOf(none, nobody) = 0
        BY <2>1, <2>2, SumOfNothing
    <2>4. Cardinality(DOMAIN usd) = 0
        BY <1>1, <1>4, FS_EmptySet
    <2> QED BY <2>1, <2>3, <2>4 DEF BarsAddUp, none, nobody
<1>5. ASSUME S # {} PROVE BarsAddUp(bars, usd)
    <2>1. U = {usd[i] : i \in S} /\ \A i \in S : usd[i] = SalaryUsd(tables, i, q.asOf)
        BY <1>2
    <2>2. IsFiniteSet(U)
        <3> HIDE DEF U
        <3> QED BY <1>1, <2>1, ImageIsFinite
    <2>3. U \in SUBSET Int /\ U # {} /\ \A i \in S : usd[i] \in U
        BY <1>1, <1>5, <2>1
    <2> HIDE DEF U
    <2>4. lo \in U /\ top \in U /\ \A u \in U : lo <= u /\ u <= top
        BY <2>2, <2>3, MinIsLeast, MaxIsGreatest
    <2>5. lo \in Int /\ top \in Int /\ lo <= top
        BY <2>3, <2>4
    <2> HIDE DEF lo, top
    <2>6. hi \in Int /\ lo < hi /\ top <= hi
        BY <2>5
    <2> HIDE DEF hi
    <2>7. ASSUME NEW i \in S
          PROVE  key[i] \in K /\ usd[i] \in Edge(lo, hi, key[i] - 1)..Edge(lo, hi, key[i])
        <3> DEFINE u == usd[i]
        <3>1. u \in Int /\ lo <= u /\ u <= hi
            BY <1>1, <2>3, <2>4, <2>5, <2>6
        <3>2. key[i] = BucketOf(u, lo, hi)
            BY <2>1
        <3> HIDE DEF u, key
        <3>3. BucketOf(u, lo, hi) \in K
              /\ u \in Edge(lo, hi, BucketOf(u, lo, hi) - 1)..Edge(lo, hi, BucketOf(u, lo, hi))
            BY <2>5, <2>6, <3>1, BucketHolds
        <3> QED BY <3>2, <3>3 DEF u
    <2>8. \A k \in K : In(k) = {i \in S : key[i] = k}
        OBVIOUS
    <2> HIDE DEF In, key
    <2>9. /\ DOMAIN bars = K
          /\ \A k \in K : /\ bars[k].employees = Cardinality(In(k))
                          /\ bars[k].from = Edge(lo, hi, k - 1) /\ bars[k].to = Edge(lo, hi, k)
        BY <1>3, <1>5
    <2>10. SumOf(counts, K) = Cardinality(S)
        <3>1. Additive(count, S, ones)
            BY <1>1, CountsAreSums
        <3>2. ASSUME NEW k \in K PROVE bars[k].employees = count[{i \in S : key[i] = k}]
            <4> DEFINE part == {i \in S : key[i] = k}
            <4>1. In(k) = part /\ part \in SUBSET S
                BY <2>8
            <4> HIDE DEF part
            <4>2. count[part] = Cardinality(part)
                BY <4>1
            <4> QED BY <2>9, <4>1, <4>2 DEF part
        <3>3. counts = [k \in K |-> count[{i \in S : key[i] = k}]]
            BY <3>2
        <3>4. count[S] = Cardinality(S)
            OBVIOUS
        <3>5. IsFiniteSet(K)
            BY <1>1, FS_Interval
        <3>6. \A i \in S : key[i] \in K
            BY <2>7
        <3> HIDE DEF counts, K, ones, count
        <3>7. PerGroup(counts, K, S, key, count)
            BY <3>3 DEF PerGroup
        <3>8. SumOf(counts, K) = count[S]
            BY <1>1, <3>1, <3>5, <3>6, <3>7, SumOfGroups
        <3> QED BY <3>4, <3>8
    <2>11. SumOf([k \in DOMAIN bars |-> bars[k].employees], DOMAIN bars) = Cardinality(S)
        <3>1. [k \in DOMAIN bars |-> bars[k].employees] = counts
            BY <2>9
        <3> HIDE DEF counts, K
        <3> QED BY <2>9, <2>10, <3>1
    <2>12. DOMAIN usd = S
        BY <1>1
    <2>13. ASSUME NEW k \in K
           PROVE  bars[k].employees <=
                      Cardinality({i \in DOMAIN usd : usd[i] \in bars[k].from..bars[k].to})
        <3> DEFINE within == {i \in DOMAIN usd : usd[i] \in bars[k].from..bars[k].to}
        <3>1. within \in SUBSET S
            BY <2>12
        <3>2. In(k) \subseteq within
            BY <2>7, <2>8, <2>9, <2>12
        <3> HIDE DEF within
        <3>3. IsFiniteSet(within)
            BY <1>1, <3>1, FS_Subset
        <3>4. Cardinality(In(k)) <= Cardinality(within)
            BY <3>2, <3>3, FS_Subset
        <3> QED BY <2>9, <3>4 DEF within
    <2> HIDE DEF K
    <2>14. Cardinality(DOMAIN usd) = Cardinality(S)
        BY <2>12
    <2> QED BY <2>9, <2>11, <2>13, <2>14 DEF BarsAddUp
<1>6. BarsAddUp(bars, usd)
    BY <1>4, <1>5
<1> QED BY <1>6 DEF bars, usd

\* What the answer is made of.
OverviewOf(tables, q) ==
    [overall      |-> Overall(tables, q),
     byDepartment |-> Groups(tables, q, "department"),
     byCountry    |-> Groups(tables, q, "country"),
     byJobLevel   |-> Groups(tables, q, "jobLevel"),
     distribution |-> Distribution(tables, q)]

\* Who is asked about if no status is: those employed.
Employed(q) == [q EXCEPT !.status = IF @ = All THEN "ACTIVE" ELSE @]

LEMMA OverviewIsAnswered ==
    ASSUME NEW tables, IsCompany(tables), NEW q \in Query
    PROVE  LET answer == Overview(tables, q)
               whole  == OverviewOf(tables, Employed(q))
           IN  IF answer \in {Forbidden, Failed}
               THEN \/ q.subject.role \notin {"HR_ADMIN", "HR_VIEWER"}
                    \/ \E i \in Counted(tables, Employed(q)) : ~Convertible(tables, i, q.asOf)
               ELSE answer = whole
<1> DEFINE e      == Employed(q)
           answer == Overview(tables, q)
           whole  == OverviewOf(tables, e)
           all    == Overall(tables, e)
           none   == {i \in Counted(tables, e) : ~Convertible(tables, i, q.asOf)}
<1>1. e.subject = q.subject /\ e.asOf = q.asOf
    BY DEF Employed, Query
<1>2. answer = IF ~CanSeeAggregates(e.subject) THEN Forbidden
               ELSE IF all.unconvertible > 0 THEN Failed ELSE whole
    BY DEF Overview, OverviewOf, Employed
<1>3. all.unconvertible = Cardinality(none)
    BY <1>1 DEF Overall
<1>4. whole \notin {Forbidden, Failed}
    <2>1. "overall" \in DOMAIN whole
        BY DEF OverviewOf
    <2>2. "overall" \notin DOMAIN Forbidden /\ "overall" \notin DOMAIN Failed
        BY DEF Forbidden, Failed
    <2> QED BY <2>1, <2>2
<1> HIDE DEF answer, whole, all, e
<1>5. ASSUME ~CanSeeAggregates(q.subject)
      PROVE  q.subject.role \notin {"HR_ADMIN", "HR_VIEWER"}
    BY <1>5 DEF CanSeeAggregates, AccessScopeFor
<1>6. ASSUME all.unconvertible > 0
      PROVE  \E i \in Counted(tables, e) : ~Convertible(tables, i, q.asOf)
    <2>1. none # {}
        BY <1>3, <1>6, FS_EmptySet
    <2> QED BY <2>1
<1>7. IF answer \in {Forbidden, Failed}
      THEN \/ q.subject.role \notin {"HR_ADMIN", "HR_VIEWER"}
           \/ \E i \in Counted(tables, e) : ~Convertible(tables, i, q.asOf)
      ELSE answer = whole
    BY <1>1, <1>2, <1>4, <1>5, <1>6
<1> QED BY <1>7 DEF answer, whole, e

\* "o" is an overview of those "e" asks about whose parts add up.
IsWhole(tables, o, e) ==
    /\ \A groups \in {o.byDepartment, o.byCountry, o.byJobLevel} : BreaksDown(groups, o.overall)
    /\ o.overall.paidHeadcount =
           SumOf([k \in DOMAIN o.distribution |-> o.distribution[k].employees],
                 DOMAIN o.distribution)
    /\ \A k \in DOMAIN o.distribution :
           o.distribution[k].employees <=
               Cardinality({i \in Priced(tables, e) : SalaryUsd(tables, i, e.asOf)
                               \in o.distribution[k].from..o.distribution[k].to})
    /\ InOrder(o.overall)

\* What the overview shows is parts of one whole: in every breakdown the totals and the
\* headcounts of the groups add up to those of everybody, the bars count everybody whose pay
\* converts, each within the range printed under it, the quartiles are in order and the mean
\* is between the ends; it is refused only to whom it must be, or over a salary that cannot
\* be converted (src/repositories/statistics.ts).
THEOREM OverviewIsWhole == Spec => []OverviewAddsUp
<1>1. ASSUME IInv, NEW q \in Queries
      PROVE  IF Overview(db, q) \in {Forbidden, Failed}
             THEN \/ q.subject.role \notin {"HR_ADMIN", "HR_VIEWER"}
                  \/ \E i \in Counted(db, Employed(q)) : ~Convertible(db, i, q.asOf)
             ELSE IsWhole(db, Overview(db, q), Employed(q)) /\ Employed(q).asOf = q.asOf
    <2> DEFINE e == Employed(q)
               o == Overview(db, q)
               usd(i) == SalaryUsd(db, i, e.asOf)
               refused == \/ q.subject.role \notin {"HR_ADMIN", "HR_VIEWER"}
                          \/ \E i \in Counted(db, e) : ~Convertible(db, i, q.asOf)
    <2>1. IsCompany(db) /\ q \in Query
        BY <1>1, ScreensConstants DEF IInv
    <2>2. e.asOf = q.asOf
        BY <2>1 DEF Employed, Query
    <2>3. IF o \in {Forbidden, Failed} THEN refused ELSE o = OverviewOf(db, e)
        BY <2>1, OverviewIsAnswered
    <2> HIDE DEF o, e
    <2>4. ASSUME o = OverviewOf(db, e) PROVE IsWhole(db, o, e)
        <3> DEFINE all == Overall(db, e)
                   bars == Distribution(db, e)
        <3>1. /\ o.overall = all /\ o.distribution = bars
              /\ o.byDepartment = Groups(db, e, "department")
              /\ o.byCountry = Groups(db, e, "country")
              /\ o.byJobLevel = Groups(db, e, "jobLevel")
            BY <2>4 DEF OverviewOf
        <3>2. all.paidHeadcount = Cardinality(Priced(db, e))
            BY DEF Overall
        <3>3. /\ DOMAIN UsdOf(db, e) = Priced(db, e)
              /\ \A i \in Priced(db, e) : UsdOf(db, e)[i] = usd(i)
            BY DEF UsdOf
        <3>4. \A k \in DOMAIN bars :
                  {i \in DOMAIN UsdOf(db, e) : UsdOf(db, e)[i] \in bars[k].from..bars[k].to}
                      = {i \in Priced(db, e) : usd(i) \in bars[k].from..bars[k].to}
            <4> HIDE DEF bars, usd
            <4> QED BY <3>3
        <3> HIDE DEF all, bars, usd
        <3>5. BarsAddUp(bars, UsdOf(db, e))
            BY <2>1, DistributionAddsUp DEF bars
        <3>6. InOrder(all)
            BY <2>1, QuartilesAreInOrder DEF all
        <3>7. \A groups \in {o.byDepartment, o.byCountry, o.byJobLevel} : BreaksDown(groups, all)
            <4>1. \A by : BreaksDown(Groups(db, e, by), all)
                BY <2>1, GroupsBreakDown DEF all
            <4> QED BY <3>1, <4>1
        <3>8. /\ all.paidHeadcount = SumOf([k \in DOMAIN bars |-> bars[k].employees], DOMAIN bars)
              /\ \A k \in DOMAIN bars :
                    bars[k].employees <=
                        Cardinality({i \in Priced(db, e) : usd(i) \in bars[k].from..bars[k].to})
            BY <3>2, <3>3, <3>4, <3>5 DEF BarsAddUp
        <3> QED BY <3>1, <3>6, <3>7, <3>8 DEF IsWhole, usd
    <2>5. IF o \in {Forbidden, Failed} THEN refused ELSE IsWhole(db, o, e) /\ e.asOf = q.asOf
        <3> HIDE DEF refused
        <3> QED BY <2>2, <2>3, <2>4
    <2> QED BY <2>5 DEF o, e
<1>2. IInv => OverviewAddsUp
    BY <1>1 DEF OverviewAddsUp, IsWhole, BreaksDown, InOrder, Employed
<1> QED BY <1>2, Invariantly, PTL
-----------------------------------------------------------------------------
(* The pay gap *)

\* Who is compared for a level and a country, and those of them of one gender.
Compared(tables, q, p) == {i \in Comparables(tables, q) : PairOf(tables, i) = p}

Side(tables, q, p, g) == {i \in Compared(tables, q, p) : tables.employees[i].gender = g}

AmountsOf(tables, q, S) == [i \in S |-> PayOn(tables, i, q.asOf).amount]

CellsOf(tables, q) ==
    [p \in {PairOf(tables, i) : i \in Comparables(tables, q)} |-> Cell(tables, q, p)]

\* Those compared are people employed whose gender is known, and are paid.
LEMMA ComparedArePaid ==
    ASSUME NEW tables, IsCompany(tables), NEW q \in Query
    PROVE  /\ Comparables(tables, q) =
                  {i \in Active(tables) : /\ EmployeeFilter(tables, i, q.filter)
                                          /\ PayOn(tables, i, q.asOf) # NoPay
                                          /\ tables.employees[i].gender \in Genders}
           /\ \A i \in Comparables(tables, q) : /\ PairOf(tables, i) \in Pairs
                                                /\ tables.employees[i].gender \in Genders
                                                /\ PayOn(tables, i, q.asOf).amount \in Int
           /\ Comparables(tables, q) \in SUBSET Int /\ IsFiniteSet(Comparables(tables, q))
<1> DEFINE all == Comparables(tables, q)
           e == [q EXCEPT !.status = "ACTIVE"]
<1>1. e.filter = q.filter /\ e.status = "ACTIVE"
    BY DEF Query
<1>2. "ACTIVE" # All
    BY ScreensConstants DEF Statuses
<1>3. Counted(tables, e) = {i \in Active(tables) : EmployeeFilter(tables, i, q.filter)}
    <2> HIDE DEF e
    <2> QED BY <1>1, <1>2 DEF Counted, Active, Passes
<1>4. \A i \in DOMAIN tables.employees :
          /\ tables.employees[i].gender \in Genders \cup {"unrecorded"}
          /\ tables.employees[i].level \in Levels /\ tables.employees[i].country \in Countries
    <2> TAKE i \in DOMAIN tables.employees
    <2>1. tables.employees[i] \in Employee
        BY DEF IsCompany, IsTable
    <2> QED BY <2>1 DEF Employee
<1>5. all = {i \in Counted(tables, e) : /\ PayOn(tables, i, q.asOf) # NoPay
                                        /\ tables.employees[i].gender # "unrecorded"}
    BY DEF Comparables, PaidActive, Paid
<1> HIDE DEF e, all
<1>6. "unrecorded" \notin Genders
    BY DEF Genders
<1>7. Active(tables) \subseteq DOMAIN tables.employees
    BY DEF Active
<1>8. all = {i \in Active(tables) : /\ EmployeeFilter(tables, i, q.filter)
                                    /\ PayOn(tables, i, q.asOf) # NoPay
                                    /\ tables.employees[i].gender \in Genders}
    <2>1. \A i \in Active(tables) :
              tables.employees[i].gender # "unrecorded" <=> tables.employees[i].gender \in Genders
        BY <1>4, <1>6, <1>7
    <2> QED BY <1>3, <1>5, <2>1
<1>9. ASSUME NEW i \in all
      PROVE  /\ PairOf(tables, i) \in Pairs /\ tables.employees[i].gender \in Genders
             /\ PayOn(tables, i, q.asOf).amount \in Int
    <2>1. i \in DOMAIN tables.employees /\ tables.employees[i].gender \in Genders
        BY <1>7, <1>8
    <2>2. PairOf(tables, i) \in Pairs
        BY <1>4, <2>1 DEF PairOf, Pairs
    <2>3. PayOn(tables, i, q.asOf) \in Record
        <3>1. PayOn(tables, i, q.asOf) # NoPay
            BY <1>8
        <3> QED BY <3>1, PayOnType
    <2>4. PayOn(tables, i, q.asOf).amount \in Amounts
        BY <2>3 DEF Record
    <2>5. PayOn(tables, i, q.asOf).amount \in Int
        BY <2>4, PayrollConstants, MoneyConstants DEF Payable
    <2> QED BY <2>1, <2>2, <2>5
<1>10. all \subseteq Counted(tables, e)
    BY <1>5
<1>11. all \in SUBSET Int /\ IsFiniteSet(all)
    BY <1>10, CountedArePeople, FS_Subset
<1> QED BY <1>8, <1>9, <1>11 DEF all

\* A median of a group is published only of one that is large enough, and divides it.
LEMMA GroupMedianHalves ==
    ASSUME NEW tables, IsCompany(tables), NEW q \in Query,
           NEW S \in SUBSET Comparables(tables, q), GenderMedian(tables, q, S) # Null
    PROVE  /\ Cardinality(S) >= MinGroup
           /\ Halves(AmountsOf(tables, q, S), GenderMedian(tables, q, S))
<1> DEFINE of == AmountsOf(tables, q, S)
<1>1. /\ S \in SUBSET Int /\ IsFiniteSet(S)
      /\ \A i \in S : PayOn(tables, i, q.asOf).amount \in Int
    BY ComparedArePaid, FS_Subset
<1>2. of \in [S -> Int]
    BY <1>1 DEF AmountsOf
<1>3. /\ ~(Cardinality(S) < MinGroup) /\ GenderMedian(tables, q, S) = Median(of)
    BY DEF GenderMedian, AmountsOf
<1> HIDE DEF of
<1>4. Cardinality(S) >= MinGroup /\ Cardinality(S) # 0
    BY <1>1, <1>3, ScreensConstants, FS_CardinalityType
<1>5. S # {}
    BY <1>4, FS_EmptySet
<1>6. Halves(of, Median(of))
    BY <1>1, <1>2, <1>5, MedianHalves
<1> QED BY <1>3, <1>4, <1>6 DEF of

\* What a cell has of each group.
IsCell(tables, q, p, cell) ==
    LET median(g) == GenderMedian(tables, q, Side(tables, q, p, g))
    IN  /\ cell.currencies = {PayOn(tables, i, q.asOf).currency : i \in Compared(tables, q, p)}
        /\ cell.reference = median(Reference)
        /\ DOMAIN cell.groups = {tables.employees[i].gender : i \in Compared(tables, q, p)}
        /\ \A g \in DOMAIN cell.groups :
              /\ cell.groups[g].median = median(g)
              /\ cell.groups[g].gap = IF median(g) = Null \/ median(Reference) = Null THEN {}
                                      ELSE {median(g) - median(Reference)}

LEMMA CellFields ==
    ASSUME NEW tables, NEW q, NEW p
    PROVE  IsCell(tables, q, p, Cell(tables, q, p))
BY DEF IsCell, Cell, Side, Compared

\* What is shown, and what is counted for not being shown, is every cell there is.
LEMMA ReportIsWhole ==
    ASSUME NEW cell, NEW unrecorded, IsFiniteSet(DOMAIN cell)
    PROVE  LET gap == Report(cell, unrecorded)
           IN  /\ DOMAIN gap.cells \subseteq DOMAIN cell
               /\ \A p \in DOMAIN gap.cells : /\ gap.cells[p] = cell[p]
                                              /\ ~(Cardinality(cell[p].currencies) > 1)
               /\ Cardinality(DOMAIN gap.cells) + gap.suppressedCells + gap.mixedCurrencyCells
                      = Cardinality(DOMAIN cell)
<1> DEFINE D == DOMAIN cell
           mixed == {p \in D : Cardinality(cell[p].currencies) > 1}
           shown == {p \in D \ mixed : Publishable(cell[p])}
           gap == Report(cell, unrecorded)
<1>1. /\ gap.cells = [p \in shown |-> cell[p]]
      /\ gap.suppressedCells = Cardinality(D) - Cardinality(mixed) - Cardinality(shown)
      /\ gap.mixedCurrencyCells = Cardinality(mixed)
    BY DEF Report, Restrict
<1>2. mixed \subseteq D /\ shown \subseteq D
    OBVIOUS
<1>3. \A p \in shown : p \in D /\ ~(Cardinality(cell[p].currencies) > 1)
    OBVIOUS
<1> HIDE DEF D, mixed, shown, gap
<1>4. IsFiniteSet(D) /\ IsFiniteSet(mixed) /\ IsFiniteSet(shown)
    BY <1>2, FS_Subset DEF D
<1>5. Cardinality(D) \in Nat /\ Cardinality(mixed) \in Nat /\ Cardinality(shown) \in Nat
    BY <1>4, FS_CardinalityType
<1>6. DOMAIN gap.cells = shown
    BY <1>1
<1>7. Cardinality(DOMAIN gap.cells) + gap.suppressedCells + gap.mixedCurrencyCells = Cardinality(D)
    <2>1. Cardinality(DOMAIN gap.cells) = Cardinality(shown)
        BY <1>6
    <2> QED BY <1>1, <1>5, <2>1
<1> QED BY <1>1, <1>2, <1>3, <1>6, <1>7 DEF D, gap

\* m divides what those of S are paid.
Halved(tables, q, S, m) ==
    /\ 2 * Cardinality({i \in S : PayOn(tables, i, q.asOf).amount < m}) <= Cardinality(S)
    /\ 2 * Cardinality({i \in S : PayOn(tables, i, q.asOf).amount > m}) <= Cardinality(S)

LEMMA HalvedAmounts ==
    ASSUME NEW tables, NEW q, NEW S, NEW m, Halves(AmountsOf(tables, q, S), m)
    PROVE  Halved(tables, q, S, m)
<1> DEFINE of == AmountsOf(tables, q, S)
           pay(i) == PayOn(tables, i, q.asOf).amount
<1>1. DOMAIN of = S /\ \A i \in S : of[i] = pay(i)
    BY DEF AmountsOf
<1> HIDE DEF of, pay
<1>2. /\ {i \in DOMAIN of : of[i] < m} = {i \in S : pay(i) < m}
      /\ {i \in DOMAIN of : of[i] > m} = {i \in S : pay(i) > m}
    BY <1>1
<1>3. /\ 2 * Cardinality({i \in S : pay(i) < m}) <= Cardinality(S)
      /\ 2 * Cardinality({i \in S : pay(i) > m}) <= Cardinality(S)
    BY <1>1, <1>2 DEF Halves, of
<1> QED BY <1>3 DEF Halved, pay

\* "cell" compares enough people, all paid in one currency, and says of every gap what it is
\* the difference of.
IsComparison(tables, q, p, cell) ==
    /\ Cardinality({PayOn(tables, i, q.asOf).currency : i \in Compared(tables, q, p)}) = 1
    /\ \A g \in DOMAIN cell.groups :
          /\ g \in Genders
          /\ cell.groups[g].gap # {} =>
                /\ Cardinality(Side(tables, q, p, g)) >= MinGroup
                /\ Cardinality(Side(tables, q, p, Reference)) >= MinGroup
                /\ Halved(tables, q, Side(tables, q, p, g), cell.groups[g].median)
                /\ Halved(tables, q, Side(tables, q, p, Reference), cell.reference)
                /\ cell.groups[g].gap = {cell.groups[g].median - cell.reference}

LEMMA CellIsComparison ==
    ASSUME NEW tables, IsCompany(tables), NEW q \in Query,
           NEW p, Compared(tables, q, p) # {},
           ~(Cardinality(Cell(tables, q, p).currencies) > 1)
    PROVE  IsComparison(tables, q, p, Cell(tables, q, p))
<1> DEFINE cell == Cell(tables, q, p)
           S == Compared(tables, q, p)
           currency == [i \in S |-> PayOn(tables, i, q.asOf).currency]
           currencies == {currency[i] : i \in S}
           median(g) == GenderMedian(tables, q, Side(tables, q, p, g))
           halved(g) == Halved(tables, q, Side(tables, q, p, g), median(g))
           enough(g) == Cardinality(Side(tables, q, p, g)) >= MinGroup
<1>0. IsCell(tables, q, p, cell)
    BY CellFields
<1> HIDE DEF cell
<1>1. /\ {PayOn(tables, i, q.asOf).currency : i \in S} = currencies
      /\ cell.currencies = currencies
    BY <1>0 DEF IsCell
<1>2. /\ cell.reference = median(Reference)
      /\ DOMAIN cell.groups = {tables.employees[i].gender : i \in S}
      /\ \A g \in DOMAIN cell.groups :
            /\ cell.groups[g].median = median(g)
            /\ cell.groups[g].gap = IF median(g) = Null \/ median(Reference) = Null THEN {}
                                    ELSE {median(g) - median(Reference)}
    BY <1>0 DEF IsCell
<1>3. S \subseteq Comparables(tables, q)
    BY DEF Compared
<1>4. \A g : Side(tables, q, p, g) \in SUBSET Comparables(tables, q)
    BY DEF Side, Compared
<1>5. ASSUME NEW g, median(g) # Null PROVE enough(g) /\ halved(g)
    <2> DEFINE T == Side(tables, q, p, g)
    <2>1. T \in SUBSET Comparables(tables, q) /\ GenderMedian(tables, q, T) # Null
        BY <1>4, <1>5
    <2> HIDE DEF T
    <2>2. /\ Cardinality(T) >= MinGroup
          /\ Halves(AmountsOf(tables, q, T), GenderMedian(tables, q, T))
        BY <2>1, GroupMedianHalves
    <2>3. Halved(tables, q, T, GenderMedian(tables, q, T))
        BY <2>2, HalvedAmounts
    <2> QED BY <2>2, <2>3 DEF T
<1> HIDE DEF cell, S, median
<1>6. Cardinality(currencies) = 1
    <2>1. IsFiniteSet(S)
        BY <1>3, ComparedArePaid, FS_Subset
    <2>2. IsFiniteSet(currencies)
        <3> HIDE DEF currency
        <3> QED BY <2>1, ImageIsFinite
    <2>3. currencies # {}
        BY DEF S
    <2> HIDE DEF currencies
    <2>4. Cardinality(currencies) \in Nat /\ Cardinality(currencies) # 0
        BY <2>2, <2>3, FS_CardinalityType, FS_EmptySet
    <2>5. ~(Cardinality(currencies) > 1)
        BY <1>1 DEF cell
    <2> QED BY <2>4, <2>5
<1> HIDE DEF currencies, halved, enough
<1>7. ASSUME NEW g \in DOMAIN cell.groups
      PROVE  /\ g \in Genders
             /\ cell.groups[g].gap # {} =>
                   /\ enough(g) /\ enough(Reference) /\ halved(g) /\ halved(Reference)
                   /\ cell.groups[g].gap = {median(g) - median(Reference)}
    <2>1. g \in Genders
        BY <1>2, <1>3, ComparedArePaid
    <2> QED BY <1>2, <1>5, <2>1
<1>8. IsComparison(tables, q, p, cell)
    BY <1>1, <1>2, <1>6, <1>7 DEF IsComparison, S, halved, enough
<1> QED BY <1>8 DEF cell

\* What the answer about the gap shows is publishable, and it leaves no cell uncounted.
LEMMA GapIsAnswered ==
    ASSUME NEW tables, IsCompany(tables), NEW q \in Query
    PROVE  LET gap == PayGap(tables, q)
           IN  IF gap = Forbidden THEN q.subject.role \notin {"HR_ADMIN", "HR_VIEWER"}
               ELSE /\ \A p \in DOMAIN gap.cells : IsComparison(tables, q, p, gap.cells[p])
                    /\ Cardinality(DOMAIN gap.cells) + gap.suppressedCells + gap.mixedCurrencyCells
                           = Cardinality({p \in Pairs : Compared(tables, q, p) # {}})
<1> DEFINE gap  == PayGap(tables, q)
           cell == CellsOf(tables, q)
           some == Comparables(tables, q)
           pair == [i \in some |-> PairOf(tables, i)]
           unrecorded == PaidActive(tables, q) \ some
           report == Report(cell, unrecorded)
           pairs == {p \in Pairs : Compared(tables, q, p) # {}}
<1>1. gap = IF ~CanSeeAggregates(q.subject) THEN Forbidden ELSE report
    BY DEF PayGap, CellsOf
<1>2. report # Forbidden
    <2>1. "cells" \in DOMAIN report
        BY DEF Report
    <2>2. "cells" \notin DOMAIN Forbidden
        BY DEF Forbidden
    <2> QED BY <2>1, <2>2
<1>3. ASSUME ~CanSeeAggregates(q.subject)
      PROVE  q.subject.role \notin {"HR_ADMIN", "HR_VIEWER"}
    BY <1>3 DEF CanSeeAggregates, AccessScopeFor
<1>4. DOMAIN cell = {pair[i] : i \in some} /\ \A p \in DOMAIN cell : cell[p] = Cell(tables, q, p)
    BY DEF CellsOf
<1> HIDE DEF cell
<1>5. IsFiniteSet(DOMAIN cell)
    <2>1. IsFiniteSet(some)
        BY ComparedArePaid
    <2> HIDE DEF some, pair
    <2>2. IsFiniteSet({pair[i] : i \in some})
        BY <2>1, ImageIsFinite
    <2> QED BY <1>4, <2>2
<1>6. DOMAIN cell = pairs
    <2>1. \A i \in some : PairOf(tables, i) \in Pairs
        BY ComparedArePaid
    <2>2. ASSUME NEW p \in DOMAIN cell PROVE p \in pairs
        <3>1. PICK i \in some : p = PairOf(tables, i)
            BY <1>4
        <3>2. i \in Compared(tables, q, p)
            BY <3>1 DEF Compared
        <3> QED BY <2>1, <3>1, <3>2
    <2>3. ASSUME NEW p \in pairs PROVE p \in DOMAIN cell
        <3>1. PICK i \in some : p = PairOf(tables, i)
            BY DEF Compared
        <3> QED BY <1>4, <3>1
    <2> QED BY <2>2, <2>3
<1> HIDE DEF unrecorded, report
<1>7. /\ DOMAIN report.cells \subseteq DOMAIN cell
      /\ \A p \in DOMAIN report.cells : /\ report.cells[p] = cell[p]
                                        /\ ~(Cardinality(cell[p].currencies) > 1)
      /\ Cardinality(DOMAIN report.cells) + report.suppressedCells + report.mixedCurrencyCells
             = Cardinality(DOMAIN cell)
    BY <1>5, ReportIsWhole DEF report
<1>8. ASSUME NEW p \in DOMAIN report.cells PROVE IsComparison(tables, q, p, report.cells[p])
    <2>1. report.cells[p] = Cell(tables, q, p) /\ p \in pairs
        BY <1>4, <1>6, <1>7
    <2>2. ~(Cardinality(Cell(tables, q, p).currencies) > 1)
        BY <1>4, <1>7
    <2>3. Compared(tables, q, p) # {}
        BY <2>1
    <2>4. IsComparison(tables, q, p, Cell(tables, q, p))
        BY <2>2, <2>3, CellIsComparison
    <2> QED BY <2>1, <2>4
<1> HIDE DEF gap, pairs
<1>9. IF gap = Forbidden THEN q.subject.role \notin {"HR_ADMIN", "HR_VIEWER"}
      ELSE /\ \A p \in DOMAIN gap.cells : IsComparison(tables, q, p, gap.cells[p])
           /\ Cardinality(DOMAIN gap.cells) + gap.suppressedCells + gap.mixedCurrencyCells
                  = Cardinality(pairs)
    BY <1>1, <1>2, <1>3, <1>6, <1>7, <1>8
<1> QED BY <1>9 DEF gap, pairs

\* Who is on a side of a comparison, from the tables.
SideOf(tables, q, p, g) ==
    {i \in Active(tables) : /\ PairOf(tables, i) = p /\ tables.employees[i].gender = g
                            /\ EmployeeFilter(tables, i, q.filter)
                            /\ PayOn(tables, i, q.asOf) # NoPay}

EverybodyOf(tables, q, p) == UNION {SideOf(tables, q, p, g) : g \in Genders}

\* What is shown of a level and a country may be.
MayBeShown(tables, q, p, cell) ==
    /\ Cardinality({PayOn(tables, i, q.asOf).currency : i \in EverybodyOf(tables, q, p)}) = 1
    /\ \A g \in DOMAIN cell.groups : cell.groups[g].gap # {} =>
          /\ Cardinality(SideOf(tables, q, p, g)) >= MinGroup
          /\ Cardinality(SideOf(tables, q, p, Reference)) >= MinGroup
          /\ Halved(tables, q, SideOf(tables, q, p, g), cell.groups[g].median)
          /\ Halved(tables, q, SideOf(tables, q, p, Reference), cell.reference)
          /\ cell.groups[g].gap = {cell.groups[g].median - cell.reference}

LEMMA SidesAreCompared ==
    ASSUME NEW tables, IsCompany(tables), NEW q \in Query
    PROVE  \A p : /\ \A g \in Genders : SideOf(tables, q, p, g) = Side(tables, q, p, g)
                  /\ EverybodyOf(tables, q, p) = Compared(tables, q, p)
<1>1. Comparables(tables, q) =
          {i \in Active(tables) : /\ EmployeeFilter(tables, i, q.filter)
                                  /\ PayOn(tables, i, q.asOf) # NoPay
                                  /\ tables.employees[i].gender \in Genders}
    BY ComparedArePaid
<1>2. \A p : \A g \in Genders : SideOf(tables, q, p, g) = Side(tables, q, p, g)
    BY <1>1 DEF SideOf, Side, Compared
<1>3. \A p : EverybodyOf(tables, q, p) = Compared(tables, q, p)
    <2> TAKE p
    <2>1. \A i \in Compared(tables, q, p) : tables.employees[i].gender \in Genders
        BY <1>1 DEF Compared
    <2>2. EverybodyOf(tables, q, p) = UNION {Side(tables, q, p, g) : g \in Genders}
        BY <1>2 DEF EverybodyOf
    <2> QED BY <2>1, <2>2 DEF Side
<1> QED BY <1>2, <1>3

LEMMA ComparisonMayBeShown ==
    ASSUME NEW tables, IsCompany(tables), NEW q \in Query, NEW p, NEW cell,
           IsComparison(tables, q, p, cell)
    PROVE  MayBeShown(tables, q, p, cell)
<1>1. /\ \A g \in Genders : SideOf(tables, q, p, g) = Side(tables, q, p, g)
      /\ EverybodyOf(tables, q, p) = Compared(tables, q, p)
    BY SidesAreCompared
<1>2. Reference \in Genders
    BY DEF Reference, Genders
<1>3. {PayOn(tables, i, q.asOf).currency : i \in EverybodyOf(tables, q, p)} =
          {PayOn(tables, i, q.asOf).currency : i \in Compared(tables, q, p)}
    BY <1>1
<1> QED BY <1>1, <1>2, <1>3 DEF MayBeShown, IsComparison

\* A pay gap is shown only between groups of people employed, paid in one currency, and at
\* least MinGroup on either side; it is the difference of two medians that divide those they
\* are medians of; and every level and country with anybody to compare is shown or counted
\* as left out (src/repositories/payGap.ts, src/services/statistics.ts).
THEOREM GapIsOfEnoughPeople == Spec => []GapIsPublishable
<1>1. ASSUME IInv, NEW q \in Queries
      PROVE  LET gap == PayGap(db, q)
             IN  IF gap = Forbidden THEN q.subject.role \notin {"HR_ADMIN", "HR_VIEWER"}
                 ELSE /\ \A p \in DOMAIN gap.cells : MayBeShown(db, q, p, gap.cells[p])
                      /\ Cardinality(DOMAIN gap.cells) + gap.suppressedCells + gap.mixedCurrencyCells
                             = Cardinality({p \in Pairs : EverybodyOf(db, q, p) # {}})
    <2> DEFINE gap == PayGap(db, q)
    <2>1. IsCompany(db) /\ q \in Query
        BY <1>1, ScreensConstants DEF IInv
    <2>2. IF gap = Forbidden THEN q.subject.role \notin {"HR_ADMIN", "HR_VIEWER"}
          ELSE /\ \A p \in DOMAIN gap.cells : IsComparison(db, q, p, gap.cells[p])
               /\ Cardinality(DOMAIN gap.cells) + gap.suppressedCells + gap.mixedCurrencyCells
                      = Cardinality({p \in Pairs : Compared(db, q, p) # {}})
        BY <2>1, GapIsAnswered
    <2> HIDE DEF gap
    <2>3. {p \in Pairs : EverybodyOf(db, q, p) # {}} = {p \in Pairs : Compared(db, q, p) # {}}
        BY <2>1, SidesAreCompared
    <2>4. \A p \in DOMAIN gap.cells :
              IsComparison(db, q, p, gap.cells[p]) => MayBeShown(db, q, p, gap.cells[p])
        BY <2>1, ComparisonMayBeShown
    <2>5. IF gap = Forbidden THEN q.subject.role \notin {"HR_ADMIN", "HR_VIEWER"}
          ELSE /\ \A p \in DOMAIN gap.cells : MayBeShown(db, q, p, gap.cells[p])
               /\ Cardinality(DOMAIN gap.cells) + gap.suppressedCells + gap.mixedCurrencyCells
                      = Cardinality({p \in Pairs : EverybodyOf(db, q, p) # {}})
        BY <2>2, <2>3, <2>4
    <2> QED BY <2>5 DEF gap
<1>2. IInv => GapIsPublishable
    BY <1>1 DEF GapIsPublishable, MayBeShown, EverybodyOf, SideOf, Halved
<1> QED BY <1>2, Invariantly, PTL
=============================================================================
