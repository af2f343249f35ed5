------------------------------ MODULE Screens -------------------------------
(***************************************************************************)
(* The answers HR works from, while the data changes under them: the       *)
(* figures and lists, which one statement reads, and three that take more  *)
(* than one: a person's page (src/services/employeeDetail.ts), the export  *)
(* streamed page by page to a client that may be slow or gone              *)
(* (src/services/employeeCsv.ts, src/routes/employeeCsv.ts), and a file    *)
(* uploaded to be checked.                                                 *)
(*                                                                         *)
(* One request is in flight; between any two of its statements somebody    *)
(* may commit a write.  What happens between the statements of a write is  *)
(* in Staff and PayLedger.                                                 *)
(***************************************************************************)
EXTENDS Figures, EmployeeCsv, BulkRaise

CONSTANTS
    Companies,     \* the tables there may be at the start
    Hires,         \* people who may be created: [person, pay]
    Raises,        \* pay that may be recorded: [amount, currency, from]
    Policies,      \* bands that may be set, in or out of order: [pair, band]
    LeavingDays,
    Queries,       \* what lists and figures are asked for
    Exports,       \* exports that may be asked for
    RaiseRequests, \* bulk raises that may be previewed
    Uploads,       \* files: [text, subject]
    PageOpener,    \* who opens a person's page, and the day they ask about
    Chunk,         \* EXPORT_CHUNK
    HighWater,     \* how many lines the socket takes before it says stop
    MaxWrites      \* bound on the writes

VARIABLES
    db,            \* the tables
    writes,        \* how many writes were committed
    req            \* the request in flight

vars == <<db, writes, req>>

IsTable(table, keys, rows) == DOMAIN table \subseteq keys /\ table \in [DOMAIN table -> rows]

\* Among any people somebody reports to none of them: nobody is above themselves.
NoCircle(employees) ==
    \A S \in (SUBSET DOMAIN employees) \ {{}} : \E i \in S : employees[i].manager \notin S

\* The three tables, with their keys and references.
IsCompany(tables) ==
    /\ tables = [employees |-> tables.employees, records |-> tables.records, bands |-> tables.bands]
    /\ IsTable(tables.employees, People, Employee)
    /\ IsTable(tables.bands, Pairs, Band)
    /\ tables.records \subseteq Record /\ IsFiniteSet(tables.records)
    /\ \A c, d \in tables.records : c.id = d.id => c = d
    /\ \A c \in tables.records : c.employee \in DOMAIN tables.employees
    /\ \A i \in DOMAIN tables.employees :
           tables.employees[i].manager \in DOMAIN tables.employees \cup {Null}
    /\ NoCircle(tables.employees)

PayToRecord == [amount : Amounts, currency : Currencies, from : Days]

ASSUME ScreensConstants ==
    /\ Chunk \in Nat \ {0} /\ HighWater \in Nat \ {0} /\ MaxWrites \in Nat
    /\ MinGroup \in Nat \ {0} /\ Buckets \in Nat \ {0}
    /\ \A tables \in Companies : IsCompany(tables)
    /\ Hires \subseteq [person : Employee, pay : PayToRecord \cup {NoPay}]
    /\ Raises \subseteq PayToRecord /\ LeavingDays \subseteq Days
    /\ Policies \subseteq [pair : Pairs, band : [currency : Currencies, min : Amounts,
                                                mid : Amounts, max : Amounts]]
    /\ PageOpener.asOf \in Days
    /\ Queries \cup Exports \subseteq Query
    /\ All \notin Statuses /\ All \notin Fits
    /\ All \notin Countries /\ All \notin Departments /\ All \notin Levels
    /\ \A r \in RaiseRequests : r.from \in Days /\ r.percent \in BasisPoints
    /\ \A f \in Uploads : f.text \in Seq(STRING)

NoRequest == [kind |-> "none"]

Init ==
    /\ db \in Companies
    /\ writes = 0
    /\ req = NoRequest

-----------------------------------------------------------------------------
(* Writes *)

Ids == DOMAIN db.employees

NextRecordId == 1 + Max({0} \cup {c.id : c \in db.records})

PayRecord(i, pay) ==
    [id |-> NextRecordId, employee |-> i, amount |-> pay.amount, currency |-> pay.currency,
     from |-> pay.from]

\* What an open export may notice of a write: who stopped and who began to match.
Noticed ==
    IF req.kind # "export" THEN req
    ELSE [req EXCEPT !.went = @ \cup (Matching(db, req.q) \ Matching(db', req.q)),
                     !.came = @ \cup (Matching(db', req.q) \ Matching(db, req.q))]

\* A write that changes nothing goes unnoticed and is left out.
Committed(tables) ==
    /\ tables # db
    /\ writes < MaxWrites
    /\ writes' = writes + 1
    /\ db' = tables
    /\ req' = Noticed

\* insertEmployee: the person, and their first salary in the same transaction.
InsertEmployee(hire) ==
    /\ hire.person.manager \in Ids \cup {Null}
    /\ \E i \in People \ Ids :
        /\ \A j \in People \ Ids : i <= j
        /\ Committed([db EXCEPT
               !.employees = Put(@, i, hire.person),
               !.records = IF hire.pay = NoPay THEN @ ELSE @ \cup {PayRecord(i, hire.pay)}])

\* updateEmployeeStatus, once nobody is left who reports to a leaver; a leaver's day may be
\* corrected the same way.
UpdateEmployeeStatus(i, status, day) ==
    /\ IF status = "LEFT"
       THEN /\ day >= db.employees[i].hired
            /\ \A j \in DirectReports(db, i) : db.employees[j].status = "LEFT"
       ELSE day = Null
    /\ Committed([db EXCEPT !.employees[i].status = status, !.employees[i].left = day])

\* insertCompensationRecord: not before the hire date, and not the same record again.
InsertCompensationRecord(i, pay) ==
    /\ pay.from >= db.employees[i].hired
    /\ \A c \in RecordsOf(db, i) : [c EXCEPT !.id = NextRecordId] # PayRecord(i, pay)
    /\ Committed([db EXCEPT !.records = @ \cup {PayRecord(i, pay)}])

\* save(): minimum, midpoint and maximum in order, in place of what was there.
SaveBand(pair, band) ==
    /\ band.min <= band.mid /\ band.mid <= band.max
    /\ Committed(WithBand(db, pair, band))

RemoveBand(pair) ==
    /\ pair \in DOMAIN db.bands
    /\ Committed(WithoutBand(db, pair))

-----------------------------------------------------------------------------
(* A person's page *)

\* findEmployeeDetail: nothing else is read until the scope has let the person through.
OpenDetail(i) ==
    /\ req = NoRequest
    /\ FindEmployeeById(db, i, PageOpener.subject)
    /\ Convertible(db, i, PageOpener.asOf)
    /\ req' = [kind |-> "detail", id |-> i, salary |-> PayOn(db, i, PageOpener.asOf),
               history |-> <<>>, reports |-> Null, toRead |-> {"history", "reports"},
               since |-> writes]
    /\ UNCHANGED <<db, writes>>

\* listCompensationHistory refuses a record without a rate, also one still to come.
ListHistory ==
    /\ req.kind = "detail" /\ "history" \in req.toRead
    /\ req' = IF \E c \in RecordsOf(db, req.id) : ~HasRate(c.currency) THEN NoRequest
              ELSE [req EXCEPT !.toRead = @ \ {"history"},
                               !.history = WithChanges(History(db, req.id), PageOpener.asOf)]
    /\ UNCHANGED <<db, writes>>

CountDirectReports ==
    /\ req.kind = "detail" /\ "reports" \in req.toRead
    /\ req' = [req EXCEPT !.toRead = @ \ {"reports"},
                          !.reports = Cardinality(DirectReports(db, req.id))]
    /\ UNCHANGED <<db, writes>>

-----------------------------------------------------------------------------
(* The export *)

\* Mutant: the pages of a walk ordered by salary.
ExportQueryBySalary(request) == [request EXCEPT !.sortBy = "salary", !.fit = All]

\* Ordered by name and, as every list, by id.
ExportQuery(request) == [request EXCEPT !.sortBy = "name", !.sortDir = "asc", !.fit = All]

\* What the generator yields first.
Header == [id |-> Null]

\* "came", "went" and "since" are history.
BeginExport(request) ==
    /\ req = NoRequest
    /\ req' = [kind |-> "export", q |-> ExportQuery(request), pc |-> "writing", page |-> 1,
               last |-> FALSE, queue |-> <<Header>>, file |-> <<>>, buffer |-> 0,
               needDrain |-> FALSE, gone |-> FALSE, came |-> {}, went |-> {}, since |-> writes]
    /\ UNCHANGED <<db, writes>>

\* The next page of the generator; the answer is cut off if a salary cannot be converted.
ReadPage ==
    /\ req.kind = "export" /\ req.pc = "writing" /\ req.queue = <<>> /\ ~req.last
    /\ \E page \in {ListEmployees(db, req.q, req.page, Chunk)} :
           req' = IF page = Failed THEN NoRequest
                  ELSE [req EXCEPT
                           !.queue = [k \in DOMAIN page.rows |-> EmployeeRow(db, page.rows[k], req.q.asOf)],
                           !.page = @ + 1,
                           !.last = req.page * Chunk >= page.total \/ page.rows = <<>>]
    /\ UNCHANGED <<db, writes>>

\* What a socket does with a line: it is full from the HighWater-th on, and takes
\* nothing once the client has gone.
Taken(r) ==
    IF r.gone THEN r
    ELSE [r EXCEPT !.buffer = @ + 1, !.needDrain = @ \/ r.buffer + 1 >= HighWater]

Full(r) == r.gone \/ r.buffer + 1 >= HighWater

\* Mutant: the answer of write is not looked at.
WriteLineRegardless ==
    /\ req.kind = "export" /\ req.pc = "writing" /\ req.queue # <<>>
    /\ req' = [Taken(req) EXCEPT !.queue = Tail(@), !.file = Append(@, Head(req.queue))]
    /\ UNCHANGED <<db, writes>>

\* Mutant: the route waits for the drain of a line whether or not the socket was full.
WriteLineWaiting ==
    /\ req.kind = "export" /\ req.pc = "writing" /\ req.queue # <<>>
    /\ req' = [Taken(req) EXCEPT !.queue = Tail(@), !.file = Append(@, Head(req.queue)),
                                 !.pc = "draining"]
    /\ UNCHANGED <<db, writes>>

WriteLine ==
    /\ req.kind = "export" /\ req.pc = "writing" /\ req.queue # <<>>
    /\ req' = [Taken(req) EXCEPT !.queue = Tail(@), !.file = Append(@, Head(req.queue)),
                                 !.pc = IF Full(req) THEN "draining" ELSE "writing"]
    /\ UNCHANGED <<db, writes>>

\* A drained socket says so once, and only if it had said stop.
ClientReads ==
    /\ req.kind = "export" /\ ~req.gone /\ req.buffer > 0
    /\ LET drained == req.needDrain /\ req.buffer = 1
       IN  req' = [req EXCEPT !.buffer = @ - 1, !.needDrain = @ /\ ~drained,
                              !.pc = IF drained THEN "writing" ELSE @]
    /\ UNCHANGED <<db, writes>>

ClientGoes ==
    /\ req.kind = "export" /\ ~req.gone
    /\ req' = [req EXCEPT !.gone = TRUE]
    /\ UNCHANGED <<db, writes>>

Exported ==
    req.kind = "export" /\ req.pc = "writing" /\ req.queue = <<>> /\ req.last

-----------------------------------------------------------------------------
(* A file to check *)

\* importRows without apply, or problemReportCsv: one statement looks up the addresses, and
\* the rest looks at the file alone.
Upload(file) ==
    /\ req = NoRequest
    /\ \E checked \in {CheckFile(db, file.subject, file.text)} \ {Forbidden, Failed} :
           req' = [kind |-> "checked", text |-> file.text, checked |-> checked,
                   summary |-> Summary(checked), taken |-> TakenAddresses(db)]
    /\ UNCHANGED <<db, writes>>

-----------------------------------------------------------------------------
(* Next *)

\* The answer is on its way.
Answer ==
    /\ \/ req.kind = "detail" /\ req.toRead = {}
       \/ Exported
       \/ req.kind = "checked"
    /\ req' = NoRequest
    /\ UNCHANGED <<db, writes>>

Serve == ListHistory \/ CountDirectReports \/ ReadPage \/ WriteLine \/ Answer

Write ==
    \/ \E hire \in Hires : InsertEmployee(hire)
    \/ \E i \in Ids, s \in Statuses, d \in LeavingDays \cup {Null} : UpdateEmployeeStatus(i, s, d)
    \/ \E i \in Ids, pay \in Raises : InsertCompensationRecord(i, pay)
    \/ \E p \in Policies : SaveBand(p.pair, p.band)
    \/ \E p \in DOMAIN db.bands : RemoveBand(p)

Next ==
    \/ Write
    \/ \E i \in Ids : OpenDetail(i)
    \/ \E e \in Exports : BeginExport(e)
    \/ \E f \in Uploads : Upload(f)
    \/ Serve
    \/ ClientReads
    \/ ClientGoes

\* What ENABLED Serve comes to: the server has something to do for a request.
Busy == req # NoRequest /\ ~(req.kind = "export" /\ req.pc = "draining")

\* A request goes on until it waits for its client; nothing is asked of clients or writers.
\* This is WF_vars(Serve), spelt out because TLC takes a second to evaluate ENABLED of a page.
Fairness == []<>~Busy \/ []<><<Serve>>_vars

Spec == Init /\ [][Next]_vars /\ Fairness

-----------------------------------------------------------------------------
(* Properties of what is in flight *)

\* The tables keep their keys and references, and an export holds no more than one page of
\* rows and what its client's socket takes, and waits only for a socket that will say that
\* it is drained, or for a client who has gone (src/services/employeeCsv.ts: each chunk is
\* written out and dropped; src/routes/employeeCsv.ts: back-pressure).
TypeOK ==
    /\ IsCompany(db)
    /\ writes \in 0..MaxWrites
    /\ req.kind \in {"none", "detail", "export", "checked"}
    /\ req.kind = "export" =>
          /\ Len(req.queue) <= Chunk
          /\ req.buffer \in 0..HighWater
          /\ req.pc = "draining" => (req.needDrain /\ req.buffer > 0) \/ req.gone

\* What a history says below a salary that was read "later" writes before it.
PageAgrees(h, salary, later) ==
    LET current == {k \in DOMAIN h : h[k].isCurrent}
    IN  /\ \A k \in DOMAIN h : h[k].isScheduled <=> \A c \in current : k > c
        /\ Cardinality(current) = IF \E k \in DOMAIN h : h[k].record.from <= PageOpener.asOf
                                  THEN 1 ELSE 0
        /\ salary # NoPay => \E k \in DOMAIN h : h[k].record = salary
        /\ \A k \in current : \/ h[k].record = salary
                               \/ (later > 0 /\ Precedes(salary, h[k].record))
        /\ \A j, k \in DOMAIN h :
               (j < k /\ \A n \in (j + 1)..k : h[n].change.reason = "none") =>
                   h[k].record.amount - h[j].record.amount
                       = FoldLeft(LAMBDA sum, n : sum + h[n].change.amount, 0,
                                  [n \in 1..(k - j) |-> j + n])

\* A person's page, read by two statements, may be overtaken by a raise but contradicts
\* itself in nothing else: the salary at its top is in its history, what is in force there
\* is that record or one recorded since, only what is still to come is marked as scheduled,
\* and the changes add up (src/domain/compensation.ts: a page that annotates a history
\* agrees with the list that summarises it).
DetailLags ==
    (req.kind = "detail" /\ "history" \notin req.toRead) =>
        PageAgrees(req.history, req.salary, writes - req.since)

Written == [k \in 1..Max({0, Len(req.file) - 1}) |-> req.file[k + 1].id]

Precedent(i, S) ==
    \E j \in S : LET order == Listed(db, req.q, {i, j}) IN order # <<i>> /\ order[1] = j

\* The export walks pages by OFFSET, each a statement of its own.  In order of name and id
\* nobody moves: somebody is written twice only if somebody before them came, and somebody
\* who matched all along is left out only if somebody before them went
\* (src/services/employeeCsv.ts: exactly what a chunked walk needs).
ExportOnce ==
    req.kind = "export" =>
        /\ \A a, b \in DOMAIN Written :
               (a < b /\ Written[a] = Written[b]) => Precedent(Written[a], req.came)
        /\ Exported =>
               \A i \in Matching(db, req.q) \ (Range(Written) \cup req.came) :
                   Precedent(i, req.went)

\* A client that goes on reading gets to the end of the file, however the writes of lines,
\* the reads of pages and the drains of the socket meet (src/routes/employeeCsv.ts).
ExportEnds ==
    ([]<>(req.kind # "export" \/ req.buffer = 0)) =>
        ((req.kind = "export") ~> (req.kind # "export" \/ req.gone))

ExportedText ==
    FlattenSeq([k \in DOMAIN req.file |->
                   IF req.file[k] = Header THEN HeaderLine ELSE ToCsvLine(ToCsvRecord(req.file[k]))])

\* An import takes no more rows, and no longer names and addresses.
Importable ==
    /\ Len(Written) <= MaxImportRows
    /\ \A k \in DOMAIN Written :
           /\ Len(Guarded(NameText[db.employees[Written[k]].name])) <= MaxNameLength
           /\ Len(Lower(Guarded(EmailText[Written[k]]))) <= MaxEmailLength

\* What a client has of an export nobody disturbed goes back in through the import, to the
\* same people at the same pay (src/domain/employeeCsv.ts: a round trip is a real
\* property).  A name or address that looks like a formula comes back with its apostrophe,
\* which may be one character too many for either.
FileComesBack ==
    (Exported /\ req.since = writes /\ req.buffer = 0 /\ ~req.gone /\ Importable) =>
        LET hr         == [role |-> "HR_ADMIN", employee |-> Null]
            e(k)       == db.employees[Written[k]]
            address(i) == Lower(Guarded(EmailText[i]))
            pay(k)     == PayOn(db, Written[k], req.q.asOf)
            empty      == [db EXCEPT !.employees = <<>>]
        IN  \E checked \in {CheckFile(empty, hr, ExportedText)} :
            \E parsed \in {ParseEmployeeCsv(checked.table)} :
            /\ parsed.problems = <<>>
            /\ Len(parsed.rows) = Len(Written)
            /\ \A k \in DOMAIN Written :
                   /\ parsed.rows[k] =
                         [row |-> k + 1, name |-> Guarded(NameText[e(k).name]),
                          email |-> address(Written[k]), country |-> e(k).country,
                          department |-> e(k).department, level |-> e(k).level,
                          hired |-> e(k).hired, status |-> e(k).status, left |-> e(k).left,
                          manager |-> IF e(k).manager = Null THEN <<>> ELSE address(e(k).manager),
                          pay |-> IF pay(k) = NoPay THEN NoPay
                                  ELSE [amount |-> pay(k).amount, currency |-> pay(k).currency,
                                        from |-> pay(k).from]]
            /\ Range(Written) = Ids => checked.problems = <<>> /\ ValidRows(checked) = Cardinality(Ids)

\* An answer about a file, when "taken" were the addresses there were.
AnswersWhole(c, summary, taken) ==
    LET rows     == UNION {Range(c.layers[k]) : k \in DOMAIN c.layers}
        placed   == {x.row : x \in rows}
        wrong    == {c.problems[k].row : k \in DOMAIN c.problems}
        above(k) == UNION {{x.email : x \in Range(c.layers[n])} : n \in 1..(k - 1)}
        plain    == \A k \in DOMAIN c.table :
                       /\ Len(c.table[k]) = Len(c.table[1])
                       /\ \A n \in DOMAIN c.table[k] : Guarded(c.table[k][n]) = c.table[k][n]
    IN  \E read \in {ParseEmployeeCsv(c.table)} :
        \E report \in {ParseCsv(ToProblemReportCsv(c.table, c.problems))} :
        IF 1 \in wrong THEN summary.validRows = 0 /\ Len(report) = 2
        ELSE /\ placed \cap wrong = {} /\ placed \cup wrong = 2..Len(c.table)
             /\ summary.validRows + Cardinality(wrong) = summary.totalRows
             /\ (summary.problems = <<>>) <=> (wrong = {})
             /\ \A k \in DOMAIN c.layers : \A x \in Range(c.layers[k]) :
                   /\ x.manager \in taken \cup above(k) \cup {<<>>}
                   /\ x.email \notin taken \cup above(k)
             /\ \A x \in Range(read.rows) \ rows :
                   \/ x.email \in taken
                   \/ x.manager \notin taken \cup {y.email : y \in rows} \cup {<<>>}
             /\ Len(report) = Len(c.table)
             /\ \A k \in 2..Len(report) :
                   (report[k][Len(report[k])] # <<>>) <=> k \in wrong
             /\ plain => ParseEmployeeCsv(report) = read

\* Whatever file is uploaded, every row of it is either placed after its manager or
\* complained about, and a row with nothing wrong of its own is left out only with its
\* manager; the report repeats every row with its own complaint beside it, and reads back
\* to the same answer (src/domain/employeeCsv.ts: a caller cannot half-import somebody).
PreviewIsWhole ==
    req.kind = "checked" => AnswersWhole(req.checked, req.summary, req.taken)

-----------------------------------------------------------------------------
(* Properties of the figures *)

\* Every person employed stands in the same place against their band on every screen: the
\* counts per level and country, the filter of the list, the list of those paid too little
\* and the label on a person all agree (src/repositories/payBands.ts: the same comparison
\* as bandStanding).
BandScreensAgree ==
    req = NoRequest => \A day \in {q.asOf : q \in Queries} :
        LET coverage == Coverage(db, day)
            stands == [f \in Fits |->
                          {i \in Active(db) : BandStanding(PayOn(db, i, day), BandOf(db, i)).fit = f}]
            at(f, p) == Cardinality({i \in stands[f] : PairOf(db, i) = p})
            hr(f) == [subject |-> [role |-> "HR_ADMIN", employee |-> Null],
                      asOf |-> day, status |-> "ACTIVE", fit |-> f,
                      filter |-> [country |-> All, department |-> All, level |-> All],
                      search |-> <<>>, sortBy |-> "name", sortDir |-> "asc"]
            attention == NeedsAttention(db, hr("BELOW"), 1, Cardinality(People))
        IN  /\ \A p \in DOMAIN coverage.rows : LET row == coverage.rows[p] IN
                  /\ <<row.below, row.within, row.above, row.otherCurrency>> =
                     <<at("BELOW", p), at("WITHIN", p), at("ABOVE", p), at("OTHER_CURRENCY", p)>>
                  /\ row.band # NoBand => row.headcount - row.paidHeadcount = at("NO_PAY", p)
            /\ coverage.peopleWithoutBand = Cardinality(stands["NO_BAND"])
            /\ \A f \in Fits : Matching(db, hr(f)) = stands[f]
            /\ attention # Failed =>
                  /\ Range(attention.rows) = stands["BELOW"]
                  /\ attention.total = Cardinality(stands["BELOW"])

\* i's manager, their manager, and so on: whoever is on the way up from i, i included.
UpFrom(i) ==
    LET up[n \in 0..Cardinality(People)] ==
            IF n = 0 THEN i
            ELSE LET last == up[n - 1] IN IF last = Null THEN Null ELSE db.employees[last].manager
    IN  {up[n] : n \in 0..Cardinality(People)} \ {Null}

\* The pages of a list, whatever its order, show everybody it is about exactly once and
\* nobody else; a manager's list is everybody whose way up passes them
\* (src/repositories/employees.ts, src/repositories/employeeFilters.ts).
PagesCoverTheList ==
    req = NoRequest => \A q \in Queries, size \in {2, 3} :
        LET answer(n) == ListEmployees(db, q, n, size)
            total     == answer(1).total
            pages     == [n \in 1..TotalPages(total, size) |-> answer(n)]
            shown     == FlattenSeq([n \in DOMAIN pages |-> pages[n].rows])
        IN  IF \E n \in 1..Cardinality(People) : answer(n) = Failed
            THEN \E i \in Matching(db, q) : ~Convertible(db, i, q.asOf)
            ELSE /\ Len(shown) = total /\ Range(shown) = Matching(db, q)
                 /\ Cardinality(Range(shown)) = total
                 /\ \A n \in DOMAIN pages : pages[n].total = total
                 /\ answer(Len(pages) + 1) = [rows |-> <<>>, total |-> total]
                 /\ q.subject.role = "MANAGER" =>
                       Team(db, q.subject.employee) = {i \in Ids : q.subject.employee \in UpFrom(i)}
                 /\ \A k \in 2..Len(shown) : \A j \in {k - 1} :
                       SortKey(db, q, shown[j]) # Null /\ SortKey(db, q, shown[k]) # Null =>
                           IF q.sortDir = "asc" THEN SortKey(db, q, shown[j]) <= SortKey(db, q, shown[k])
                           ELSE SortKey(db, q, shown[k]) <= SortKey(db, q, shown[j])

\* The overview's parts are parts of its whole: every breakdown and every bar adds up to
\* everybody paid, nobody's salary is outside the printed range of the bar that counts
\* them, and the quartiles are in order (src/repositories/statistics.ts: a salary exactly
\* on the line would appear in a bucket whose printed range excludes it).
OverviewAddsUp ==
    req = NoRequest => \A q \in Queries :
        LET employed == [q EXCEPT !.status = IF @ = All THEN "ACTIVE" ELSE @]
            usd(i) == SalaryUsd(db, i, q.asOf)
        IN  \E o \in {Overview(db, q)} :
            IF o \in {Forbidden, Failed}
            THEN \/ q.subject.role \notin {"HR_ADMIN", "HR_VIEWER"}
                 \/ \E i \in Counted(db, employed) : ~Convertible(db, i, q.asOf)
            ELSE /\ \A groups \in {o.byDepartment, o.byCountry, o.byJobLevel} :
                       /\ SumOf([g \in DOMAIN groups |-> groups[g].total], DOMAIN groups) = o.overall.total
                       /\ SumOf([g \in DOMAIN groups |-> groups[g].headcount], DOMAIN groups) = o.overall.headcount
                       /\ \A g \in DOMAIN groups : groups[g].median # Null =>
                             groups[g].paidHeadcount >= MinGroup
                 /\ o.overall.paidHeadcount =
                       SumOf([k \in DOMAIN o.distribution |-> o.distribution[k].employees],
                             DOMAIN o.distribution)
                 /\ \A k \in DOMAIN o.distribution :
                       o.distribution[k].employees <=
                           Cardinality({i \in Priced(db, employed) :
                               usd(i) \in o.distribution[k].from..o.distribution[k].to})
                 /\ o.overall.min <= o.overall.p25 /\ o.overall.p25 <= o.overall.median
                 /\ o.overall.median <= o.overall.p75 /\ o.overall.p75 <= o.overall.max
                 /\ o.overall.min <= o.overall.mean /\ o.overall.mean <= o.overall.max

\* A pay gap is published between groups of people employed, paid in one currency and at
\* least MinGroup on either side, it is the difference of their medians, and every level
\* and country with anybody to compare is shown or counted as left out
\* (src/repositories/payGap.ts).
GapIsPublishable ==
    req = NoRequest => \A q \in Queries :
        LET pay(i) == PayOn(db, i, q.asOf)
            side(p, g) == {i \in Active(db) : /\ PairOf(db, i) = p /\ db.employees[i].gender = g
                                              /\ EmployeeFilter(db, i, q.filter) /\ pay(i) # NoPay}
            everybody(p) == UNION {side(p, g) : g \in Genders}
            \* No more than half of them are paid less, and no more than half more.
            halves(m, S) == /\ 2 * Cardinality({i \in S : pay(i).amount < m}) <= Cardinality(S)
                            /\ 2 * Cardinality({i \in S : pay(i).amount > m}) <= Cardinality(S)
        IN  \E gap \in {PayGap(db, q)} :
            IF gap = Forbidden THEN q.subject.role \notin {"HR_ADMIN", "HR_VIEWER"}
            ELSE /\ \A p \in DOMAIN gap.cells : LET groups == gap.cells[p].groups IN
                       /\ Cardinality({pay(i).currency : i \in everybody(p)}) = 1
                       /\ \A g \in DOMAIN groups : groups[g].gap # {} =>
                             /\ Cardinality(side(p, g)) >= MinGroup
                             /\ Cardinality(side(p, Reference)) >= MinGroup
                             /\ halves(groups[g].median, side(p, g))
                             /\ halves(gap.cells[p].reference, side(p, Reference))
                             /\ groups[g].gap = {groups[g].median - gap.cells[p].reference}
                 /\ Cardinality(DOMAIN gap.cells) + gap.suppressedCells + gap.mixedCurrencyCells
                       = Cardinality({p \in Pairs : everybody(p) # {}})

\* Each month of the trend has as many people as are employed and paid on its first day,
\* as the rest of the program works it out; where all of them can be converted it is what
\* they are paid, and the change the trend is headed with is what the last month costs more
\* than the month of the day asked about (src/repositories/payrollTrend.ts: the same
\* tie-break the current-salary join makes).  Which months are missing is in MCTrend.
TrendAgrees ==
    req = NoRequest => \A q \in Queries :
        LET trend == PayrollTrendFor(db, q.subject, q.asOf, MaxHistoryMonths, MaxHorizonMonths)
            paid(m) == {i \in Ids : EmployedIn(db, i, m) /\ Paid(db, i, m)}
            convertible(m) == \A i \in paid(m) : Convertible(db, i, m)
            cost(m) == SumOf([i \in paid(m) |-> SalaryUsd(db, i, m)], paid(m))
            now == MonthOf(q.asOf)
            last == Max(Months(q.asOf, MaxHistoryMonths, MaxHorizonMonths))
        IN  CanSeeAggregates(q.subject) =>
              /\ \A m \in DOMAIN trend :
                    /\ trend[m].paidHeadcount = Cardinality(paid(m))
                    /\ convertible(m) => trend[m].payroll = cost(m)
              /\ (\A m \in {now, last} : m \in DOMAIN trend /\ convertible(m)) =>
                    CommittedChange(trend) = cost(last) - cost(now)

\* What the preview of a bulk raise says is what applying it does: everybody matched is
\* accounted for, those said to go past their band are those who then stand above it, the
\* cost in each currency is what people are paid more, the estimate in dollars is within two
\* cents a person, nobody is paid from before they are employed, and the same raise asked
\* for again finds itself recorded and adds nothing
\* (src/services/bulkRaise.ts: the figure was signed off, and the table is append-only).
PreviewIsPaid ==
    req = NoRequest => \A r \in RaiseRequests :
        \E report \in {Run(db, r)}, after \in {Applied(db, r)} :
        LET again  == Run(after, r)
            raised == {i \in Ids : PayOn(after, i, r.from) # PayOn(db, i, r.from)}
            above  == {i \in raised : BandStanding(PayOn(after, i, r.from), BandOf(db, i)).fit = "ABOVE"}
            paid(tables, S) == SumOf([i \in S |-> PayOn(tables, i, r.from).amount], S)
            usd(tables) == SumOf([i \in raised |-> SalaryUsd(tables, i, r.from)], raised)
            off == report.increaseUsdEstimate - (usd(after) - usd(db))
        IN  report \in {Forbidden, Failed} \/
            /\ report.matched = report.affected + report.skippedNoPay + report.skippedHiredLater
                                    + report.skippedAlreadyRecorded + report.skippedChangedOnDate
                                    + report.skippedNotSelected
            /\ report.affected = Cardinality(raised)
            /\ Range(report.wouldExceedBand) \subseteq above
            /\ report.wouldExceedBandCount = Cardinality(above)
            /\ \A c \in Currencies :
                  LET inC == {i \in raised : PayOn(db, i, r.from).currency = c}
                  IN  IF c \notin DOMAIN report.byCurrency THEN inC = {}
                      ELSE LET total == report.byCurrency[c]
                           IN  /\ total.affected = Cardinality(inC)
                               /\ total.new - total.current = paid(after, inC) - paid(db, inC)
            /\ off \in (-2 * report.affected)..(2 * report.affected)
            /\ \A c \in after.records \ db.records : db.employees[c.employee].hired <= c.from
            /\ again.affected = 0
            /\ again.skippedAlreadyRecorded = report.affected + report.skippedAlreadyRecorded
=============================================================================
