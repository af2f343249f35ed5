---------------------------- MODULE EmployeeCsv -----------------------------
(***************************************************************************)
(* An employee as a row of a spreadsheet: src/domain/employeeCsv.ts, which *)
(* reads rows and reports what is wrong with them, and the part of         *)
(* src/services/employeeCsv.ts that checks a file against the people there *)
(* are and writes them out again.  What an import stores is in Staff.      *)
(*                                                                         *)
(* Nobody has a job title.  A message says no more than which row and      *)
(* column it is about.                                                     *)
(***************************************************************************)
EXTENDS Directory

CONSTANTS
    CountryText, DepartmentText, LevelText, DayText,   \* how the cells spell them
    MaxNameLength,         \* MAX_NAME_LENGTH, and MAX_JOB_TITLE_LENGTH
    MaxEmailLength,        \* MAX_EMAIL_LENGTH
    MaxImportRows,
    MaxReportedProblems

ColumnList == <<"fullName", "email", "country", "department", "jobLevel", "jobTitle", "hireDate",
                "status", "leftOn", "managerEmail", "salaryAmount", "salaryCurrency",
                "salaryEffectiveFrom">>

Columns == Range(ColumnList)

RequiredColumns == {"fullName", "email", "country", "department", "jobLevel", "hireDate"}

PayColumns == {"salaryAmount", "salaryCurrency", "salaryEffectiveFrom"}

NotInFile == 0

\* Array.filter, by the places of those that are kept.
Chosen(s, places) ==
    LET order == OrderBy(places, <)
    IN  [k \in DOMAIN order |-> s[order[k]]]

Where(s, Keeps(_)) == Chosen(s, {k \in DOMAIN s : Keeps(s[k])})

-----------------------------------------------------------------------------
(* The header *)

Normalised(cell) == Where(Lower(Trim(cell)), LAMBDA c : c \notin Whitespace \cup {"_", "-"})

Positions(header, column) == {k \in DOMAIN header : Normalised(header[k]) = Lower(<<column>>)}

\* The first column of a name is read.
ReadHeader(header) ==
    [c \in Columns |-> IF Positions(header, c) = {} THEN NotInFile ELSE Min(Positions(header, c))]

MissingColumns(header) == {c \in RequiredColumns : ReadHeader(header)[c] = NotInFile}

\* The column that a report adds is none of these.
ASSUME EmployeeCsvConstants ==
    /\ MaxNameLength \in Nat /\ MaxEmailLength \in Nat
    /\ MaxImportRows \in Nat /\ MaxReportedProblems \in Nat \ {0}
    /\ \A c \in Columns : Normalised(<<"problems">>) # Lower(<<c>>)

\* A cell the row does not have is blank.
Field(row, at) == IF at \in DOMAIN row THEN row[at] ELSE <<>>

-----------------------------------------------------------------------------
(* One row *)

\* something@something.something, without a blank or another @
LooksLikeEmail(text) ==
    \E at, dot \in DOMAIN text :
        /\ 1 < at /\ at + 1 < dot /\ dot < Len(text)
        /\ text[at] = "@" /\ text[dot] = "."
        /\ \A k \in DOMAIN text : text[k] \notin Whitespace /\ (text[k] = "@" => k = at)

Meant(text, spelling) == {x \in DOMAIN spelling : spelling[x] = text}

\* The reference names are compared without case.
MeantLower(text, spelling) == {x \in DOMAIN spelling : Lower(spelling[x]) = Lower(Trim(text))}

IsDate(text) == Meant(text, DayText) # {}

DayOf(text) == CHOOSE d \in Meant(text, DayText) : TRUE

ReadStatus(text) == IF Upper(text) = <<"LEFT">> THEN "LEFT" ELSE "ACTIVE"

Supported(text) == \E c \in Currencies : Upper(text) = <<c>>

\* What may be wrong with a row, in the order it is checked.
CheckedColumns ==
    <<"fullName", "email", "country", "department", "jobLevel", "jobTitle", "hireDate", "status",
      "leftOn", "salary", "salaryCurrency", "salaryEffectiveFrom", "salaryAmount", "managerEmail">>

Wrong(f) ==
    LET status  == ReadStatus(f["status"])
        email   == Lower(f["email"])
        paid    == {c \in PayColumns : f[c] # <<>>}
        manager == Lower(f["managerEmail"])
        whole   == paid = PayColumns
    IN  [fullName     |-> f["fullName"] = <<>> \/ Len(f["fullName"]) > MaxNameLength,
         email        |-> Len(email) > MaxEmailLength \/ ~LooksLikeEmail(email),
         country      |-> Meant(Upper(f["country"]), CountryText) = {},
         department   |-> MeantLower(f["department"], DepartmentText) = {},
         jobLevel     |-> MeantLower(f["jobLevel"], LevelText) = {},
         jobTitle     |-> Len(f["jobTitle"]) > MaxNameLength,
         hireDate     |-> ~IsDate(f["hireDate"]),
         status       |-> f["status"] # <<>> /\ Upper(f["status"]) \notin {<<"ACTIVE">>, <<"LEFT">>},
         leftOn       |-> IF status = "ACTIVE" THEN f["leftOn"] # <<>>
                          ELSE \/ ~IsDate(f["leftOn"])
                               \/ IsDate(f["hireDate"]) /\ DayOf(f["leftOn"]) < DayOf(f["hireDate"]),
         salary       |-> paid # {} /\ ~whole,
         salaryCurrency |-> whole /\ ~Supported(f["salaryCurrency"]),
         salaryEffectiveFrom |-> /\ whole /\ Supported(f["salaryCurrency"])
                                 /\ ~IsDate(f["salaryEffectiveFrom"]),
         salaryAmount |-> /\ whole /\ Supported(f["salaryCurrency"])
                          /\ IsDate(f["salaryEffectiveFrom"])
                          /\ ParseAmountToMinor(f["salaryAmount"]) = Refused,
         managerEmail |-> manager # <<>> /\ (~LooksLikeEmail(manager) \/ manager = email)]

\* The columns one row is wrong in.
ProblemColumns(f) == LET wrong == Wrong(f) IN Where(CheckedColumns, LAMBDA c : wrong[c])

\* What readRow returns for a row with nothing wrong.
Draft(row, f) ==
    LET status == ReadStatus(f["status"])
        the(S) == CHOOSE x \in S : TRUE
    IN  [row |-> row, name |-> f["fullName"], email |-> Lower(f["email"]),
         country |-> the(Meant(Upper(f["country"]), CountryText)),
         department |-> the(MeantLower(f["department"], DepartmentText)),
         level |-> the(MeantLower(f["jobLevel"], LevelText)),
         hired |-> DayOf(f["hireDate"]), status |-> status,
         left |-> IF status = "LEFT" THEN DayOf(f["leftOn"]) ELSE Null,
         manager |-> Lower(f["managerEmail"]),
         pay |-> IF f["salaryAmount"] = <<>> THEN NoPay
                 ELSE [amount |-> ParseAmountToMinor(f["salaryAmount"]),
                       currency |-> the({c \in Currencies : Upper(f["salaryCurrency"]) = <<c>>}),
                       from |-> DayOf(f["salaryEffectiveFrom"])]]

-----------------------------------------------------------------------------
(* A whole file *)

Problem(row, column) == [row |-> row, column |-> column]

AboutFile(column) == [rows |-> <<>>, problems |-> <<Problem(1, column)>>, totalRows |-> 0]

\* Each line under the header: its cells by column.
Fields(table, at) ==
    [line \in 2..Len(table) |-> [c \in Columns |-> Field(table[line], at[c])]]

\* Of two rows with one address the later is refused.
WithoutRepeats(fields, columns) ==
    LET email(line) == Lower(fields[line]["email"])
        again(line) == \E n \in 2..(line - 1) : columns[n] = <<>> /\ email(n) = email(line)
    IN  [line \in DOMAIN fields |->
            IF columns[line] = <<>> /\ again(line) THEN <<"email">> ELSE columns[line]]

Reading(fields, found) ==
    LET lines == [k \in 1..Cardinality(DOMAIN fields) |-> k + 1]
        good  == Where(lines, LAMBDA line : found[line] = <<>>)
    IN  [rows      |-> [k \in DOMAIN good |-> Draft(good[k], fields[good[k]])],
         problems  |-> FlattenSeq([k \in DOMAIN lines |->
                           [n \in DOMAIN found[lines[k]] |-> Problem(lines[k], found[lines[k]][n])]]),
         totalRows |-> Len(lines)]

\* Every row is read, whatever is wrong with those before it.
ParseEmployeeCsv(table) ==
    IF table = <<>> THEN AboutFile("file")
    ELSE IF MissingColumns(table[1]) # {} THEN AboutFile("header")
    ELSE LET fields  == Fields(table, ReadHeader(table[1]))
             columns == [line \in DOMAIN fields |-> ProblemColumns(fields[line])]
         IN  Reading(fields, WithoutRepeats(fields, columns))

\* orderByManager, in rounds; what no round places is left over.
OrderByManager(rows, existing) ==
    LET inFile  == {rows[k].email : k \in DOMAIN rows}
        known   == existing \cup inFile \cup {<<>>}
        placed(s) == {x.email : x \in UNION {Range(s.layers[k]) : k \in DOMAIN s.layers}}
        ready(s)  == Where(s.pending, LAMBDA x : x.manager \in existing \cup placed(s) \cup {<<>>})
        after[n \in 0..Len(rows)] ==
            IF n = 0 THEN [layers |-> <<>>, pending |-> Where(rows, LAMBDA x : x.manager \in known)]
            ELSE LET s == after[n - 1]
                     r == ready(s)
                 IN  IF r = <<>> THEN s
                     ELSE [layers  |-> Append(s.layers, r),
                           pending |-> Where(s.pending, LAMBDA x : x \notin Range(r))]
    IN  [layers         |-> after[Len(rows)].layers,
         missingManager |-> Where(rows, LAMBDA x : x.manager \notin known),
         cyclic         |-> after[Len(rows)].pending]

About(rows, column) == [k \in DOMAIN rows |-> Problem(rows[k].row, column)]

\* findEmployeeIdsByEmail, as far as a check needs it.
TakenAddresses(db) == {Lower(EmailText[i]) : i \in DOMAIN db.employees}

\* What reading complained about, then those already there, then those without a place.
Checked(table, parsed, taken) ==
    LET isTaken(x) == x.email \in taken
        order == OrderByManager(Where(parsed.rows, LAMBDA x : ~isTaken(x)), taken)
    IN  [table     |-> table,
         totalRows |-> parsed.totalRows,
         problems  |-> parsed.problems \o About(Where(parsed.rows, isTaken), "email")
                          \o About(order.missingManager, "managerEmail")
                          \o About(order.cyclic, "managerEmail"),
         layers    |-> order.layers]

\* The service refuses who may not ask, and a file of too many rows.
CheckFile(db, subject, text) ==
    LET table == ParseCsv(text)
    IN  IF AccessScopeFor(subject).kind # "ALL" THEN Forbidden
        ELSE IF Len(table) - 1 > MaxImportRows THEN Failed
        ELSE Checked(table, ParseEmployeeCsv(table), TakenAddresses(db))

ValidRows(checked) == Len(FlattenSeq(checked.layers))

Summary(checked) ==
    [totalRows |-> checked.totalRows, validRows |-> ValidRows(checked),
     problems |-> SubSeq(checked.problems, 1, Min({MaxReportedProblems, Len(checked.problems)})),
     problemCount |-> Len(checked.problems)]

-----------------------------------------------------------------------------
(* The report: the file back, with what is wrong beside each row *)

\* The texts about one row, joined in one cell.
Complaint(problems, row) ==
    LET texts == Where(problems, LAMBDA p : p.row = row)
    IN  FlattenSeq([k \in DOMAIN texts |->
                       (IF k = 1 THEN <<>> ELSE <<";", Space>>) \o <<texts[k].column, ":", Space, "wrong">>])

\* Mutant: the complaints are put one row too high.
ReportRowsShifted(table, problems) ==
    [k \in DOMAIN table |-> Append(table[k], IF k = 1 THEN <<"problems">>
                                             ELSE Complaint(problems, k + 1))]

ReportRows(table, problems) ==
    [k \in DOMAIN table |-> Append(table[k], IF k = 1 THEN <<"problems">>
                                             ELSE Complaint(problems, k))]

\* When it is the file that is wrong, its rows are not repeated.
ToProblemReportCsv(table, problems) ==
    LET about == {problems[k].row : k \in DOMAIN problems}
        lines == IF about \ (2..Len(table)) = {} /\ table # <<>> THEN ReportRows(table, problems)
                 ELSE <<(<<(<<"problems">>)>>), (<<Complaint(problems, 1)>>)>>
    IN  FlattenSeq([k \in DOMAIN lines |-> ToCsvLine(lines[k])])

-----------------------------------------------------------------------------
(* Writing people *)

\* toCsvRecord, in the order of the columns.
ToCsvRecord(row) ==
    LET e   == row.employee
        pay == row.salary
    IN  <<NameText[e.name], EmailText[row.id], CountryText[e.country], DepartmentText[e.department],
          LevelText[e.level], <<>>, DayText[e.hired], <<e.status>>,
          IF e.left = Null THEN <<>> ELSE DayText[e.left],
          IF e.manager = Null THEN <<>> ELSE EmailText[e.manager]>>
        \o IF pay = NoPay THEN <<(<<>>), (<<>>), (<<>>)>>
           ELSE <<FormatMinorToDecimal(pay.amount), <<pay.currency>>, DayText[pay.from]>>

HeaderLine == ToCsvLine([k \in DOMAIN ColumnList |-> <<ColumnList[k]>>])

\* Everything is spelt so that it is read as itself, also with an apostrophe in front if it
\* looks like a formula: no two columns, addresses, places or days are spelt alike.
ASSUME SpellingConstants ==
    /\ NameText \in [Names -> Seq(STRING)] /\ EmailText \in [People -> Seq(STRING)]
    /\ CountryText \in [Countries -> Seq(STRING)] /\ DepartmentText \in [Departments -> Seq(STRING)]
    /\ LevelText \in [Levels -> Seq(STRING)] /\ DayText \in [Days -> Seq(STRING)]
    /\ \A n \in Names : NameText[n] # <<>>
    /\ \A i \in People : LooksLikeEmail(Lower(Guarded(EmailText[i])))
    /\ \A i, j \in People :
           Lower(Guarded(EmailText[i])) = Lower(Guarded(EmailText[j])) => i = j
    /\ \A c \in Countries : Meant(Upper(Guarded(CountryText[c])), CountryText) = {c}
    /\ \A d \in Departments : MeantLower(Guarded(DepartmentText[d]), DepartmentText) = {d}
    /\ \A l \in Levels : MeantLower(Guarded(LevelText[l]), LevelText) = {l}
    /\ \A d \in Days : DayText[d] # <<>> /\ Meant(Guarded(DayText[d]), DayText) = {d}
    /\ \A w \in Statuses \cup Currencies : Upper(<<w>>) = <<w>> /\ Guarded(<<w>>) = <<w>>
    /\ \A c, d \in Columns : Normalised(<<c>>) = Lower(<<d>>) <=> c = d
=============================================================================
