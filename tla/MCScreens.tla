----------------------------- MODULE MCScreens ------------------------------
(* Screens on three small companies.  The first has a chain of managers, two people of   *)
(* one name, corrections on one day and a band; the second enough men and women at one   *)
(* level for a comparison, and somebody paid in a currency without a rate; the third     *)
(* pays people before it employs them.                                                   *)
EXTENDS Screens

MCLowerCase == [x \in {"Ann", "Eng", "GB", "IN", "L1", "L2", "USD", "INR", "LEFT", "fullName",
                       "jobLevel", "hireDate", "leftOn", "managerEmail", "salaryAmount",
                       "salaryCurrency", "salaryEffectiveFrom", "jobTitle"} |->
                   CASE x = "Ann" -> "ann" [] x = "Eng" -> "eng" [] x = "GB" -> "gb"
                     [] x = "IN" -> "in" [] x = "L1" -> "l1" [] x = "L2" -> "l2"
                     [] x = "USD" -> "usd" [] x = "INR" -> "inr" [] x = "LEFT" -> "left"
                     [] x = "fullName" -> "fullname" [] x = "jobLevel" -> "joblevel"
                     [] x = "hireDate" -> "hiredate" [] x = "leftOn" -> "lefton"
                     [] x = "managerEmail" -> "manageremail" [] x = "jobTitle" -> "jobtitle"
                     [] x = "salaryAmount" -> "salaryamount"
                     [] x = "salaryCurrency" -> "salarycurrency"
                     [] x = "salaryEffectiveFrom" -> "salaryeffectivefrom"]

\* The rates of src/db/seed/data.ts, to five places.
MCRates == [c \in {"USD", "INR"} |-> IF c = "USD" THEN 100000 ELSE 1204]

MCNameText == <<(<<"Ann", Comma, Quote, "A", Quote>>), (<<"=", "bo">>), (<<Space, "cy">>)>>

MCEmailText == <<(<<"Ann", "@", "acme", ".", "test">>), (<<"+", "bo", "@", "acme", ".", "test">>),
                 (<<"cy", "@", "acme", ".", "test">>), (<<"di", "@", "acme", ".", "test">>),
                 (<<"ed", "@", "acme", ".", "test">>)>>

MCCountryText == <<(<<"GB">>), (<<"IN">>)>>
MCDepartmentText == <<(<<"Eng">>)>>
MCLevelText == <<(<<"L1">>), (<<"L2">>)>>
MCDayText == [d \in Days |-> <<(<<"d0", "d1", "d2", "d3", "d4", "d5">>)[d + 1]>>]

Person(name, level, gender, hired, manager) ==
    [name |-> name, country |-> 1, department |-> 1, level |-> level, gender |-> gender,
     hired |-> hired, status |-> "ACTIVE", left |-> Null, manager |-> manager]

Gone(person, day) == [person EXCEPT !.status = "LEFT", !.left = day]

Pay(amount, currency, from) == [amount |-> amount, currency |-> currency, from |-> from]

Records(list) == {[id |-> k, employee |-> list[k][1], amount |-> list[k][2].amount,
                   currency |-> list[k][2].currency, from |-> list[k][2].from] : k \in DOMAIN list}

UsdBand == [currency |-> "USD", min |-> 305, mid |-> 400, max |-> 500]

MCCompanies ==
    {[employees |-> <<Person(1, 1, "MALE", 0, Null), Person(1, 1, "FEMALE", 1, 1),
                      Gone(Person(3, 2, "MALE", 0, 2), 3)>>,
      records   |-> Records(<<(<<1, Pay(500, "USD", 0)>>), (<<2, Pay(305, "USD", 1)>>),
                              (<<2, Pay(300, "USD", 1)>>), (<<1, Pay(1205, "USD", 4)>>),
                              (<<3, Pay(305, "INR", 0)>>)>>),
      bands     |-> (<<1, 1>> :> UsdBand)],
     [employees |-> <<Person(1, 1, "MALE", 0, Null), Person(2, 1, "MALE", 0, Null),
                      Person(3, 1, "FEMALE", 0, 1), Person(3, 1, "FEMALE", 0, 1)>>,
      records   |-> Records(<<(<<1, Pay(500, "USD", 0)>>), (<<2, Pay(300, "USD", 0)>>),
                              (<<3, Pay(305, "USD", 0)>>), (<<4, Pay(300, "CAD", 4)>>)>>),
      bands     |-> <<>>],
     [employees |-> <<Person(2, 2, "OTHER", 2, Null)>>,
      records   |-> Records(<<(<<1, Pay(300, "USD", 0)>>)>>),
      bands     |-> <<>>]}

MCHires ==
    {[person |-> Person(2, 1, "unrecorded", 1, 1), pay |-> Pay(305, "USD", 2)],
     [person |-> Person(1, 2, "unrecorded", 0, Null), pay |-> NoPay]}

MCRaises == {Pay(500, "USD", 3)}

MCPolicies ==
    {[pair |-> <<1, 1>>, band |-> [UsdBand EXCEPT !.currency = "INR", !.min = 400]],
     [pair |-> <<2, 1>>, band |-> UsdBand],
     [pair |-> <<1, 2>>, band |-> [UsdBand EXCEPT !.mid = 1205]]}

-----------------------------------------------------------------------------

Admin == [role |-> "HR_ADMIN", employee |-> Null]
Manager(i) == [role |-> "MANAGER", employee |-> i]

Everything == [subject |-> Admin, asOf |-> 3, status |-> All, fit |-> All, search |-> <<>>,
               filter |-> [country |-> All, department |-> All, level |-> All],
               sortBy |-> "salary", sortDir |-> "desc"]

MCQueries ==
    {Everything,
     [Everything EXCEPT !.asOf = 4, !.sortBy = "name", !.sortDir = "asc", !.search = <<"ann", Space>>],
     [Everything EXCEPT !.asOf = 0, !.status = "LEFT", !.sortBy = "hireDate"],
     [Everything EXCEPT !.subject.role = "HR_VIEWER", !.filter.level = 1, !.sortDir = "asc"],
     [Everything EXCEPT !.subject = Manager(1), !.sortBy = "status"],
     [Everything EXCEPT !.subject = Manager(2), !.sortBy = "level", !.fit = "NO_BAND"],
     [Everything EXCEPT !.subject = [role |-> "EMPLOYEE", employee |-> 3],
                        !.sortBy = "department", !.filter.country = 1]}

\* A large raise of everybody from the day of a correction, a cut of two from the next, one
\* of people not hired yet, and one asked for by somebody who may not.
MCRaiseRequests ==
    LET request == [subject |-> Admin, from |-> 3, percent |-> 3350, employees |-> All,
                    filter |-> Everything.filter]
    IN  {request, [request EXCEPT !.from = 4, !.percent = -1750, !.employees = {1, 4}],
         [request EXCEPT !.from = 1, !.percent = 10000],
         [request EXCEPT !.subject = Manager(1)]}

MCPageOpener == [subject |-> Admin, asOf |-> 3]

MCExports == {Everything, [Everything EXCEPT !.status = "ACTIVE", !.asOf = 4]}

-----------------------------------------------------------------------------

Cols == [k \in DOMAIN ColumnList |-> <<ColumnList[k]>>]

Mail(x) == <<x, "@", "acme", ".", "test">>

RowOf(name, mail, boss) ==
    <<(<<name>>), mail, <<"gb">>, <<"ENG">>, <<"L1">>, <<>>, <<"d1">>, <<>>, <<>>, boss,
      <<>>, <<>>, <<>>>>

FileOf(rows) == FlattenSeq([k \in DOMAIN rows |-> ToCsvLine(rows[k])])

With(row, changes) == [k \in DOMAIN row |-> IF k \in DOMAIN changes THEN changes[k] ELSE row[k]]

\* A report above its manager, a chain below somebody missing, a circle, one address twice.
Hierarchy ==
    FileOf(<<Cols, RowOf("a", Mail("a"), Mail("b")), RowOf("b", Mail("b"), Mail("cy")),
             RowOf("c", Mail("c"), Mail("nobody")), RowOf("d", Mail("d"), Mail("c")),
             RowOf("e", Mail("e"), Mail("f")), RowOf("f", Mail("f"), Mail("e")),
             RowOf("g", Mail("a"), <<>>), RowOf("h", Mail("cy"), <<>>)>>)

\* A mark in front, an unknown and a repeated column, blank lines, something wrong in every
\* column, amounts of every kind, and a name over two lines.
Mistakes ==
    LET row == RowOf("a", Mail("a"), <<>>)
        pay(mail, amount) == With(row, 2 :> Mail(mail) @@ 11 :> amount @@ 12 :> <<"usd">> @@ 13 :> <<"d2">>)
    IN  <<BOM>> \o ToCsvLine(With(Cols, 1 :> <<"full", "_", "name">>) \o <<(<<"email">>), (<<"notes">>)>>)
        \o <<LF, "a", LF>>
        \o FileOf(<<With(row, 1 :> <<"a", LF, "b">> @@ 5 :> <<"L", "9">>),
                    With(row, 2 :> <<"a", "@">> @@ 3 :> <<"xxx">> @@ 7 :> <<"d9">> @@ 10 :> <<"b">>),
                    With(row, 8 :> <<"left">> @@ 9 :> <<"d0">>),
                    With(row, 8 :> <<"gone">> @@ 9 :> <<"d4">> @@ 10 :> Mail("a"))>>)
        \o <<LF>>
        \o FileOf(<<pay("p", <<"1", "2", ".", "5">>), pay("q", <<"1", Comma, "0">>),
                    pay("r", <<"0", ".", "0", "0">>), pay("s", <<"1", ".", "0", "0", "5">>),
                    pay("t", <<".", "5">>), pay("u", <<"9", "9", "9">>),
                    With(pay("v", <<"1">>), 12 :> <<>>),
                    With(row, 2 :> <<"a", "b", "c">> \o Mail("w"))>>)

\* Half a file of somebody else's: spaces around a quoted cell, and no final newline.
Pasted ==
    ToCsvLine(SubSeq(Cols, 1, 7))
        \o <<Space, Quote, "x", Quote, Quote, "y", Quote, Space, Comma>> \o Mail("x")
        \o <<Comma, "GB", Comma, Space, "Eng", Comma, "L2", Comma, Comma, "d0">>

MCUploads ==
    {[text |-> t, subject |-> Admin] :
        t \in {<<>>, FileOf(<<SubSeq(Cols, 2, 13), RowOf("a", Mail("a"), <<>>)>>), Hierarchy,
               Mistakes, Pasted, FileOf(<<Cols>> \o [k \in 1..15 |-> <<(<<"a">>)>>])}}
    \cup {[text |-> Pasted, subject |-> Manager(1)]}
=============================================================================
