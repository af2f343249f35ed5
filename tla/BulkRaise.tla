----------------------------- MODULE BulkRaise ------------------------------
(***************************************************************************)
(* The report of a bulk raise, which the preview shows and the apply acts  *)
(* on: src/services/bulkRaise.ts over the statement of                     *)
(* src/repositories/bulkRaise.ts.  One statement reads everybody, and the  *)
(* rest is arithmetic on what it read.  How the rows are written, and what *)
(* may happen meanwhile, is in PayLedger.                                  *)
(*                                                                         *)
(* A request is a record: who asks, the filter, the day the raise starts,  *)
(* the percentage in basis points and the people selected, or All.         *)
(***************************************************************************)
EXTENDS Directory

CONSTANTS
    MaxSelectable,     \* MAX_SELECTABLE
    MaxListed          \* MAX_LISTED

ASSUME BulkRaiseConstants == MaxSelectable \in Nat \ {0} /\ MaxListed \in Nat \ {0}

\* Mutant: the salary in force on the day of the raise itself.
BaseDayEffective(r) == r.from

\* previousDay: the salary that is raised is that of the day before.
BaseDay(r) == r.from - 1

Candidates(db, r) ==
    {i \in InScope(db, AccessScopeFor(r.subject)) :
        Passes(db.employees[i].status, "ACTIVE") /\ EmployeeFilter(db, i, r.filter)}

BasePay(db, r, i) == PayOn(db, i, BaseDay(r))

NewMinor(db, r, i) == RaisedAmountMinor(BasePay(db, r, i).amount, r.percent)

HiredLater(db, r) == {i \in Candidates(db, r) : db.employees[i].hired > r.from}

Unpaid(db, r) == {i \in Candidates(db, r) \ HiredLater(db, r) : BasePay(db, r, i) = NoPay}

Payees(db, r) == Candidates(db, r) \ (HiredLater(db, r) \cup Unpaid(db, r))

\* Somebody has a record of that day already; the last of them is in force on it.
Dated(db, r) == {i \in Payees(db, r) : \E c \in RecordsOf(db, i) : c.from = r.from}

AlreadyRecorded(db, r) ==
    {i \in Dated(db, r) : /\ PayOn(db, i, r.from).amount = NewMinor(db, r, i)
                          /\ PayOn(db, i, r.from).currency = BasePay(db, r, i).currency}

Planned(db, r) ==
    {i \in Payees(db, r) \ Dated(db, r) : r.employees = All \/ i \in r.employees}

\* raise() throws for one person, and there is no report: the amount for anybody paid, the
\* estimate for those who would be raised.
RaiseRefused(db, r) ==
    \/ \E i \in Payees(db, r) : NewMinor(db, r, i) = Refused
    \/ \E i \in Payees(db, r) \ Dated(db, r) :
           RaisedAmountMinor(SalaryUsd(db, i, BaseDay(r)), r.percent) = Refused

PlannedChange(db, r, i) ==
    [employee |-> i, currency |-> BasePay(db, r, i).currency,
     current |-> BasePay(db, r, i).amount, new |-> NewMinor(db, r, i),
     exceedsBand |-> BreachOf(BasePay(db, r, i).currency, NewMinor(db, r, i), BandOf(db, i))]

CurrencyTotal(changes) ==
    [affected |-> Cardinality(changes),
     current  |-> SumOf([c \in changes |-> c.current], changes),
     new      |-> SumOf([c \in changes |-> c.new], changes)]

\* By name, and by id among namesakes; what a breach exceeds the band by, largest first.
Summarise(db, r) ==
    LET planned == Planned(db, r)
        change == [i \in planned |-> PlannedChange(db, r, i)]
        usd(i) == SalaryUsd(db, i, BaseDay(r))
        estimate(i) == RaisedAmountMinor(usd(i), r.percent)
        breaches == {i \in planned : change[i].exceedsBand}
        excess == [i \in breaches |-> change[i].new - BandOf(db, i).max]
        named == OrderBy(planned, LAMBDA i, j :
                     \/ db.employees[i].name < db.employees[j].name
                     \/ db.employees[i].name = db.employees[j].name /\ i < j)
        worst == LargestFirst(excess, breaches)
        top(list, n) == SubSeq(list, 1, Min({n, Len(list)}))
    IN  [matched                |-> Cardinality(Candidates(db, r)),
         affected               |-> Cardinality(planned),
         skippedNoPay           |-> Cardinality(Unpaid(db, r)),
         skippedHiredLater      |-> Cardinality(HiredLater(db, r)),
         skippedAlreadyRecorded |-> Cardinality(AlreadyRecorded(db, r)),
         skippedChangedOnDate   |-> Cardinality(Dated(db, r) \ AlreadyRecorded(db, r)),
         skippedNotSelected     |-> Cardinality(Payees(db, r) \ (Dated(db, r) \cup planned)),
         byCurrency             |-> [c \in {change[i].currency : i \in planned} |->
                                        CurrencyTotal({change[i] : i \in {j \in planned :
                                                           change[j].currency = c}})],
         currentTotalUsd        |-> SumOf([i \in planned |-> usd(i)], planned),
         increaseUsdEstimate    |-> SumOf([i \in planned |-> estimate(i) - usd(i)], planned),
         wouldExceedBand        |-> top(worst, MaxListed),
         wouldExceedBandCount   |-> Cardinality(breaches),
         changes                |-> [k \in DOMAIN top(named, MaxSelectable) |-> change[named[k]]],
         changesTruncated       |-> Cardinality(planned) > MaxSelectable]

\* run() without apply: for HR only, and with no report at all if one person stands in its way.
Run(db, r) ==
    IF AccessScopeFor(r.subject).kind # "ALL" THEN Forbidden
    ELSE IF \E i \in Candidates(db, r) : ~Convertible(db, i, BaseDay(r)) THEN Failed
    ELSE IF RaiseRefused(db, r) THEN Failed
    ELSE Summarise(db, r)

\* The tables once it is applied and nothing came between: a record for everybody planned,
\* in the order of the ids.
Applied(db, r) ==
    LET planned == Planned(db, r)
        last    == Max({0} \cup {c.id : c \in db.records})
        row(i)  == [id |-> last + Cardinality({j \in planned : j <= i}), employee |-> i,
                    amount |-> NewMinor(db, r, i), currency |-> BasePay(db, r, i).currency,
                    from |-> r.from]
    IN  [db EXCEPT !.records = @ \cup {row(i) : i \in planned}]
=============================================================================
