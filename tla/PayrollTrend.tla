---------------------------- MODULE PayrollTrend ----------------------------
(***************************************************************************)
(* Payroll month by month, from src/repositories/payrollTrend.ts.  Instead *)
(* of looking up a salary in force for everybody and every month, the      *)
(* statement gives each record a window, from its own day to that of the   *)
(* person's next record, and joins each month with the windows it is in.   *)
(***************************************************************************)
EXTENDS Directory

CONSTANTS
    MaxHistoryMonths,  \* MAX_HISTORY_MONTHS
    MaxHorizonMonths   \* MAX_HORIZON_MONTHS

ASSUME TrendConstants == MaxHistoryMonths \in Nat \ {0} /\ MaxHorizonMonths \in Nat

\* date_trunc('month', day)
MonthOf(day) == day - (day % DaysPerMonth)

Bounded(value, low, high) == Min({Max({value, low}), high})

\* generate_series, in the days there are.
Months(asOf, history, horizon) ==
    {m \in {MonthOf(asOf) + k * DaysPerMonth : k \in -history..horizon} : m \in Days}

\* lead() over a person's records in order: the day the next one begins, if any.
NextFrom(db, c) ==
    LET after == {d.from : d \in {x \in RecordsOf(db, c.employee) : Precedes(c, x)}}
    IN  IF after = {} THEN Null ELSE Min(after)

\* Mutant: a window still holds on the day the next one begins.
InWindowInclusive(db, c, m) ==
    c.from <= m /\ (NextFrom(db, c) = Null \/ NextFrom(db, c) >= m)

InWindow(db, c, m) == c.from <= m /\ (NextFrom(db, c) = Null \/ NextFrom(db, c) > m)

\* Hired by the first of the month and not yet gone.
EmployedIn(db, i, m) ==
    db.employees[i].hired <= m /\ (db.employees[i].left = Null \/ db.employees[i].left >= m)

Windows(db, m) == {c \in db.records : InWindow(db, c, m)}

PayrollRows(db, m) == {c \in Windows(db, m) : EmployedIn(db, c.employee, m)}

\* The WHERE keeps a month without any window, as a zero, and the windows of people
\* employed; of a month with windows of other people only, nothing is left to group.
MonthShown(db, m) == Windows(db, m) = {} \/ PayrollRows(db, m) # {}

\* sum() passes over what has no rate.
TrendPoint(db, asOf, m) ==
    [payroll |-> LET rated == {c \in PayrollRows(db, m) : HasRate(c.currency)}
                 IN  SumOf([c \in rated |-> Usd(c.amount, c.currency)], rated),
     paidHeadcount |-> Cardinality(PayrollRows(db, m)),
     kind |-> IF m <= MonthOf(asOf) THEN "ACTUAL" ELSE "COMMITTED"]

Trend(db, asOf, history, horizon) ==
    [m \in {m \in Months(asOf, history, horizon) : MonthShown(db, m)} |->
        TrendPoint(db, asOf, m)]

\* The answer to one who may ask, for a window the chart can draw.
PayrollTrendFor(db, subject, asOf, history, horizon) ==
    IF CanSeeAggregates(subject)
    THEN Trend(db, asOf, Bounded(history, 1, MaxHistoryMonths),
               Bounded(horizon, 0, MaxHorizonMonths))
    ELSE Forbidden

\* committedChange: the last month against the last actual one.
CommittedChange(trend) ==
    LET actual == {m \in DOMAIN trend : trend[m].kind = "ACTUAL"}
    IN  IF actual = {} \/ actual = DOMAIN trend THEN 0
        ELSE trend[Max(DOMAIN trend)].payroll - trend[Max(actual)].payroll
=============================================================================
