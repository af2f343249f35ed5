------------------------------ MODULE MCTrend -------------------------------
(* The payroll trend of a company of one person, who may leave: which months it has.       *)
EXTENDS MCScreens

MCOnePerson ==
    {[employees |-> <<Person(1, 1, "FEMALE", 0, Null)>>,
      records   |-> Records(<<(<<1, Pay(500, "USD", 0)>>)>>),
      bands     |-> <<>>]}

MCTrendQuery == {Everything}

\* src/repositories/payrollTrend.ts:104: a month nobody was paid in is a zero on the chart
\* rather than a gap in the line.
EveryMonthIsShown ==
    req = NoRequest => \A q \in Queries : CanSeeAggregates(q.subject) =>
        DOMAIN PayrollTrendFor(db, q.subject, q.asOf, MaxHistoryMonths, MaxHorizonMonths)
            = Months(q.asOf, MaxHistoryMonths, MaxHorizonMonths)
=============================================================================
