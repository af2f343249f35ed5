------------------------------ MODULE Figures -------------------------------
(***************************************************************************)
(* The company-wide figures that one statement of                          *)
(* src/repositories/statistics.ts and one of src/repositories/payGap.ts    *)
(* compute: the overview with its groups and its histogram, and the pay    *)
(* gap.  src/services/statistics.ts decides who is answered.               *)
(***************************************************************************)
EXTENDS PayrollTrend

CONSTANTS
    MinGroup,      \* MIN_GROUP_FOR_MEDIAN
    Buckets        \* DISTRIBUTION_BUCKETS

-----------------------------------------------------------------------------
(* Percentiles *)

\* A double cast to bigint rounds halves to the even neighbour.
RoundEven(n, d) ==
    LET q == n \div d
        r == n % d
    IN  IF 2 * r < d \/ (2 * r = d /\ q % 2 = 0) THEN q ELSE q + 1

\* percentile_cont(quarters / 4) of what each person has: linear between the two values next to the position.
Percentile(of, quarters) ==
    LET sorted == OrderBy(DOMAIN of, LAMBDA i, j : of[i] < of[j] \/ (of[i] = of[j] /\ i < j))
        at     == quarters * (Len(sorted) - 1)
        low    == of[sorted[at \div 4 + 1]]
        high   == of[sorted[Min({at \div 4 + 2, Len(sorted)})]]
    IN  RoundEven(4 * low + (at % 4) * (high - low), 4)

Median(of) == Percentile(of, 2)

-----------------------------------------------------------------------------
(* Overview *)

\* The CTE "pay": who matches, and of them who is paid in a currency that has a rate.
Counted(db, q) ==
    {i \in DOMAIN db.employees :
        EmployeeFilter(db, i, q.filter) /\ Passes(db.employees[i].status, q.status)}

Priced(db, q) == {i \in Counted(db, q) : SalaryUsd(db, i, q.asOf) # Null}

Overall(db, q) ==
    LET priced == Priced(db, q)
        usd    == [i \in priced |-> SalaryUsd(db, i, q.asOf)]
        total  == SumOf(usd, priced)
        if(v)  == IF priced = {} THEN Null ELSE v
    IN  [headcount     |-> Cardinality(Counted(db, q)),
         paidHeadcount |-> Cardinality(priced),
         unconvertible |-> Cardinality({i \in Counted(db, q) : ~Convertible(db, i, q.asOf)}),
         total  |-> total,
         mean   |-> if(Round(total, Cardinality(priced))),
         median |-> if(Median(usd)),
         p25    |-> if(Percentile(usd, 1)),
         p75    |-> if(Percentile(usd, 3)),
         min    |-> if(Min(Range(usd))),
         max    |-> if(Max(Range(usd)))]

GroupOf(db, i, by) ==
    CASE by = "department" -> db.employees[i].department
      [] by = "country"    -> db.employees[i].country
      [] by = "jobLevel"   -> db.employees[i].level

\* A small group reports no median.
Groups(db, q, by) ==
    LET usd == [i \in Priced(db, q) |-> SalaryUsd(db, i, q.asOf)]
    IN  [g \in {GroupOf(db, i, by) : i \in Counted(db, q)} |->
            LET members == {i \in Counted(db, q) : GroupOf(db, i, by) = g}
                priced  == members \cap DOMAIN usd
            IN  [headcount     |-> Cardinality(members),
                 paidHeadcount |-> Cardinality(priced),
                 total         |-> SumOf(usd, priced),
                 median        |-> IF Cardinality(priced) >= MinGroup THEN Median(Restrict(usd, priced))
                                   ELSE Null]]

-----------------------------------------------------------------------------
(* Histogram *)

\* Mutant: the top value is left in a bar of its own, which is not shown.
BucketUnfolded(usd, lo, hi) == ((usd - lo) * Buckets) \div (hi - lo) + 1

\* width_bucket, with what lies on the upper bound folded into the last bar.
BucketOf(usd, lo, hi) == Min({((usd - lo) * Buckets) \div (hi - lo) + 1, Buckets})

\* The label of the k-th boundary.
Edge(lo, hi, k) == Round(lo * Buckets + (hi - lo) * k, Buckets)

Distribution(db, q) ==
    LET priced == Priced(db, q)
        usd(i) == SalaryUsd(db, i, q.asOf)
        lo     == Min({usd(i) : i \in priced})
        top    == Max({usd(i) : i \in priced})
        hi     == IF top = lo THEN lo + 1 ELSE top
    IN  IF priced = {} THEN <<>>
        ELSE [k \in 1..Buckets |->
                [from |-> Edge(lo, hi, k - 1), to |-> Edge(lo, hi, k),
                 employees |-> Cardinality({i \in priced : BucketOf(usd(i), lo, hi) = k})]]

\* Of those employed, unless a status is asked for; a salary that cannot be converted
\* refuses the whole overview.
Overview(db, asked) ==
    LET q == [asked EXCEPT !.status = IF @ = All THEN "ACTIVE" ELSE @]
    IN  IF ~CanSeeAggregates(q.subject) THEN Forbidden
        ELSE IF Overall(db, q).unconvertible > 0 THEN Failed
        ELSE [overall      |-> Overall(db, q),
              byDepartment |-> Groups(db, q, "department"),
              byCountry    |-> Groups(db, q, "country"),
              byJobLevel   |-> Groups(db, q, "jobLevel"),
              distribution |-> Distribution(db, q)]

-----------------------------------------------------------------------------
(* Pay gap *)

Reference == "MALE"

\* Who can be compared: employed, paid, and of a recorded gender.
PaidActive(db, q) ==
    {i \in Counted(db, [q EXCEPT !.status = "ACTIVE"]) : Paid(db, i, q.asOf)}

Comparables(db, q) ==
    {i \in PaidActive(db, q) : db.employees[i].gender # "unrecorded"}

\* Mutant: the median of a group is published whatever its size.
GenderMedianOfAnyGroup(db, q, group) ==
    IF group = {} THEN Null ELSE Median([i \in group |-> PayOn(db, i, q.asOf).amount])

\* by_gender: in the cell's own currency, and only of a group large enough.
GenderMedian(db, q, group) ==
    IF Cardinality(group) < MinGroup THEN Null
    ELSE Median([i \in group |-> PayOn(db, i, q.asOf).amount])

\* One cell: a country and a level.  A gap is the one member of a set, or there is none.
Cell(db, q, pair) ==
    LET members  == {i \in Comparables(db, q) : PairOf(db, i) = pair}
        group(g) == {i \in members : db.employees[i].gender = g}
        median(g) == GenderMedian(db, q, group(g))
    IN  [headcount  |-> Cardinality(members),
         currencies |-> {PayOn(db, i, q.asOf).currency : i \in members},
         reference  |-> median(Reference),
         groups     |-> [g \in {db.employees[i].gender : i \in members} |->
                            [headcount |-> Cardinality(group(g)),
                             median    |-> median(g),
                             gap       |-> IF median(g) = Null \/ median(Reference) = Null THEN {}
                                           ELSE {median(g) - median(Reference)}]]]

\* toCell drops a cell without a reference median or without anything to hold against it.
Publishable(cell) ==
    /\ cell.reference # Null
    /\ \E g \in DOMAIN cell.groups \ {Reference} : cell.groups[g].gap # {}

\* A cell paid in two currencies and one that cannot be published are counted, not shown.
Report(cell, unrecorded) ==
    LET mixed == {p \in DOMAIN cell : Cardinality(cell[p].currencies) > 1}
        shown == {p \in DOMAIN cell \ mixed : Publishable(cell[p])}
    IN  [cells              |-> Restrict(cell, shown),
         suppressedCells    |-> Cardinality(DOMAIN cell) - Cardinality(mixed) - Cardinality(shown),
         mixedCurrencyCells |-> Cardinality(mixed),
         unrecordedGender   |-> Cardinality(unrecorded)]

PayGap(db, q) ==
    IF ~CanSeeAggregates(q.subject) THEN Forbidden
    ELSE Report([p \in {PairOf(db, i) : i \in Comparables(db, q)} |-> Cell(db, q, p)],
                PaidActive(db, q) \ Comparables(db, q))
=============================================================================
