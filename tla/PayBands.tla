------------------------------ MODULE PayBands ------------------------------
(***************************************************************************)
(* Pay against the band for somebody's level in their country, three       *)
(* times: bandStanding() of src/domain/payBand.ts classifies one person;   *)
(* the conditions of src/repositories/payBands.ts select people in SQL;    *)
(* and src/repositories/bands.ts counts them per pair of level and         *)
(* country.  src/services/payBands.ts puts them on screens.                *)
(***************************************************************************)
EXTENDS Payroll

NoBand == [currency |-> "none", min |-> Null, mid |-> Null, max |-> Null]

Fits == {"BELOW", "WITHIN", "ABOVE", "NO_BAND", "NO_PAY", "OTHER_CURRENCY"}

PairOf(db, i) == <<db.employees[i].level, db.employees[i].country>>

BandFor(db, pair) == IF pair \in DOMAIN db.bands THEN db.bands[pair] ELSE NoBand

BandOf(db, i) == BandFor(db, PairOf(db, i))

-----------------------------------------------------------------------------
(* One person, in TypeScript *)

NotCompared(fit) == [fit |-> fit, shortfall |-> 0, excess |-> 0, position |-> Null]

FitOf(amount, band) ==
    IF amount < band.min THEN "BELOW" ELSE IF amount > band.max THEN "ABOVE" ELSE "WITHIN"

PositionIn(amount, band) ==
    LET width == band.max - band.min
    IN  IF width = 0 THEN IF amount > band.max THEN Unit ELSE 0
        ELSE Round((amount - band.min) * Unit, width)

BandStanding(pay, band) ==
    CASE band = NoBand                -> NotCompared("NO_BAND")
      [] band # NoBand /\ pay = NoPay -> NotCompared("NO_PAY")
      [] band # NoBand /\ pay # NoPay ->
            IF pay.currency # band.currency THEN NotCompared("OTHER_CURRENCY")
            ELSE [fit |-> FitOf(pay.amount, band),
                  shortfall |-> Max({band.min - pay.amount, 0}),
                  excess |-> Max({pay.amount - band.max, 0}),
                  position |-> PositionIn(pay.amount, band)]

\* A raise past the top of the band, told only within one currency.
BreachOf(currency, newMinor, band) ==
    band # NoBand /\ band.currency = currency /\ newMinor > band.max

-----------------------------------------------------------------------------
(* One person, in SQL *)

Comparable(pay, band) == pay # NoPay /\ band # NoBand /\ pay.currency = band.currency

\* Mutant: the filter forgets that a salary is compared within one currency only.
BandFitConditionConverting(fit, pay, band) ==
    CASE fit = "BELOW"   -> pay # NoPay /\ band # NoBand /\ pay.amount < band.min
      [] fit = "WITHIN"  -> Comparable(pay, band) /\ pay.amount \in band.min..band.max
      [] fit = "ABOVE"   -> Comparable(pay, band) /\ pay.amount > band.max
      [] fit = "NO_BAND" -> band = NoBand
      [] fit = "NO_PAY"  -> band # NoBand /\ pay = NoPay
      [] fit = "OTHER_CURRENCY" -> pay # NoPay /\ band # NoBand /\ pay.currency # band.currency

BandFitCondition(fit, pay, band) ==
    CASE fit = "BELOW"   -> Comparable(pay, band) /\ pay.amount < band.min
      [] fit = "WITHIN"  -> Comparable(pay, band) /\ pay.amount \in band.min..band.max
      [] fit = "ABOVE"   -> Comparable(pay, band) /\ pay.amount > band.max
      [] fit = "NO_BAND" -> band = NoBand
      [] fit = "NO_PAY"  -> band # NoBand /\ pay = NoPay
      [] fit = "OTHER_CURRENCY" -> pay # NoPay /\ band # NoBand /\ pay.currency # band.currency

-----------------------------------------------------------------------------
(* Counted per pair *)

Active(db) == {i \in DOMAIN db.employees : db.employees[i].status = "ACTIVE"}

\* One row of buildBandCoverageQuery.
CoverageRow(db, pair, day) ==
    LET band    == BandFor(db, pair)
        group   == {i \in Active(db) : PairOf(db, i) = pair}
        pay(i)  == PayOn(db, i, day)
        paid    == {i \in group : pay(i) # NoPay}
        same    == {i \in paid : band # NoBand /\ pay(i).currency = band.currency}
        count(S) == Cardinality(S)
    IN  [band          |-> band,
         headcount     |-> count(group),
         paidHeadcount |-> count(paid),
         payCurrencies |-> count({pay(i).currency : i \in paid}),
         below         |-> count({i \in same : pay(i).amount < band.min}),
         within        |-> count({i \in same : pay(i).amount >= band.min /\ pay(i).amount <= band.max}),
         above         |-> count({i \in same : pay(i).amount > band.max}),
         otherCurrency |-> count({i \in paid : band # NoBand /\ pay(i).currency # band.currency})]

\* Pairs that have people, and pairs that have a band; coverageFor adds up what lacks one.
Coverage(db, day) ==
    LET pairs   == {PairOf(db, i) : i \in Active(db)} \cup DOMAIN db.bands
        row     == [p \in pairs |-> CoverageRow(db, p, day)]
        missing == {p \in pairs : row[p].band = NoBand /\ row[p].headcount > 0}
    IN  [rows              |-> row,
         pairsWithoutBand  |-> Cardinality(missing),
         peopleWithoutBand |-> SumOf([p \in missing |-> row[p].headcount], missing)]

-----------------------------------------------------------------------------
(* Setting a band *)

\* save() up to its statement: the edges in order, the upsert on (level, country).
WithBand(db, pair, band) == [db EXCEPT !.bands = Put(@, pair, band)]

WithoutBand(db, pair) == [db EXCEPT !.bands = [p \in DOMAIN @ \ {pair} |-> @[p]]]
=============================================================================
