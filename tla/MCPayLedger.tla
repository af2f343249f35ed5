---------------------------- MODULE MCPayLedger -----------------------------
(* PayLedger on a small instance.  An amount is a number of units, a         *)
(* percentage one unit more or less.                                         *)
EXTENDS PayLedger, TLC

Interchangeable == Permutations(Runs)

MCPercents == {-1, 1}

MCRaised ==
    [p \in Percents |-> [a \in Amounts |-> IF a + p \in Amounts THEN a + p ELSE Refused]]

\* The first was there from the start; the second was hired on the last day.
MCHired == [e \in Employees |-> IF e = 1 THEN 1 ELSE MaxDay]

MCOffer == [e \in Employees |-> 2]

\* bulkRaise.ts, of somebody who already has a change dated the day of the raise: "Left
\* alone rather than added to, because the salary in force is decided by the latest
\* record on a date and writing another would silently override whatever they decided".
SameDayChangeLeftAlone ==
    \A x, y \in ledger :
        /\ x.percent # NoPercent /\ x # y
        /\ x.employee = y.employee /\ x.from = y.from
        => x.id < y.id
=============================================================================
