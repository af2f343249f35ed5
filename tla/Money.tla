------------------------------- MODULE Money --------------------------------
(***************************************************************************)
(* Whole minor units: rounding, and what a percentage raise comes to, from *)
(* src/domain/money.ts and src/domain/raise.ts.  Numbers are integers: the *)
(* products of the code are exact up to 2^53.                              *)
(***************************************************************************)
EXTENDS Integers

CONSTANT MaxMinor      \* MAX_AMOUNT_MINOR

ASSUME MoneyConstants == MaxMinor \in Nat

\* What is thrown for an amount, or a text, that cannot be paid.
Refused == -1

\* 100%: of a raise, and of the width of a band.
Unit == 10000

\* Halves up, also below zero: Math.round, and round() of a numeric that is not negative.
Round(n, d) == (2 * n + d) \div (2 * d)

\* The percentages that parse: between -100% and 100%, and something.
BasisPoints == (-Unit)..Unit \ {0}

Payable(amount) == amount \in 1..MaxMinor

RaisedAmountMinor(amount, basisPoints) ==
    LET raised == amount + Round(amount * basisPoints, Unit)
    IN  IF Payable(amount) /\ Payable(raised) THEN raised ELSE Refused
=============================================================================
