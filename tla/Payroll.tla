------------------------------ MODULE Payroll -------------------------------
(***************************************************************************)
(* What every screen reads: people, their pay records, the pay bands and   *)
(* the exchange rates, and how pay "as it stood on a day" is worked out,   *)
(* once by the joins of src/repositories/employeeRow.ts and once, of a     *)
(* history already in memory, by src/domain/compensation.ts.               *)
(*                                                                         *)
(* A table is a field of "db".  Days, levels, countries and departments    *)
(* are numbers, so that they sort; an amount is in minor units, and a rate *)
(* counts RateUnit as one: the numeric(18,8) of fx_rates has 10^8 of it.   *)
(***************************************************************************)
EXTENDS Money, FiniteSets, Sequences, FiniteSetsExt, SequencesExt

CONSTANTS
    People,        \* ids that may be drawn
    Names,         \* numbers that sort as the names do
    Countries, Departments,
    Levels,        \* a level is its rank
    Currencies,
    Rates,         \* fx_rates: a function on some of the currencies
    RateUnit,      \* a power of ten
    Amounts,       \* the amounts that may be recorded
    MaxDay,
    DaysPerMonth

Null == -1

Days == 0..MaxDay

Statuses == {"ACTIVE", "LEFT"}

Genders == {"FEMALE", "MALE", "OTHER"}

Employee ==
    {e \in [name : Names, country : Countries, department : Departments, level : Levels,
            gender : Genders \cup {"unrecorded"}, hired : Days, status : Statuses,
            left : Days \cup {Null}, manager : People \cup {Null}] :
        /\ (e.status = "LEFT") = (e.left # Null)
        /\ e.left # Null => e.left >= e.hired}

Record == [id : Nat, employee : People, amount : Amounts, currency : Currencies, from : Days]

Band == {b \in [currency : Currencies, min : Amounts, mid : Amounts, max : Amounts] :
            b.min <= b.mid /\ b.mid <= b.max}

Pairs == Levels \X Countries

ASSUME PayrollConstants ==
    /\ People \subseteq Nat \ {0} /\ IsFiniteSet(People)
    /\ Names \subseteq Nat /\ Countries \subseteq Nat
    /\ Departments \subseteq Nat /\ Levels \subseteq Nat
    /\ \A a \in Amounts : Payable(a)
    /\ MaxDay \in Nat /\ DaysPerMonth \in Nat \ {0}
    /\ "none" \notin Currencies
    /\ DOMAIN Rates \subseteq Currencies
    /\ \A c \in DOMAIN Rates : Rates[c] \in Nat \ {0}
    /\ RateUnit \in Nat \ {0} /\ RateUnit % 2 = 0

\* What ORDER BY makes of a set.  (SetToSortSeq searches all sequences for one.)
OrderBy(S, before(_, _)) ==
    [k \in 1..Cardinality(S) |-> CHOOSE x \in S : Cardinality({y \in S : before(y, x)}) = k - 1]

\* sum(), and the sums of a reduce: what w comes to over the members of S.
SumOf(w, S) == MapThenSumSet(LAMBDA i : w[i], S)

\* A row added to a table, in place of the one with its key if there is one.
Put(table, key, row) == [k \in DOMAIN table \cup {key} |-> IF k = key THEN row ELSE table[k]]

-----------------------------------------------------------------------------
(* Conversion *)

HasRate(currency) == currency \in DOMAIN Rates

Usd(amount, currency) == Round(amount * Rates[currency], RateUnit)

-----------------------------------------------------------------------------
(* The salary in force on a day *)

NoPay == [amount |-> Null, currency |-> "none", from |-> Null]

RecordsOf(db, i) == {c \in db.records : c.employee = i}

\* The order of effective_from and, on the same day, id.
Precedes(c, d) == c.from < d.from \/ (c.from = d.from /\ c.id < d.id)

PayOn(db, i, day) ==
    LET begun == {c \in RecordsOf(db, i) : c.from <= day}
    IN  IF begun = {} THEN NoPay
        ELSE CHOOSE c \in begun : \A d \in begun \ {c} : Precedes(d, c)

Paid(db, i, day) == PayOn(db, i, day) # NoPay

-----------------------------------------------------------------------------
(* A history in memory *)

\* listCompensationHistory: oldest first.
History(db, i) == OrderBy(RecordsOf(db, i), Precedes)

\* Mutant: a record that begins on the day has not begun.
CurrentRecordIndexStrict(history, day) ==
    Max({0} \cup {k \in DOMAIN history : history[k].from < day})

\* The last record that has begun, or 0.
CurrentRecordIndex(history, day) ==
    Max({0} \cup {k \in DOMAIN history : history[k].from <= day})

\* changeBetween: the change into the k-th record.
Change(history, k) ==
    IF k = 1 THEN [amount |-> Null, reason |-> "FIRST_RECORD"]
    ELSE LET was == history[k - 1]
             is == history[k]
         IN  IF was.currency # is.currency THEN [amount |-> Null, reason |-> "CURRENCY_CHANGED"]
             ELSE [amount |-> is.amount - was.amount, reason |-> "none"]

\* withChanges and the flags findEmployeeDetail adds.
WithChanges(history, day) ==
    [k \in DOMAIN history |->
        [record |-> history[k],
         change |-> Change(history, k),
         isCurrent |-> k = CurrentRecordIndex(history, day),
         isScheduled |-> history[k].from > day]]
=============================================================================
