----------------------------- MODULE PayLedger ------------------------------
(***************************************************************************)
(* compensation_records and its two writers: recordPay of                  *)
(* src/services/employees.ts, one row at a time, and the bulk raise of     *)
(* src/services/bulkRaise.ts, which reads everybody in one statement and   *)
(* writes what it decided in one transaction later.                        *)
(*                                                                         *)
(* Transactions are Postgres's at READ COMMITTED: a statement sees what    *)
(* was committed when it began; a row whose unique key an open transaction *)
(* has inserted waits for that transaction to end.  An amount stands for a *)
(* number of minor units and its currency.                                 *)
(***************************************************************************)
EXTENDS Integers, FiniteSets

CONSTANTS
    Employees,    \* their ids
    Runs,         \* concurrent bulk raises
    Amounts,
    Percents,
    Raised,       \* raisedAmountMinor: Raised[p][a], or Refused
    Refused,
    Hired,        \* hireDate; nothing changes it
    Offer,        \* the salary an employee was imported with
    MaxDay,       \* bound on the dates
    FirstId,      \* the first id the application draws
    LastId,       \* bound: nothing new is begun once it is drawn
    NoPercent

ASSUME LedgerConstants ==
    /\ Employees \subseteq Nat
    /\ Refused \notin Amounts
    /\ Raised \in [Percents -> [Amounts -> Amounts \cup {Refused}]]
    /\ MaxDay \in Nat
    /\ Hired \in [Employees -> 0..MaxDay]
    /\ Offer \in [Employees -> Amounts]
    /\ FirstId \in Nat /\ \A e \in Employees : e < FirstId
    /\ LastId \in Nat
    /\ NoPercent \notin Percents

VARIABLES
    ledger,    \* the committed rows
    pending,   \* pending[r]: the rows run r has inserted and not committed
    run,       \* the bulk raises in progress
    nextId     \* the id sequence

vars == <<ledger, pending, run, nextId>>

Days == 0..MaxDay

\* "percent" and "base" are history: the raise a row came from and what it raised.
Record == [id : Nat, employee : Employees, from : Days, amount : Amounts,
           percent : Percents \cup {NoPercent}, base : Amounts]

\* "plan" is what was decided, "todo" whose row has yet to be inserted, "wrote" the rows
\* that were.
Run == [pc : {"idle", "inserting", "applied", "failed"},
        plan : SUBSET [employee : Employees, from : Days, amount : Amounts,
                       percent : Percents, base : Amounts],
        todo : SUBSET Employees, wrote : SUBSET Record]

IdleRun == [pc |-> "idle", plan |-> {}, todo |-> {}, wrote |-> {}]

\* compensation_no_identical_record_idx
Key(x) == <<x.employee, x.from, x.amount>>

HasKey(S, x) == \E y \in S : Key(y) = Key(x)

\* An import may date a first salary before the hire date; everything else is later.
Imported(e) == [id |-> e, employee |-> e, from |-> 0, amount |-> Offer[e],
                percent |-> NoPercent, base |-> Offer[e]]

Init ==
    /\ \E S \in SUBSET Employees : ledger = {Imported(e) : e \in S}
    /\ pending = [r \in Runs |-> {}]
    /\ run = [r \in Runs |-> IdleRun]
    /\ nextId = FirstId

-----------------------------------------------------------------------------
(* Reading *)

OnDay(e, d) == {x \in ledger : x.employee = e /\ x.from = d}

Before(e, d) == {x \in ledger : x.employee = e /\ x.from < d}

\* ORDER BY effective_from DESC, id DESC LIMIT 1
Latest(S) ==
    CHOOSE x \in S : \A y \in S : y.from < x.from \/ (y.from = x.from /\ y.id <= x.id)

\* Mutant: the salary in force on the day itself.
BasePayOnDay(e, d) == Latest(Before(e, d) \cup OnDay(e, d)).amount

\* The salary in force the day before d.
BasePay(e, d) == Latest(Before(e, d)).amount

Decide(e, d, p, selected) ==
    CASE Hired[e] > d -> "hiredLater"
      [] Hired[e] <= d /\ Before(e, d) = {} -> "noPay"
      [] Hired[e] <= d /\ Before(e, d) # {} /\ OnDay(e, d) # {} ->
            IF Latest(OnDay(e, d)).amount = Raised[p][BasePay(e, d)]
            THEN "alreadyRecorded" ELSE "changedOnDate"
      [] Hired[e] <= d /\ Before(e, d) # {} /\ OnDay(e, d) = {} ->
            IF e \in selected THEN "raise" ELSE "notSelected"

\* Mutant: the result of the arithmetic is not checked.
NeverUnpayable(e, d, p) == FALSE

\* raise() throws for anybody it would leave with nothing, or too much: the run
\* answers 400 before anything is written.
Unpayable(e, d, p) ==
    Hired[e] <= d /\ Before(e, d) # {} /\ Raised[p][BasePay(e, d)] = Refused

-----------------------------------------------------------------------------
(* run() *)

\* listRaiseCandidates, the decisions and everything up to the transaction.  Which employees are active
\* and match the filters is free; with "apply" false the run ends here and changes nothing.
Plan(r, matched, selected, d, p) ==
    /\ run[r].pc = "idle"
    /\ nextId < LastId
    /\ \A e \in matched : ~Unpayable(e, d, p)
    /\ LET raises == {e \in matched : Decide(e, d, p, selected) = "raise"}
       IN run' = [run EXCEPT ![r] =
                    [pc |-> "inserting",
                     plan |-> {[employee |-> e, from |-> d, amount |-> Raised[p][BasePay(e, d)],
                                percent |-> p, base |-> BasePay(e, d)] : e \in raises},
                     todo |-> raises, wrote |-> {}]]
    /\ UNCHANGED <<ledger, pending, nextId>>

\* Mutant: rows are inserted in whatever order the candidates came.
NextRowsAnyOrder(r) == {x \in run[r].plan : x.employee \in run[r].todo}

\* Candidates come ORDER BY e.id, and their rows are inserted in that order.
NextRows(r) ==
    {x \in run[r].plan : x.employee \in run[r].todo
                         /\ \A e \in run[r].todo : x.employee <= e}

\* The transaction r has to wait for, if any.
WaitsFor(r, s) ==
    /\ r # s
    /\ run[r].pc = "inserting"
    /\ \E x \in NextRows(r) : HasKey(pending[s], x)

DoneWith(r, x) == [run EXCEPT ![r].todo = @ \ {x.employee}]

\* Mutant: no unique index, only the check made when the candidates were read.
InsertRowAlways(r, x) ==
    /\ run[r].pc = "inserting"
    /\ x \in NextRows(r)
    /\ LET row == [id |-> nextId, employee |-> x.employee, from |-> x.from,
                   amount |-> x.amount, percent |-> x.percent, base |-> x.base]
       IN /\ run' = [DoneWith(r, x) EXCEPT ![r].wrote = @ \cup {row}]
          /\ pending' = [pending EXCEPT ![r] = @ \cup {row}]
          /\ nextId' = nextId + 1
    /\ UNCHANGED ledger

\* ON CONFLICT DO NOTHING
InsertRow(r, x) ==
    /\ run[r].pc = "inserting"
    /\ x \in NextRows(r)
    /\ \A s \in Runs \ {r} : ~HasKey(pending[s], x)
    /\ IF HasKey(ledger, x)
       THEN /\ run' = DoneWith(r, x)
            /\ UNCHANGED <<pending, nextId>>
       ELSE LET row == [id |-> nextId, employee |-> x.employee, from |-> x.from,
                        amount |-> x.amount, percent |-> x.percent, base |-> x.base]
            IN /\ run' = [DoneWith(r, x) EXCEPT ![r].wrote = @ \cup {row}]
               /\ pending' = [pending EXCEPT ![r] = @ \cup {row}]
               /\ nextId' = nextId + 1
    /\ UNCHANGED ledger

\* The answer to COMMIT may be lost.
Commit(r, answered) ==
    /\ run[r].pc = "inserting"
    /\ run[r].todo = {}
    /\ ledger' = ledger \cup pending[r]
    /\ pending' = [pending EXCEPT ![r] = {}]
    /\ run' = [run EXCEPT ![r].pc = IF answered THEN "applied" ELSE "failed"]
    /\ UNCHANGED nextId

\* Mutant: no transaction around the chunks.
AbortHalfway(r) ==
    /\ run[r].pc = "inserting"
    /\ ledger' = ledger \cup pending[r]
    /\ pending' = [pending EXCEPT ![r] = {}]
    /\ run' = [run EXCEPT ![r].pc = "failed"]
    /\ UNCHANGED nextId

\* A statement fails, the connection is lost or the process dies: the rows are rolled back.
Abort(r) ==
    /\ run[r].pc = "inserting"
    /\ pending' = [pending EXCEPT ![r] = {}]
    /\ run' = [run EXCEPT ![r].pc = "failed"]
    /\ UNCHANGED <<ledger, nextId>>

Answer(r) ==
    /\ run[r].pc \in {"applied", "failed"}
    /\ run' = [run EXCEPT ![r] = IdleRun]
    /\ UNCHANGED <<ledger, pending, nextId>>

-----------------------------------------------------------------------------
(* recordPay() *)

\* Mutant: the row is written although it is there.
RecordPayAgain(e, d, a) ==
    LET row == [id |-> nextId, employee |-> e, from |-> d, amount |-> a,
                percent |-> NoPercent, base |-> a]
    IN /\ nextId < LastId
       /\ Hired[e] <= d
       /\ ledger' = ledger \cup {row}
       /\ nextId' = nextId + 1
       /\ UNCHANGED <<pending, run>>

\* Nothing the checks read ever changes, so they and the insert are one step.  An
\* identical row is refused by the index: a 400 that leaves no trace.
RecordPay(e, d, a) ==
    LET row == [id |-> nextId, employee |-> e, from |-> d, amount |-> a,
                percent |-> NoPercent, base |-> a]
    IN /\ nextId < LastId
       /\ Hired[e] <= d
       /\ ~HasKey(ledger, row)
       /\ \A r \in Runs : ~HasKey(pending[r], row)
       /\ ledger' = ledger \cup {row}
       /\ nextId' = nextId + 1
       /\ UNCHANGED <<pending, run>>

-----------------------------------------------------------------------------

Next ==
    \/ \E r \in Runs, matched, selected \in SUBSET Employees, d \in Days, p \in Percents :
          Plan(r, matched, selected, d, p)
    \/ \E r \in Runs : \E x \in run[r].plan : InsertRow(r, x)
    \/ \E r \in Runs, answered \in BOOLEAN : Commit(r, answered)
    \/ \E r \in Runs : Abort(r)
    \/ \E r \in Runs : Answer(r)
    \/ \E e \in Employees, d \in Days, a \in Amounts : RecordPay(e, d, a)

Spec == Init /\ [][Next]_vars

-----------------------------------------------------------------------------
(* What the ledger promises *)

\* Values have their types: no run ever plans an amount that raisedAmountMinor refused.
TypeOK ==
    /\ ledger \subseteq Record
    /\ pending \in [Runs -> SUBSET Record]
    /\ run \in [Runs -> Run]
    /\ nextId \in Nat

\* Two clicks of Apply, a retry after a lost answer or two people at once never pay the
\* same raise on the same salary twice.
RaisedOnce ==
    \A x, y \in ledger :
        /\ x.percent # NoPercent /\ x.percent = y.percent
        /\ x.employee = y.employee /\ x.from = y.from /\ x.base = y.base
        => x = y

\* "Writes every raise, or none of them": none is seen while the run is writing, and
\* afterwards either all its rows are there or none; when it was answered as applied
\* every raise it planned is on record, whoever wrote it.
AllOrNothing ==
    \A r \in Runs :
        /\ run[r].pc = "inserting" => run[r].wrote \cap ledger = {}
        /\ run[r].pc = "failed" =>
              \/ run[r].wrote \cap ledger = {}
              \/ run[r].wrote \subseteq ledger /\ run[r].todo = {}
        /\ run[r].pc = "applied" => /\ run[r].wrote \subseteq ledger
                                   /\ \A x \in run[r].plan : HasKey(ledger, x)

\* Running a raise again finds the records of the first run: as long as it raised what
\* is still the salary of the day before, it is recognised as already recorded.
RepeatIsRecognised ==
    \A e \in Employees, d \in Days :
        OnDay(e, d) # {} /\ Before(e, d) # {} =>
            LET x == Latest(OnDay(e, d))
            IN x.percent # NoPercent /\ x.base = Latest(Before(e, d)).amount
                  => Decide(e, d, x.percent, Employees) = "alreadyRecorded"

\* Neither writer dates pay before the hire date, although an import may have.
NothingBeforeHire == \A x \in ledger : x.id >= FirstId => Hired[x.employee] <= x.from

\* Runs over overlapping sets of people never wait for each other in a circle: each
\* inserts in the order of the ids.
NoDeadlock ==
    \A D \in (SUBSET Runs) \ {{}} : \E r \in D : \A s \in D : ~WaitsFor(r, s)

AppendOnly == INSTANCE Ledger WITH Content <- Key, records <- ledger

\* The table is what Ledger promises.
ImplementsLedger == AppendOnly!Spec
=============================================================================
