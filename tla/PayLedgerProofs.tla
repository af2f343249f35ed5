-------------------------- MODULE PayLedgerProofs ---------------------------
(***************************************************************************)
(* Theorems about PayLedger for every set of employees, runs, amounts and  *)
(* percentages.                                                            *)
(***************************************************************************)
EXTENDS PayLedger, WellFoundedInduction, TLAPS

\* Ids are drawn once, and an open transaction holds exactly what its run wrote.
IdsOK ==
    /\ \A x \in ledger : x.id < nextId
    /\ \A r \in Runs : \A x \in run[r].wrote : x.id < nextId
    /\ \A r, s \in Runs : \A x \in run[r].wrote, y \in run[s].wrote : x.id = y.id => r = s
    /\ \A r \in Runs : pending[r] = IF run[r].pc = "inserting" THEN run[r].wrote ELSE {}

\* The unique index holds over committed and uncommitted rows together.
UniqueOK ==
    /\ \A x, y \in ledger : Key(x) = Key(y) => x = y
    /\ \A r \in Runs : \A x \in pending[r], y \in ledger : Key(x) # Key(y)
    /\ \A r, s \in Runs : \A x \in pending[r], y \in pending[s] : Key(x) = Key(y) => r = s /\ x = y

\* A row of a raise pays what the percentage makes of its base, to somebody employed.
Sound(x) == x.percent # NoPercent => /\ x.amount = Raised[x.percent][x.base]
                                     /\ Hired[x.employee] <= x.from

SoundOK ==
    /\ \A x \in ledger : Sound(x) /\ (x.id >= FirstId => Hired[x.employee] <= x.from)
    /\ \A r \in Runs : \A x \in run[r].wrote : Sound(x) /\ x.percent # NoPercent
    /\ \A r \in Runs : \A x \in run[r].plan : Sound(x)

\* A plan has one row for a person, and whoever is no longer to do has a row.
PlanOK ==
    \A r \in Runs :
        /\ \A x, y \in run[r].plan : x.employee = y.employee => x = y
        /\ run[r].pc = "inserting" =>
              \A x \in run[r].plan : x.employee \notin run[r].todo =>
                  HasKey(ledger, x) \/ HasKey(pending[r], x)

\* A run has inserted for the lower ids first.
OrderOK ==
    \A r \in Runs : \A y \in pending[r], e \in run[r].todo : y.employee < e

Inv == TypeOK /\ IdsOK /\ UniqueOK /\ SoundOK /\ PlanOK /\ OrderOK /\ AllOrNothing

-----------------------------------------------------------------------------
(* The latest of a set of records *)

LEMMA Largest ==
    ASSUME NEW S \in SUBSET Nat, S # {}, NEW b \in Nat, \A n \in S : n <= b
    PROVE  \E n \in S : \A m \in S : m <= n
<1> DEFINE T == {b - n : n \in S}
<1>1. T \in SUBSET Nat /\ T # {}
  <2>1. \A n \in S : b - n \in Nat
      OBVIOUS
  <2> QED BY <2>1
<1>2. PICK t \in T : \A u \in T : t <= u
  <2> HIDE DEF T
  <2> DEFINE R == {p \in Nat \X Nat : p[1] < p[2]}
  <2>1. IsWellFoundedOn(R, Nat)
      BY NatLessThanWellFounded DEF OpToRel
  <2>2. \A u, v \in Nat : u < v => <<u, v>> \in R
      OBVIOUS
  <2> HIDE DEF R
  <2>3. PICK t \in T : \A u \in T : <<u, t>> \notin R
      BY <1>1, <2>1, WFMin
  <2>4. \A u \in T : ~(u < t)
      BY <1>1, <2>2, <2>3
  <2> QED BY <1>1, <2>3, <2>4
<1>3. PICK n \in S : t = b - n
    BY <1>2
<1>4. ASSUME NEW m \in S PROVE m <= n
  <2>1. b - n <= b - m
      BY <1>2, <1>3, <1>4
  <2>2. n \in Nat /\ m \in Nat
      BY <1>3, <1>4
  <2> QED BY <2>1, <2>2
<1> QED BY <1>4

\* ORDER BY ... LIMIT 1 finds a row whenever there is one.
LEMMA LatestExists ==
    ASSUME NEW S \in SUBSET Record, S # {}, NEW b \in Nat, \A x \in S : x.id < b
    PROVE  Latest(S) \in S
<1>1. \A x \in S : x.id \in Nat /\ x.from \in Nat /\ x.from <= MaxDay
    BY LedgerConstants DEF Record, Days
<1> DEFINE D == {x.from : x \in S}
<1>2. PICK d \in D : \A m \in D : m <= d
  <2>1. D \in SUBSET Nat /\ D # {} /\ \A m \in D : m <= MaxDay
      BY <1>1
  <2> HIDE DEF D
  <2> QED BY <2>1, Largest, LedgerConstants
<1> DEFINE I == {x.id : x \in {y \in S : y.from = d}}
<1>3. PICK i \in I : \A m \in I : m <= i
  <2>1. I \in SUBSET Nat /\ I # {} /\ \A m \in I : m <= b
      BY <1>1, <1>2
  <2> HIDE DEF I
  <2> QED BY <2>1, Largest
<1>4. PICK x \in S : x.from = d /\ x.id = i
    BY <1>3
<1>5. ASSUME NEW y \in S PROVE y.from < x.from \/ (y.from = x.from /\ y.id <= x.id)
  <2>1. y.from <= d
      BY <1>2
  <2>2. y.from = d => y.id <= i
      BY <1>3
  <2> QED BY <1>1, <1>4, <2>1, <2>2
<1>6. \E z \in S : \A y \in S : y.from < z.from \/ (y.from = z.from /\ y.id <= z.id)
    BY <1>4, <1>5
<1> QED BY <1>6 DEF Latest

LEMMA BasePayTyped ==
    ASSUME TypeOK, IdsOK, NEW e \in Employees, NEW d \in Days, Before(e, d) # {}
    PROVE  BasePay(e, d) \in Amounts
<1>1. Before(e, d) \in SUBSET Record /\ \A x \in Before(e, d) : x.id < nextId
    BY DEF Before, TypeOK, IdsOK
<1>2. Latest(Before(e, d)) \in Before(e, d)
    BY <1>1, LatestExists DEF TypeOK
<1> QED BY <1>1, <1>2 DEF BasePay, Record

-----------------------------------------------------------------------------
(* What the actions do to a run *)

LEMMA Bounds == Days \subseteq Nat /\ Employees \subseteq Nat
BY LedgerConstants DEF Days

LEMMA Initially == Init => Inv
<1> SUFFICES ASSUME Init PROVE Inv
    OBVIOUS
<1>1. PICK S \in SUBSET Employees : ledger = {Imported(e) : e \in S}
    BY DEF Init
<1>2. \A x \in ledger : \E e \in Employees :
          /\ x = Imported(e) /\ x \in Record /\ x.id = e /\ x.employee = e
          /\ x.percent = NoPercent /\ x.id < FirstId
  <2>1. ASSUME NEW e \in Employees
        PROVE  /\ Imported(e) \in Record /\ Imported(e).id = e /\ Imported(e).employee = e
               /\ Imported(e).percent = NoPercent /\ Imported(e).id < FirstId
      BY LedgerConstants DEF Imported, Record, Days
  <2> QED BY <1>1, <2>1
<1>3. IdleRun \in Run
    BY DEF IdleRun, Run
<1>4. TypeOK
    BY <1>2, <1>3, LedgerConstants DEF Init, TypeOK
<1>5. IdsOK
    BY <1>2 DEF Init, IdsOK, IdleRun
<1>6. UniqueOK
    BY <1>2 DEF Init, UniqueOK, Key
<1>7. SoundOK
  <2>1. \A x \in ledger : Sound(x) /\ ~(x.id >= FirstId)
    <3>1. \A x \in ledger : x.id \in Nat /\ x.id < FirstId /\ x.percent = NoPercent
        BY <1>2 DEF Record
    <3> QED BY <3>1, LedgerConstants DEF Sound
  <2> QED BY <2>1 DEF Init, SoundOK, IdleRun
<1>8. PlanOK /\ OrderOK /\ AllOrNothing
    BY DEF Init, PlanOK, OrderOK, AllOrNothing, IdleRun
<1> QED BY <1>4, <1>5, <1>6, <1>7, <1>8 DEF Inv

\* A plan pays what the percentage makes of each base, to people employed by then.
LEMMA Planned ==
    ASSUME Inv, NEW r \in Runs, NEW matched \in SUBSET Employees, NEW selected, NEW d \in Days,
           NEW p \in Percents, Plan(r, matched, selected, d, p)
    PROVE  /\ run' \in [Runs -> Run]
           /\ \A s \in Runs \ {r} : run'[s] = run[s]
           /\ run'[r].pc = "inserting" /\ run'[r].wrote = {}
           /\ \A x \in run'[r].plan : Sound(x) /\ x.percent # NoPercent /\ x.employee \in run'[r].todo
           /\ \A x, y \in run'[r].plan : x.employee = y.employee => x = y
<1> DEFINE raises == {e \in matched : Decide(e, d, p, selected) = "raise"}
           row(e) == [employee |-> e, from |-> d, amount |-> Raised[p][BasePay(e, d)],
                      percent |-> p, base |-> BasePay(e, d)]
           new == [pc |-> "inserting", plan |-> {row(e) : e \in raises}, todo |-> raises,
                   wrote |-> {}]
<1>1. TypeOK /\ IdsOK
    BY DEF Inv
<1>2. run' = [run EXCEPT ![r] = new]
    BY DEF Plan
<1>3. ASSUME NEW e \in raises
      PROVE  /\ row(e) \in [employee : Employees, from : Days, amount : Amounts,
                            percent : Percents, base : Amounts]
             /\ Sound(row(e))
  <2>1. Decide(e, d, p, selected) = "raise" /\ ~Unpayable(e, d, p)
      BY <1>3 DEF Plan
  <2>2. Hired[e] <= d /\ Before(e, d) # {}
    <3>1. Hired[e] \in Nat /\ d \in Nat
        BY <1>3, LedgerConstants DEF Days
    <3>2. CASE Hired[e] > d
        BY <2>1, <3>1, <3>2 DEF Decide
    <3>3. CASE Hired[e] <= d /\ Before(e, d) = {}
        BY <2>1, <3>1, <3>3 DEF Decide
    <3> QED BY <3>1, <3>2, <3>3
  <2>3. BasePay(e, d) \in Amounts
      BY <1>1, <1>3, <2>2, BasePayTyped
  <2>4. Raised[p][BasePay(e, d)] \in Amounts
      BY <2>1, <2>2, <2>3, LedgerConstants DEF Unpayable
  <2> QED BY <1>3, <2>2, <2>3, <2>4 DEF Sound
<1>4. new \in Run
    BY <1>3 DEF Run
<1>5. \A x \in new.plan : Sound(x) /\ x.percent # NoPercent /\ x.employee \in new.todo
    BY <1>3, LedgerConstants
<1>6. \A x, y \in new.plan : x.employee = y.employee => x = y
    OBVIOUS
<1> HIDE DEF new
<1>7. new.pc = "inserting" /\ new.wrote = {}
    BY DEF new
<1> QED BY <1>1, <1>2, <1>4, <1>5, <1>6, <1>7 DEF TypeOK

\* The row that inserting x writes.
RowOf(x) == [id |-> nextId, employee |-> x.employee, from |-> x.from, amount |-> x.amount,
             percent |-> x.percent, base |-> x.base]

LEMMA Inserted ==
    ASSUME Inv, NEW r \in Runs, NEW x \in run[r].plan, InsertRow(r, x)
    PROVE  /\ run' \in [Runs -> Run] /\ pending' \in [Runs -> SUBSET Record] /\ nextId' \in Nat
           /\ \A s \in Runs \ {r} : run'[s] = run[s] /\ pending'[s] = pending[s]
           /\ run[r].pc = "inserting" /\ run'[r].pc = "inserting"
           /\ run'[r].plan = run[r].plan
           /\ run'[r].todo = run[r].todo \ {x.employee}
           /\ ledger' = ledger
           /\ \/ /\ HasKey(ledger, x)
                 /\ run'[r].wrote = run[r].wrote /\ pending' = pending /\ nextId' = nextId
              \/ /\ ~HasKey(ledger, x)
                 /\ run'[r].wrote = run[r].wrote \cup {RowOf(x)}
                 /\ pending'[r] = pending[r] \cup {RowOf(x)}
                 /\ nextId' = nextId + 1
<1>1. TypeOK
    BY DEF Inv
<1>2. run[r] \in Run /\ run[r].pc = "inserting" /\ ledger' = ledger
    BY <1>1 DEF TypeOK, InsertRow
<1>3. RowOf(x) \in Record
    BY <1>1, <1>2 DEF TypeOK, Run, Record, RowOf
<1>4. CASE HasKey(ledger, x)
  <2>1. run' = DoneWith(r, x) /\ pending' = pending /\ nextId' = nextId
      BY <1>4 DEF InsertRow
  <2> QED BY <1>1, <1>2, <1>4, <2>1 DEF DoneWith, TypeOK, Run
<1>5. CASE ~HasKey(ledger, x)
  <2> DEFINE new == [pc |-> "inserting", plan |-> run[r].plan, todo |-> run[r].todo \ {x.employee},
                     wrote |-> run[r].wrote \cup {RowOf(x)}]
  <2>1. /\ run' = [DoneWith(r, x) EXCEPT ![r].wrote = @ \cup {RowOf(x)}]
        /\ pending' = [pending EXCEPT ![r] = @ \cup {RowOf(x)}]
        /\ nextId' = nextId + 1
      BY <1>5 DEF InsertRow, RowOf
  <2>2. /\ DoneWith(r, x) \in [Runs -> Run]
        /\ DoneWith(r, x)[r] = [pc |-> "inserting", plan |-> run[r].plan,
                               todo |-> run[r].todo \ {x.employee}, wrote |-> run[r].wrote]
        /\ \A s \in Runs \ {r} : DoneWith(r, x)[s] = run[s]
      BY <1>1, <1>2 DEF DoneWith, TypeOK, Run
  <2>3. run'[r] = new /\ (\A s \in Runs \ {r} : run'[s] = run[s]) /\ run' = [s \in Runs |-> run'[s]]
    <3> DEFINE f == DoneWith(r, x)
    <3>1. f \in [Runs -> Run] /\ run' = [f EXCEPT ![r].wrote = @ \cup {RowOf(x)}]
        BY <2>1, <2>2
    <3>2. f[r] = [pc |-> "inserting", plan |-> run[r].plan,
                  todo |-> run[r].todo \ {x.employee}, wrote |-> run[r].wrote]
        BY <2>2
    <3>3. \A s \in Runs \ {r} : f[s] = run[s]
        BY <2>2
    <3> HIDE DEF f
    <3>4. run' = [s \in Runs |-> run'[s]]
        BY <3>1
    <3>5. run'[r] = [f[r] EXCEPT !.wrote = run[r].wrote \cup {RowOf(x)}]
        BY <3>1, <3>2
    <3>6. run'[r] = new
        BY <3>2, <3>5
    <3> QED BY <3>1, <3>3, <3>4, <3>6
  <2>4. new \in Run
      BY <1>2, <1>3 DEF Run
  <2>5. /\ new.pc = "inserting" /\ new.plan = run[r].plan
        /\ new.todo = run[r].todo \ {x.employee}
        /\ new.wrote = run[r].wrote \cup {RowOf(x)}
      OBVIOUS
  <2> HIDE DEF new
  <2>6. /\ run' \in [Runs -> Run] /\ run'[r] = new
        /\ \A s \in Runs \ {r} : run'[s] = run[s]
      BY <1>1, <2>3, <2>4 DEF TypeOK
  <2>7. /\ pending' \in [Runs -> SUBSET Record]
        /\ \A s \in Runs \ {r} : pending'[s] = pending[s]
        /\ pending'[r] = pending[r] \cup {RowOf(x)}
      BY <1>1, <1>3, <2>1 DEF TypeOK
  <2>8. nextId' \in Nat
      BY <1>1, <2>1 DEF TypeOK
  <2> QED BY <1>2, <1>5, <2>1, <2>5, <2>6, <2>7, <2>8
<1> QED BY <1>4, <1>5

\* The other actions only move a run's pc, or forget it.
LEMMA Moved ==
    ASSUME TypeOK, NEW r \in Runs, NEW pc \in {"applied", "failed"},
           run' = [run EXCEPT ![r].pc = pc]
    PROVE  /\ run' \in [Runs -> Run]
           /\ \A s \in Runs \ {r} : run'[s] = run[s]
           /\ run'[r].pc = pc /\ run'[r].plan = run[r].plan /\ run'[r].todo = run[r].todo
           /\ run'[r].wrote = run[r].wrote
BY DEF TypeOK, Run

LEMMA Forgotten ==
    ASSUME TypeOK, NEW r \in Runs, run' = [run EXCEPT ![r] = IdleRun]
    PROVE  /\ run' \in [Runs -> Run]
           /\ \A s \in Runs \ {r} : run'[s] = run[s]
           /\ run'[r].pc = "idle" /\ run'[r].plan = {} /\ run'[r].todo = {} /\ run'[r].wrote = {}
BY DEF TypeOK, Run, IdleRun

-----------------------------------------------------------------------------
(* The invariant *)

LEMMA PlanPreserves ==
    ASSUME Inv, NEW r \in Runs, NEW matched \in SUBSET Employees, NEW selected, NEW d \in Days,
           NEW p \in Percents, Plan(r, matched, selected, d, p)
    PROVE  Inv'
<1>1. /\ TypeOK /\ IdsOK /\ UniqueOK /\ SoundOK /\ PlanOK /\ OrderOK /\ AllOrNothing
      /\ run[r].pc = "idle" /\ UNCHANGED <<ledger, pending, nextId>>
    BY DEF Inv, Plan
<1>2. /\ run' \in [Runs -> Run]
      /\ \A s \in Runs \ {r} : run'[s] = run[s]
      /\ run'[r].pc = "inserting" /\ run'[r].wrote = {}
      /\ \A x \in run'[r].plan : Sound(x) /\ x.percent # NoPercent /\ x.employee \in run'[r].todo
      /\ \A x, y \in run'[r].plan : x.employee = y.employee => x = y
    BY Planned
<1>3. TypeOK' /\ UniqueOK'
    BY <1>1, <1>2 DEF TypeOK, UniqueOK
<1>4. pending[r] = {}
    BY <1>1 DEF IdsOK
<1>5. IdsOK'
  <2>1. \A s \in Runs : run'[s].wrote \subseteq run[s].wrote
      BY <1>2
  <2>2. \A s \in Runs : pending'[s] = IF run'[s].pc = "inserting" THEN run'[s].wrote ELSE {}
      BY <1>1, <1>2, <1>4 DEF IdsOK
  <2> QED BY <1>1, <2>1, <2>2 DEF IdsOK
<1>6. SoundOK'
    BY <1>1, <1>2 DEF SoundOK, Sound
<1>7. PlanOK'
    BY <1>1, <1>2 DEF PlanOK, HasKey
<1>8. OrderOK'
    BY <1>1, <1>2, <1>4 DEF OrderOK
<1>9. AllOrNothing'
    BY <1>1, <1>2 DEF AllOrNothing, HasKey
<1> QED BY <1>3, <1>5, <1>6, <1>7, <1>8, <1>9 DEF Inv

LEMMA InsertPreserves ==
    ASSUME Inv, NEW r \in Runs, NEW x \in run[r].plan, InsertRow(r, x)
    PROVE  Inv'
<1>1. TypeOK /\ IdsOK /\ UniqueOK /\ SoundOK /\ PlanOK /\ OrderOK /\ AllOrNothing
    BY DEF Inv
<1> DEFINE row == RowOf(x)
<1>2. /\ run' \in [Runs -> Run] /\ pending' \in [Runs -> SUBSET Record] /\ nextId' \in Nat
      /\ \A s \in Runs \ {r} : run'[s] = run[s] /\ pending'[s] = pending[s]
      /\ run[r].pc = "inserting" /\ run'[r].pc = "inserting"
      /\ run'[r].plan = run[r].plan
      /\ run'[r].todo = run[r].todo \ {x.employee}
      /\ ledger' = ledger
      /\ \/ /\ HasKey(ledger, x)
            /\ run'[r].wrote = run[r].wrote /\ pending' = pending /\ nextId' = nextId
         \/ /\ ~HasKey(ledger, x)
            /\ run'[r].wrote = run[r].wrote \cup {row}
            /\ pending'[r] = pending[r] \cup {row}
            /\ nextId' = nextId + 1
    BY Inserted
<1>3. /\ row.id = nextId /\ Key(row) = Key(x) /\ row.employee = x.employee
      /\ row.percent = x.percent
      /\ Sound(x) => Sound(row)
      /\ Sound(x) /\ x.percent # NoPercent => Hired[row.employee] <= row.from
    BY DEF RowOf, Key, Sound
<1>4. x.percent # NoPercent
    BY <1>1, LedgerConstants DEF TypeOK, Run
<1>5. Sound(x)
    BY <1>1 DEF SoundOK
<1>6. x.employee \in run[r].todo /\ (\A e \in run[r].todo : x.employee <= e)
        /\ (\A s \in Runs \ {r} : ~HasKey(pending[s], x))
    BY DEF InsertRow, NextRows
<1>7. nextId \in Nat /\ \A s \in Runs : \A y \in run[s].wrote : y.id \in Nat
    BY <1>1 DEF TypeOK, Run, Record
<1> HIDE DEF row
<1>8. TypeOK'
    BY <1>1, <1>2 DEF TypeOK
<1>9. IdsOK'
  <2>1. \A y \in ledger : y.id \in Nat
      BY <1>1 DEF TypeOK, Record
  <2>2. CASE nextId' = nextId /\ run'[r].wrote = run[r].wrote /\ pending' = pending
      BY <1>1, <1>2, <2>2 DEF IdsOK
  <2>3. CASE run'[r].wrote = run[r].wrote \cup {row} /\ pending'[r] = pending[r] \cup {row}
             /\ nextId' = nextId + 1
    <3>1. \A y \in ledger : y.id < nextId'
        BY <1>1, <1>7, <2>1, <2>3 DEF IdsOK
    <3>2. \A s \in Runs : \A y \in run'[s].wrote :
              /\ y.id < nextId'
              /\ (y \in run[s].wrote /\ y.id < nextId) \/ (s = r /\ y.id = nextId)
        BY <1>1, <1>2, <1>3, <1>7, <2>3 DEF IdsOK
    <3>3. \A s, t \in Runs : \A y \in run'[s].wrote, z \in run'[t].wrote : y.id = z.id => s = t
        BY <1>1, <1>7, <3>2 DEF IdsOK
    <3>4. \A s \in Runs : pending'[s] = IF run'[s].pc = "inserting" THEN run'[s].wrote ELSE {}
        BY <1>1, <1>2, <2>3 DEF IdsOK
    <3> QED BY <1>2, <3>1, <3>2, <3>3, <3>4 DEF IdsOK
  <2> QED BY <1>2, <2>2, <2>3
<1>10. UniqueOK'
  <2>1. CASE pending' = pending
      BY <1>1, <1>2, <2>1 DEF UniqueOK
  <2>2. CASE ~HasKey(ledger, x) /\ pending'[r] = pending[r] \cup {row}
    <3>1. \A y \in ledger : Key(row) # Key(y)
        BY <1>3, <2>2 DEF HasKey
    <3>2. \A s \in Runs \ {r} : \A y \in pending[s] : Key(row) # Key(y)
        BY <1>3, <1>6 DEF HasKey
    <3>3. \A y \in pending[r] : Key(row) # Key(y)
      <4>1. \A y \in pending[r] : y.employee < x.employee
          BY <1>1, <1>6 DEF OrderOK
      <4>2. \A y \in pending[r] : y.employee \in Nat
        <5>1. pending[r] \subseteq Record
            BY <1>1 DEF TypeOK
        <5> QED BY <5>1, Bounds DEF Record
      <4>3. \A y \in pending[r] : y.employee # row.employee
          BY <1>3, <4>1, <4>2
      <4> QED BY <4>3 DEF Key
    <3>4. \A s \in Runs : \A y \in pending'[s] : y \in pending[s] \/ (s = r /\ y = row)
        BY <1>2, <2>2
    <3> QED BY <1>1, <1>2, <3>1, <3>2, <3>3, <3>4 DEF UniqueOK
  <2> QED BY <1>2, <2>1, <2>2
<1>11. SoundOK'
  <2>1. \A s \in Runs : \A y \in run'[s].wrote : y \in run[s].wrote \/ y = row
      BY <1>2
  <2>2. \A s \in Runs : run'[s].plan = run[s].plan
      BY <1>2
  <2> QED BY <1>1, <1>2, <1>3, <1>4, <1>5, <2>1, <2>2 DEF SoundOK, Sound
<1>12. PlanOK'
  <2>1. HasKey(ledger, x) \/ HasKey(pending'[r], x)
      BY <1>2, <1>3 DEF HasKey
  <2>2. \A y \in run[r].plan : HasKey(pending[r], y) => HasKey(pending'[r], y)
      BY <1>2 DEF HasKey
  <2>3. \A y \in run[r].plan : y.employee = x.employee => y = x
      BY <1>1 DEF PlanOK
  <2>4. \A y \in run'[r].plan : y.employee \notin run'[r].todo =>
            HasKey(ledger', y) \/ HasKey(pending'[r], y)
      BY <1>1, <1>2, <2>1, <2>2, <2>3 DEF PlanOK
  <2> QED BY <1>1, <1>2, <2>4 DEF PlanOK, HasKey
<1>13. OrderOK'
  <2>1. \A s \in Runs : run[s].todo \subseteq Nat
      BY <1>1, Bounds DEF TypeOK, Run
  <2>2. \A e \in run'[r].todo : x.employee < e
      BY <1>2, <1>6, <2>1
  <2>3. \A y \in pending'[r] : y \in pending[r] \/ y = row
      BY <1>2
  <2> QED BY <1>1, <1>2, <1>3, <2>2, <2>3 DEF OrderOK
<1>14. AllOrNothing'
  <2>1. row \notin ledger
      BY <1>1, <1>3, <1>7 DEF IdsOK
  <2> QED BY <1>1, <1>2, <2>1 DEF AllOrNothing, HasKey
<1> QED BY <1>8, <1>9, <1>10, <1>11, <1>12, <1>13, <1>14 DEF Inv

LEMMA CommitPreserves ==
    ASSUME Inv, NEW r \in Runs, NEW answered \in BOOLEAN, Commit(r, answered)
    PROVE  Inv'
<1>1. TypeOK /\ IdsOK /\ UniqueOK /\ SoundOK /\ PlanOK /\ OrderOK /\ AllOrNothing
    BY DEF Inv
<1>2. /\ run[r].pc = "inserting" /\ run[r].todo = {}
      /\ ledger' = ledger \cup pending[r] /\ nextId' = nextId
      /\ pending' = [pending EXCEPT ![r] = {}]
    BY DEF Commit
<1>3. /\ run' \in [Runs -> Run] /\ \A s \in Runs \ {r} : run'[s] = run[s]
      /\ run'[r].pc \in {"applied", "failed"} /\ run'[r].plan = run[r].plan
      /\ run'[r].todo = run[r].todo /\ run'[r].wrote = run[r].wrote
  <2>1. PICK pc \in {"applied", "failed"} : run' = [run EXCEPT ![r].pc = pc]
      BY DEF Commit
  <2> QED BY <1>1, <2>1, Moved
<1>4. /\ pending'[r] = {} /\ \A s \in Runs \ {r} : pending'[s] = pending[s]
      /\ pending' \in [Runs -> SUBSET Record]
    BY <1>1, <1>2 DEF TypeOK
<1>5. pending[r] = run[r].wrote
    BY <1>1, <1>2 DEF IdsOK
<1>6. \A s \in Runs : run'[s].wrote = run[s].wrote /\ run'[s].plan = run[s].plan
                      /\ run'[s].todo = run[s].todo
    BY <1>3
<1>7. TypeOK'
    BY <1>1, <1>2, <1>3, <1>4 DEF TypeOK
<1>8. IdsOK'
  <2>1. \A x \in ledger' : x.id < nextId'
      BY <1>1, <1>2, <1>5 DEF IdsOK
  <2>2. \A s \in Runs : pending'[s] = IF run'[s].pc = "inserting" THEN run'[s].wrote ELSE {}
      BY <1>1, <1>3, <1>4 DEF IdsOK
  <2> QED BY <1>1, <1>2, <1>6, <2>1, <2>2 DEF IdsOK
<1>9. UniqueOK'
  <2>1. \A s \in Runs : \A x \in pending'[s] : s # r /\ x \in pending[s]
      BY <1>4
  <2>2. \A x, y \in ledger' : Key(x) = Key(y) => x = y
      BY <1>1, <1>2 DEF UniqueOK
  <2>3. \A s \in Runs : \A x \in pending'[s], y \in ledger' : Key(x) # Key(y)
      BY <1>1, <1>2, <2>1 DEF UniqueOK
  <2>4. \A s, t \in Runs : \A x \in pending'[s], y \in pending'[t] :
            Key(x) = Key(y) => s = t /\ x = y
      BY <1>1, <2>1 DEF UniqueOK
  <2> QED BY <2>2, <2>3, <2>4 DEF UniqueOK
<1>10. SoundOK'
    BY <1>1, <1>2, <1>5, <1>6 DEF SoundOK, Sound
<1>11. PlanOK'
  <2>1. ASSUME NEW s \in Runs, run'[s].pc = "inserting", NEW x \in run'[s].plan,
               x.employee \notin run'[s].todo
        PROVE  HasKey(ledger', x) \/ HasKey(pending'[s], x)
    <3>1. s # r /\ run[s].pc = "inserting"
        BY <1>3, <2>1
    <3>2. HasKey(ledger, x) \/ HasKey(pending[s], x)
        BY <1>1, <1>6, <2>1, <3>1 DEF PlanOK
    <3> QED BY <1>2, <1>4, <3>1, <3>2 DEF HasKey
  <2> QED BY <1>1, <1>6, <2>1 DEF PlanOK
<1>12. OrderOK'
    BY <1>1, <1>4, <1>6 DEF OrderOK
<1>13. AllOrNothing'
  <2>1. ASSUME NEW s \in Runs, s # r PROVE run[s].wrote \cap pending[r] = {}
      BY <1>1, <1>5, <2>1 DEF IdsOK
  <2>2. ASSUME NEW s \in Runs, s # r
        PROVE  /\ run'[s].pc = "inserting" => run'[s].wrote \cap ledger' = {}
               /\ run'[s].pc = "failed" =>
                     \/ run'[s].wrote \cap ledger' = {}
                     \/ run'[s].wrote \subseteq ledger' /\ run'[s].todo = {}
               /\ run'[s].pc = "applied" => /\ run'[s].wrote \subseteq ledger'
                                          /\ \A x \in run'[s].plan : HasKey(ledger', x)
      BY <1>1, <1>2, <1>3, <2>1, <2>2 DEF AllOrNothing, HasKey
  <2>3. run'[r].wrote \subseteq ledger' /\ run'[r].todo = {}
      BY <1>2, <1>5, <1>6
  <2>4. \A x \in run'[r].plan : HasKey(ledger', x)
      BY <1>1, <1>2, <1>6 DEF PlanOK, HasKey
  <2> QED BY <1>3, <2>2, <2>3, <2>4 DEF AllOrNothing
<1> QED BY <1>7, <1>8, <1>9, <1>10, <1>11, <1>12, <1>13 DEF Inv

\* Giving up an open transaction, or forgetting a finished run, takes nothing away.
LEMMA EndPreserves ==
    ASSUME Inv, NEW r \in Runs, Abort(r) \/ Answer(r)
    PROVE  Inv'
<1>1. TypeOK /\ IdsOK /\ UniqueOK /\ SoundOK /\ PlanOK /\ OrderOK /\ AllOrNothing
    BY DEF Inv
<1>2. ledger' = ledger /\ nextId' = nextId
    BY DEF Abort, Answer
<1>3. /\ pending' \in [Runs -> SUBSET Record] /\ pending'[r] = {}
      /\ \A s \in Runs \ {r} : pending'[s] = pending[s]
  <2>1. CASE Abort(r)
      BY <1>1, <2>1 DEF Abort, TypeOK
  <2>2. CASE Answer(r)
      BY <1>1, <2>2 DEF Answer, TypeOK, IdsOK
  <2> QED BY <2>1, <2>2
<1>4. /\ run' \in [Runs -> Run]
      /\ \A s \in Runs \ {r} : run'[s] = run[s]
      /\ \/ /\ run'[r].pc = "idle" /\ run'[r].plan = {} /\ run'[r].todo = {} /\ run'[r].wrote = {}
         \/ /\ run[r].pc = "inserting" /\ run'[r].pc = "failed"
            /\ run'[r].plan = run[r].plan /\ run'[r].todo = run[r].todo
            /\ run'[r].wrote = run[r].wrote
  <2>1. CASE Abort(r)
      BY <1>1, <2>1, Moved DEF Abort
  <2>2. CASE Answer(r)
      BY <1>1, <2>2, Forgotten DEF Answer
  <2> QED BY <2>1, <2>2
<1>5. \A s \in Runs : /\ run'[s].plan \subseteq run[s].plan /\ run'[s].todo \subseteq run[s].todo
                      /\ run'[s].wrote \subseteq run[s].wrote
                      /\ pending'[s] \subseteq pending[s]
    BY <1>3, <1>4
<1>6. TypeOK'
    BY <1>1, <1>2, <1>3, <1>4 DEF TypeOK
<1>7. IdsOK'
  <2>1. \A s \in Runs : pending'[s] = IF run'[s].pc = "inserting" THEN run'[s].wrote ELSE {}
      BY <1>1, <1>3, <1>4 DEF IdsOK
  <2> QED BY <1>1, <1>2, <1>5, <2>1 DEF IdsOK
<1>8. UniqueOK'
    BY <1>1, <1>2, <1>5 DEF UniqueOK
<1>9. SoundOK'
    BY <1>1, <1>2, <1>5 DEF SoundOK, Sound
<1>10. PlanOK'
    BY <1>1, <1>2, <1>3, <1>4 DEF PlanOK, HasKey
<1>11. OrderOK'
    BY <1>1, <1>5 DEF OrderOK
<1>12. AllOrNothing'
    BY <1>1, <1>2, <1>4 DEF AllOrNothing, HasKey
<1> QED BY <1>6, <1>7, <1>8, <1>9, <1>10, <1>11, <1>12 DEF Inv

LEMMA RecordPreserves ==
    ASSUME Inv, NEW e \in Employees, NEW d \in Days, NEW a \in Amounts, RecordPay(e, d, a)
    PROVE  Inv'
<1> DEFINE row == [id |-> nextId, employee |-> e, from |-> d, amount |-> a,
                   percent |-> NoPercent, base |-> a]
<1>1. TypeOK /\ IdsOK /\ UniqueOK /\ SoundOK /\ PlanOK /\ OrderOK /\ AllOrNothing
    BY DEF Inv
<1>2. /\ Hired[e] <= d /\ ~HasKey(ledger, row) /\ (\A r \in Runs : ~HasKey(pending[r], row))
      /\ ledger' = ledger \cup {row} /\ nextId' = nextId + 1
      /\ pending' = pending /\ run' = run
    BY DEF RecordPay
<1>3. row \in Record /\ row.id = nextId /\ row.percent = NoPercent /\ row.employee = e
        /\ row.from = d
    BY <1>1 DEF Record, TypeOK
<1> HIDE DEF row
<1>4. /\ nextId \in Nat /\ (\A x \in ledger : x.id \in Nat)
      /\ \A r \in Runs : \A x \in run[r].wrote : x.id \in Nat
    BY <1>1 DEF TypeOK, Run, Record
<1>5. TypeOK'
    BY <1>1, <1>2, <1>3 DEF TypeOK
<1>6. IdsOK'
    BY <1>1, <1>2, <1>3, <1>4 DEF IdsOK
<1>7. UniqueOK'
    BY <1>1, <1>2 DEF UniqueOK, HasKey
<1>8. SoundOK'
    BY <1>1, <1>2, <1>3 DEF SoundOK, Sound
<1>9. PlanOK' /\ OrderOK'
    BY <1>1, <1>2 DEF PlanOK, OrderOK, HasKey
<1>10. AllOrNothing'
  <2>1. \A r \in Runs : row \notin run[r].wrote
      BY <1>1, <1>3, <1>4 DEF IdsOK
  <2> QED BY <1>1, <1>2, <2>1 DEF AllOrNothing, HasKey
<1> QED BY <1>5, <1>6, <1>7, <1>8, <1>9, <1>10 DEF Inv

LEMMA Preserved == Inv /\ [Next]_vars => Inv'
<1> SUFFICES ASSUME Inv, [Next]_vars PROVE Inv'
    OBVIOUS
<1>1. CASE UNCHANGED vars
    BY <1>1 DEF vars, Inv, TypeOK, IdsOK, UniqueOK, SoundOK, Sound, PlanOK, OrderOK,
                AllOrNothing, HasKey
<1>2. ASSUME NEW r \in Runs, NEW x \in run[r].plan, InsertRow(r, x) PROVE Inv'
    BY <1>2, InsertPreserves
<1> QED BY <1>1, <1>2, PlanPreserves, CommitPreserves, EndPreserves, RecordPreserves DEF Next

LEMMA Invariance == Spec => []Inv
BY Initially, Preserved, PTL DEF Spec

-----------------------------------------------------------------------------
(* The theorems *)

\* Type correctness: no amount the arithmetic refused is ever planned or written.
THEOREM LedgerTypeCorrect == Spec => []TypeOK
BY Invariance, PTL DEF Inv

\* A run is seen whole or not at all, and is only answered as applied when every raise
\* it planned is on record.
THEOREM RaisesAreAtomic == Spec => []AllOrNothing
BY Invariance, PTL DEF Inv

\* No interleaving of runs, retries and pay changes pays a raise on the same salary twice.
THEOREM NoRaisePaidTwice == Spec => []RaisedOnce
<1>1. Inv => RaisedOnce
    BY DEF Inv, UniqueOK, SoundOK, Sound, RaisedOnce, Key
<1> QED BY <1>1, Invariance, PTL

\* Nothing the application writes takes effect before the hire date.
THEOREM NoPayBeforeHire == Spec => []NothingBeforeHire
<1>1. Inv => NothingBeforeHire
    BY DEF Inv, SoundOK, NothingBeforeHire
<1> QED BY <1>1, Invariance, PTL

\* A second run recognises the raises of the first.
THEOREM RepeatsAreRecognised == Spec => []RepeatIsRecognised
<1>1. ASSUME Inv, NEW e \in Employees, NEW d \in Days, OnDay(e, d) # {}, Before(e, d) # {},
             Latest(OnDay(e, d)).percent # NoPercent,
             Latest(OnDay(e, d)).base = Latest(Before(e, d)).amount
      PROVE  Decide(e, d, Latest(OnDay(e, d)).percent, Employees) = "alreadyRecorded"
  <2> DEFINE x == Latest(OnDay(e, d))
  <2>1. OnDay(e, d) \in SUBSET Record /\ \A y \in OnDay(e, d) : y.id < nextId
      BY <1>1 DEF Inv, TypeOK, IdsOK, OnDay
  <2>2. x \in OnDay(e, d)
      BY <1>1, <2>1, LatestExists DEF Inv, TypeOK
  <2>3. x.employee = e /\ x.from = d /\ Sound(x)
      BY <1>1, <2>2 DEF OnDay, Inv, SoundOK
  <2>4. Hired[e] <= d /\ x.amount = Raised[x.percent][BasePay(e, d)]
      BY <1>1, <2>3 DEF Sound, BasePay
  <2>5. ~(Hired[e] > d)
    <3>1. Hired[e] \in Nat /\ d \in Nat
        BY LedgerConstants, Bounds DEF Days
    <3> QED BY <2>4, <3>1
  <2> QED BY <1>1, <2>4, <2>5 DEF Decide
<1>2. Inv => RepeatIsRecognised
    BY <1>1 DEF RepeatIsRecognised
<1> QED BY <1>2, Invariance, PTL

\* However many runs overlap, and whatever sets of people they cover, one of them can
\* always go on.
THEOREM NoCircularWait == Spec => []NoDeadlock
<1>1. ASSUME Inv, NEW D \in (SUBSET Runs) \ {{}}, \A r \in D : \E s \in D : WaitsFor(r, s)
      PROVE  FALSE
  <2> DEFINE At == {e \in Employees : \E r \in D : \E x \in NextRows(r) : x.employee = e}
  <2>1. \A r \in D : NextRows(r) # {}
      BY <1>1 DEF WaitsFor
  <2>2. \A r \in Runs : \A x \in NextRows(r) : x.employee \in Employees
      BY <1>1 DEF NextRows, Inv, TypeOK, Run
  <2>3. At \in SUBSET Nat /\ At # {} /\ \A e \in At : e <= FirstId
    <3>1. \A e \in Employees : e \in Nat /\ e <= FirstId
        BY LedgerConstants
    <3> QED BY <2>1, <2>2, <3>1
  <2>4. PICK e \in At : \A m \in At : m <= e
    <3> HIDE DEF At
    <3> QED BY <2>3, Largest, LedgerConstants
  <2>5. PICK r \in D : \E x \in NextRows(r) : x.employee = e
      BY <2>4
  <2>6. PICK x \in NextRows(r) : x.employee = e
      BY <2>5
  <2>7. PICK s \in D : WaitsFor(r, s)
      BY <1>1
  <2>8. PICK z \in NextRows(r), y \in pending[s] : Key(y) = Key(z)
      BY <2>7 DEF WaitsFor, HasKey
  <2>9. z.employee = e
    <3>1. x.employee \in Nat /\ z.employee \in Nat /\ x.employee <= z.employee /\ z.employee <= x.employee
        BY <2>2, <2>6, <2>8, Bounds DEF NextRows
    <3> QED BY <2>6, <3>1
  <2>10. y.employee = e
      BY <2>8, <2>9 DEF Key
  <2>11. PICK w \in NextRows(s) : TRUE
      BY <2>1
  <2>12. w.employee \in run[s].todo /\ w.employee \in At
      BY <2>2, <2>11 DEF NextRows
  <2>13. e < w.employee
      BY <1>1, <2>8, <2>10, <2>12 DEF Inv, OrderOK
  <2>14. w.employee <= e /\ w.employee \in Nat /\ e \in Nat
      BY <2>3, <2>4, <2>12
  <2> QED BY <2>13, <2>14
<1>2. Inv => NoDeadlock
    BY <1>1 DEF NoDeadlock
<1> QED BY <1>2, Invariance, PTL

\* The table implements Ledger: only added to, a run's rows all at once, none saying what
\* another says.
THEOREM TableIsLedger == Spec => ImplementsLedger
<1>1. Init => AppendOnly!Init
    BY Initially DEF Inv, UniqueOK, AppendOnly!Init
<1>2. Inv /\ Inv' /\ [Next]_vars => [AppendOnly!Next]_ledger
  <2> SUFFICES ASSUME Inv, Inv', [Next]_vars PROVE AppendOnly!Next
      OBVIOUS
  <2>1. ledger \subseteq ledger'
      BY DEF Next, vars, Plan, InsertRow, Commit, Abort, Answer, RecordPay
  <2>2. \A x, y \in ledger' : Key(x) = Key(y) => x = y
      BY DEF Inv, UniqueOK
  <2>3. \A x \in ledger' \ ledger, y \in ledger : Key(x) # Key(y)
      BY <2>1, <2>2
  <2>4. ledger' = ledger \cup (ledger' \ ledger)
      BY <2>1
  <2> QED BY <2>2, <2>3, <2>4 DEF AppendOnly!Next, AppendOnly!Add
<1> QED BY <1>1, <1>2, Invariance, PTL DEF ImplementsLedger, AppendOnly!Spec, Spec
=============================================================================
