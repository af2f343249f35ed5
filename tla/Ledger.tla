------------------------------- MODULE Ledger -------------------------------
(***************************************************************************)
(* What the salary history promises whoever reads it: records are only     *)
(* ever added, what is added together appears together, and no record is   *)
(* added that says the same as one already there.  PayLedger implements    *)
(* this through transactions and a unique index.                           *)
(***************************************************************************)

CONSTANT Content(_)   \* what a record says, whatever its id

VARIABLE records

Init == \A x, y \in records : Content(x) = Content(y) => x = y

Add(new) ==
    /\ \A x \in new, y \in records : Content(x) # Content(y)
    /\ \A x, y \in new : Content(x) = Content(y) => x = y
    /\ records' = records \cup new

Next == Add(records' \ records)

Spec == Init /\ [][Next]_records
=============================================================================
