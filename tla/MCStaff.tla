------------------------------ MODULE MCStaff -------------------------------
(* Every file of at most MaxRows rows whose people are employed. *)
EXTENDS Staff, TLC

CONSTANTS MaxRows

MCFiles ==
    {f \in SUBSET {x \in FileRow : x.status = "ACTIVE"} :
        Cardinality(f) <= MaxRows /\ \A x, y \in f : x.email = y.email => x = y}

Symmetry == Permutations(Requests) \cup Permutations(Emails)
=============================================================================
