-------------------------- MODULE MCStaffDeparture --------------------------
(* What the design notes say of a departure, checked step by step. *)
EXTENDS MCStaff

\* "Marking a manager as having left is refused while anybody still reports to them"
\* (docs/design-notes.md).  changeStatus counts the reports in one statement and marks the
\* manager in another.
RefusedWhileReportedTo ==
    [][\A i \in staff :
          (person[i].status = "ACTIVE" /\ person'[i].status = "LEFT") => ActiveReports(i) = {}]_vars
=============================================================================
