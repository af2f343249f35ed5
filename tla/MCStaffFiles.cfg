\* One request at a time: files of up to three rows, above and below whoever was created
\* before, in chains and in circles.
SPECIFICATION Spec
SYMMETRY Symmetry
CONSTANTS
    Emails = {e1, e2, e3}
    Requests = {r1}
    NoEmail = NoEmail
    MaxId = 3
    MaxRows = 3
    Files <- MCFiles
INVARIANTS
    AsDescribed
    NoCycle
