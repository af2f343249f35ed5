\* Two requests that want the same addresses, managers and people; the third id is for the
\* one an aborted transaction loses.
SPECIFICATION Spec
SYMMETRY Symmetry
CONSTANTS
    Emails = {e1, e2}
    Requests = {r1, r2}
    NoEmail = NoEmail
    MaxId = 3
    MaxRows = 2
    Files <- MCFiles
INVARIANTS
    TypeOK
    OnePerAddress
    WholeFile
PROPERTY
    DepartureSawReports
