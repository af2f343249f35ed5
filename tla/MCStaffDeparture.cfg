SPECIFICATION Spec
SYMMETRY Symmetry
CONSTANTS
    Emails = {e1, e2}
    Requests = {r1, r2}
    NoEmail = NoEmail
    MaxId = 3
    MaxRows = 2
    Files <- MCFiles
PROPERTY
    RefusedWhileReportedTo
