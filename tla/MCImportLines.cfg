\* No writes: the file alone decides.
SPECIFICATION Spec
CONSTANTS
    People = {1, 2, 3, 4, 5}
    Names = {1, 2, 3}
    Countries = {1, 2}
    Departments = {1}
    Levels = {1, 2}
    Currencies = {"USD", "INR", "CAD"}
    Rates <- MCRates
    RateUnit = 100000
    Amounts = {300, 305, 400, 500, 1205}
    MaxDay = 5
    DaysPerMonth = 2
    LowerCase <- MCLowerCase
    MaxMinor = 9999
    NameText <- MCNameText
    EmailText <- MCEmailText
    All = All
    MaxHistoryMonths = 1
    MaxHorizonMonths = 1
    MinGroup = 2
    Buckets = 3
    CountryText <- MCCountryText
    DepartmentText <- MCDepartmentText
    LevelText <- MCLevelText
    DayText <- MCDayText
    MaxNameLength = 6
    MaxEmailLength = 7
    MaxImportRows = 14
    MaxReportedProblems = 3
    Companies <- MCCompanies
    Hires <- MCHires
    Raises <- MCRaises
    Policies <- MCPolicies
    LeavingDays = {2}
    Queries <- MCQueries
    Exports <- MCExports
    RaiseRequests <- MCRaiseRequests
    MaxSelectable = 3
    MaxListed = 1
    Uploads <- MCBlankLine
    PageOpener <- MCPageOpener
    Chunk = 2
    HighWater = 2
    MaxWrites = 0
INVARIANT
    LineAsOpened
CHECK_DEADLOCK FALSE
