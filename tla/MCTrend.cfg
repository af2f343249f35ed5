\* Months begin on days 0, 2 and 4; the one person paid leaves on day 1.
SPECIFICATION Spec
CONSTANTS
    People = {1, 2, 3, 4, 5}
    Names = {1, 2, 3}
    Countries = {1, 2}
    Departments = {1}
    Levels = {1, 2}
    Currencies = {"USD", "INR", "CAD"}
    Rates <- MCRates
    RateUnit = 100000
    Amounts = {300, 305, 400, 500, 1205}
    MaxDay = 5
    DaysPerMonth = 2
    LowerCase <- MCLowerCase
    MaxMinor = 9999
    NameText <- MCNameText
    EmailText <- MCEmailText
    All = All
    MaxHistoryMonths = 1
    MaxHorizonMonths = 1
    MinGroup = 2
    Buckets = 3
    CountryText <- MCCountryText
    DepartmentText <- MCDepartmentText
    LevelText <- MCLevelText
    DayText <- MCDayText
    MaxNameLength = 6
    MaxEmailLength = 7
    MaxImportRows = 14
    MaxReportedProblems = 3
    Companies <- MCOnePerson
    Hires = {}
    Raises = {}
    Policies = {}
    LeavingDays = {1}
    Queries <- MCTrendQuery
    Exports = {}
    RaiseRequests = {}
    MaxSelectable = 3
    MaxListed = 1
    Uploads = {}
    PageOpener <- MCPageOpener
    Chunk = 2
    HighWater = 2
    MaxWrites = 1
INVARIANT
    EveryMonthIsShown
CHECK_DEADLOCK FALSE
