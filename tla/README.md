# A TLA+ model of acme-salary-api

acme-salary-api keeps the employees of a company, what they are and were paid, and the pay bands they are
compared with.  It is an Express server over one PostgreSQL database.  This directory holds TLA+ modules
that model its behaviour, the TLC configurations that check them on small instances, and proofs that the
TLA+ proof system checks for all instances.

Nothing in the server is multi-threaded, and yet almost every handler is concurrent: it runs one statement,
awaits, and runs the next, while other handlers do the same on the same rows.  Few of those sequences are
in a transaction.  The models are about that: what is still true when the statements of several requests
interleave, when a request stops between two of them, when an answer is lost and the client tries again.
They are also about what HR reads and signs off: the same salary is classified, summed, ranked, converted,
written to a file and read back by a dozen statements and functions, and they have to agree.

## The system

| Component | Source (under `src/src/`) | State | Operations | What is hard |
|---|---|---|---|---|
| Sessions | `services/auth.ts`, `repositories/users.ts`, `routes/auth.ts` | `users`, `refresh_tokens`, the browser's cookie | login, refresh (rotation, reuse detection), logout | three statements per refresh without a transaction; lost answers; tabs sharing a cookie; expiry against a clock read earlier |
| Reference-data cache | `shared/cache.ts`, `services/lookups.ts`, `repositories/lookups.ts` | the held value and its expiry, the load in flight | get, invalidate | a load racing an invalidation; failed loads; callers sharing a promise |
| Pay history | `services/bulkRaise.ts`, `repositories/bulkRaise.ts`, `repositories/employeeRow.ts`, `services/employees.ts` | `compensation_records`, append-only | recordPay, bulk raise (preview and apply) | a decision made on rows read long before the transaction; retries; rows of concurrent transactions blocking each other |
| Employees | `services/employees.ts`, `repositories/employees.ts`, `services/employeeDetail.ts`, `domain/compensation.ts` | `employees` | create, changeStatus; list, detail | checks and writes in separate statements: addresses, managers, active reports; a page of a person read by three statements; orders with ties |
| CSV import | `services/employeeCsv.ts`, `repositories/employeeImport.ts`, `domain/importOrder.ts`, `domain/employeeCsv.ts` | none of its own | preview, apply, problem report | everything checked before one transaction; managers before reports |
| CSV export | `services/employeeCsv.ts`, `routes/employeeCsv.ts` | the position of the walk, the socket's buffer | stream | pages by OFFSET in separate statements; slow or vanished clients |
| CSV text | `domain/csv.ts` | none | parse, write | quoting, line breaks, formulas; what is written has to read back |
| Pay bands | `services/payBands.ts`, `repositories/bands.ts`, `repositories/payBands.ts`, `domain/payBand.ts`, `repositories/attention.ts` | `salary_bands` | save, remove; coverage, band filters, those below their band | invalidating the cache; SQL and TypeScript classifying alike |
| Access scope | `domain/accessScope.ts`, `repositories/employeeFilters.ts` | none | scope of a role, team of a manager | a recursive walk over a changing hierarchy |
| Statistics and pay gap | `services/statistics.ts`, `repositories/statistics.ts`, `repositories/payGap.ts` | none | overview, histogram, pay gap | parts that add up; suppression of small groups |
| Payroll trend | `repositories/payrollTrend.ts` | none | one point a month | windows of validity instead of a salary in force |
| Money and dates | `domain/money.ts`, `domain/raise.ts`, `domain/dates.ts` | none | parsing, rounding, raising | rounding once and in the right direction |
| Process | `server.ts`, `container.ts`, `db/client.ts` | the pool | start, graceful stop | signals repeating, requests still running |
| Plumbing, schema, seed, infrastructure | the rest | | | |

The components interact in four ways.  Routes call services and services repositories.  Services of
different components write the same tables: recordPay, the bulk raise, the creation of an employee and the
import all insert compensation records.  A band write invalidates the cache by a call, and the import reads
names through the cache.  Everything else meets in the database: row locks, unique indexes and the
READ COMMITTED snapshot of each statement are the only synchronisation there is.

What makes each component correct:

* Sessions: one login is one session, however often it is renewed; an ended one stays ended; replaying a
  token ends other sessions only when the token was rotated.
* Cache: callers share a load, a failed one is not remembered, nobody sees the data go back in time.
* Pay history: only added to; a bulk raise is all or nothing; nothing is paid twice however it is retried.
* Employees and import: one record for an address; a leaver has a date and no team; the hierarchy has no cycle.
* Export: everybody who matches throughout, once; it ends; what it wrote imports again as the same people.
* Bands: the label on a person, the filter of a list, the counts of a level and the list of those below agree.
* Lists: the pages of any order show everybody in scope once.
* Figures: breakdowns and bars add up to the whole, medians of small groups stay unpublished, the trend's
  months are what the people employed then were paid.
* Bulk raise: what its preview says is what its apply does.

## Modules

| Module | Models |
|---|---|
| `SessionLifecycle` | abstract: a session is opened once by a login, renewed, ended for good |
| `Sessions` | the components' statements, one action each |
| `MCSessions`, `MCSessionsReuse` | TLC instances |
| `SessionsProofs` | theorems about `Sessions`: types, one session per login, revocation, the refinement of `SessionLifecycle`; expiry, reuse detection, ownership |
| `LookupCache` | the cache, its callers, its loads and its writers |
| `MCLookups`, `MCLookupsStale` | TLC instances |
| `LookupCacheProofs` | theorems about `LookupCache` |
| `Ledger` | abstract: a set of records that is only added to and repeats nothing |
| `PayLedger` | compensation_records, recordPay and the bulk raise |
| `MCPayLedger` | TLC instance, with `MCPayLedger.cfg` and `MCPayOverride.cfg` |
| `PayLedgerProofs` | theorems about `PayLedger` |
| `Staff` | the employees table: create, changeStatus and the import |
| `MCStaff`, `MCStaffDeparture` | TLC instances, with `MCStaffFiles.cfg`, `MCStaffRaces.cfg` and `MCStaffDeparture.cfg` |
| `StaffProofs` | theorems about `Staff` |
| `Money` | rounding and `raisedAmountMinor` |
| `Payroll` | the tables as the screens read them: the salary in force, conversion, a history with its changes |
| `PayBands` | the three classifications against a band; setting bands |
| `CsvText` | CSV and amounts as text |
| `Directory` | access scope, filters, search, orders, pages; those paid below their band |
| `PayrollTrend`, `Figures` | the trend; the overview, the histogram and the pay gap |
| `EmployeeCsv` | a file of people: reading, checking, ordering, the problem report, the exported record |
| `BulkRaise` | the report of a bulk raise and what applying it adds |
| `Screens` | composes all of these: one request in flight, statement by statement, while others write |
| `MCScreens`, `MCImportLines`, `MCTrend` | TLC instances |
| `PayrollProofs` | theorems about `PayBands` and `Money`; lemmas about `Payroll`: orders and ranks, recursive functions, folds and sums, the salary in force, a history |
| `ScreensProofs` | theorems about `Screens`: the export, a person's page, bands, the trend, the preview of a bulk raise, the pages of a list, the overview, the pay gap |
| `FilesProofs` | theorems about `CsvText`, `EmployeeCsv` and `Screens`: a table comes back from its text; what is answered about an uploaded file |
| `RoundTripProofs` | theorems about `CsvText`, `EmployeeCsv` and `Screens`: an amount and a whole export come back |

Definitions named after a fault and marked `Mutant` in a comment are variants of the definition that
follows them.  They stand for plausible mistakes in the code; putting one in the place of the definition it
varies makes TLC find the property it belongs to violated.  The specifications do not use them.

### Sessions

A request is a record whose `pc` names the statement it runs next: `findAccount` and `insert` for a login;
`findToken`, `rotate`, `reloadAccount`, `insert`, or `revokeAll`, for a refresh; `logOut` for a logout.  Each
statement is one action on `stored` and `row` (the `refresh_tokens` table), and `Answer` delivers the
response to the browser's `jar`.  `Drop` stops a request anywhere: a statement that fails, a process that
dies, an answer that never arrives; the rows written stay and the cookie does not change.  Passwords,
hashes and access tokens are left out, since no rotation depends on them: `FindAccount` may refuse anybody.
`DeleteAccount` is not an operation of the program, but the code expects it (auth.ts:192) and the foreign key
cascades.

`family`, `parent` and `disturbed` are history variables: they record which login a token descends from,
which token it replaced and which browsers lost an answer or had two requests at once.  No guard reads them
except `Issued`, which keeps tokens from being drawn twice.

`ImplementsLifecycle` says that the tables implement `SessionLifecycle`, where a login's session is open as
long as one of its tokens is live or a refresh stands between retiring one and storing the next.

### LookupCache

JavaScript runs the code between two awaits without interruption, so `get()` up to the await is one action
(`GetHeld`, `GetLoading`, `GetJoining`), the `then` another (`Settle`), the `finally` a third (`Clear`, which
is also where the callers' promises are answered, because get() returns what `finally` returns).  Between
`Settle` and `Clear` other handlers may run.  `loadLookupData` is five queries on connections of their own;
`Read` is one of them.  The data is two parts, the bands, which are invalidated when they change, and the
countries, which stand for everything that is not.  A part's content is its version number.

`quiet`, `served` and the readers' `floor` and `before` are history.

### PayLedger

`Plan` is the read of a bulk raise with every decision made on it, up to the transaction; `InsertRow` inserts
one row of a chunk (a multi-row INSERT takes its row locks one by one); `Commit` may lose its answer; `Abort`
is anything else that ends a transaction.  `RecordPay` is one insert.  `pending` holds the rows of open
transactions: invisible to readers, but a row with the same unique key waits for them.  Amounts are opaque
values and `Raised` is an arbitrary function from percentages and amounts to amounts or a refusal, so what is
checked and proved does not depend on rounding.  `percent` and `base` in a record are history: which raise a
row came from and which salary it raised.  A preview stops after `Plan`'s reads and changes nothing, so it is
no action.

`ImplementsLedger` says that the table implements `Ledger`.

### Staff

A person's row has an address, a manager and a status; everything else in it is refused or accepted before
anything changes.  A create is `BeginCreate`, the two checks that `Promise.all` runs in either order
(`CheckEmail`, `CheckManager`), the transaction up to its COMMIT (`InsertEmployee`) and `Commit` or `Abort`.  An
import looks up the addresses of its file one chunk after the other (`LookUp`, with chunks of one, which is the
finest interleaving), is refused as a whole by `CheckFile`, and inserts layer by layer (`InsertImported`, row by
row).  `layer` is the layer in work; the order inside of it does not matter.  A row waits for an
uncommitted row with its address (`Free`) and sees managers that are committed or its own (`Exists`).  Ids come
from a sequence, so an aborted transaction loses its ids.  changeStatus is `BeginStatus`, `CountReports` for a
departure, `UpdateStatus`.  `boss` and `file` in a row and `active` in a request are history: what the file said,
and who was employed when the reports were counted.

### Payroll, PayBands, Directory, PayrollTrend, Figures, BulkRaise

A statement sees one state of the database, so a query is an operator on `db`, which holds the three tables
`employees`, `records` and `bands`.  SQL that decides something is translated clause by clause: the LATERAL join for
the salary in force (`PayOn`), the windows of lead() (`InWindow`), width_bucket (`BucketOf`), percentile_cont with the
cast that rounds halves to even (`Percentile`), NULLS LAST (`KeyBefore`), the recursive team (`Team`), the WHERE that
drops a month (`MonthShown`).  The TypeScript that states the same rule a second time is translated on its own
(`BandStanding` beside `BandFitCondition`, `CurrentRecordIndex` beside `PayOn`), so that agreement is something to check.
`Failed` is an answer that throws, `Forbidden` one that the role is refused.

### CsvText, EmployeeCsv

A text is a sequence of symbols.  Quotes, commas, line ends, spaces and digits are single characters; a word
whose letters nothing looks at is one symbol, and `LowerCase` says which words are the same without case.
`ParseCsv` is the state machine of parseCsv, `ToCsvLine` and `EscapeField` the writer, `CheckFile` everything that
importRows does before its transaction.

### Screens

`Write` is any committed write of the other handlers: creation, departure and return, a salary, a band.  A person's
page is `OpenDetail` and then the two statements of a Promise.all in either order.  The export is `BeginExport`,
`ReadPage` (the generator's next chunk), `WriteLine` (res.write and the wait for drain) with `ClientReads` and `ClientGoes` for the
other end of the socket, and `Answer`.  `Upload` is an import without apply, or the problem report.  The figures, lists,
and the preview of a bulk raise need no action: one statement reads them, so they are checked as
operators in every state between requests.  `came`, `went` and `since` are history.

## What the runs check

| Run | Instance | States | Shows |
|---|---|---|---|
| `sessions` | 2 accounts, 3 tokens, 2 requests, 1 browser, ttl 1, clock 0..1 | 625 thousand | the invariants and action properties below, and the refinement of `SessionLifecycle` |
| `lookups` | 2 readers, 2 writers, 2 loads, ttl 2, 1 change of each part | 49 thousand | one load at a time, nothing goes back in time, no deadlock; failures forgotten, callers answered, staleness bounded |
| `pay_ledger` | 2 employees, 2 runs, 3 amounts, 2 percentages, 3 days, 2 free ids | 566 thousand | atomicity, idempotence, absence of circular waits, refinement of `Ledger` |
| `staff_files` | 1 request, 3 addresses, 3 ids, files of up to 3 rows | 371 thousand | imports describe what was asked and store no circle |
| `staff_races` | 2 requests, 2 addresses, 3 ids, files of up to 2 rows | 916 thousand | addresses unique and imports whole whoever else writes, departures against their counts |
| `screens` | 3 companies, up to 4 people and one to come, 2 writes, pages and socket of 2, 7 queries, 4 raises, 7 files | 88 thousand | everything under Screens below |
| `departure` | as `staff_races` | | disagreement 4 |
| `reuse` | 1 account, 3 tokens, 2 requests, 2 browsers, no expiry | | disagreement 1 |
| `stale` | 1 reader, 1 writer, 1 load | | disagreement 2 |
| `pay_override` | as `pay_ledger` | | disagreement 3 |
| `import_lines` | as `screens`, no writes, one file with a blank line | | disagreement 5 |
| `trend_gap` | one person, who may leave | | disagreement 6 |

Sessions.  `OneLivePerLogin`: a race of refreshes never leaves two live tokens of one login.
`SuccessorOfRotated`: only rotation begets a token, once.  `OverForGood`: a session that has run out, or was ended, is
never live again.  The expiry is compared with a clock read before the statements that renew, so a refresh that began in
time may rotate a token that has expired meanwhile, and does in this run; what must not happen is that
one that began later renews (`CouldRenew` says which is which).  `ReuseNeedsRotation`: detection is provoked by a rotated
token and nothing else; a logged-out token presented again ends nothing.
`OnlyDisturbedReplay`: a browser that gets every answer and overlaps no requests never triggers reuse
detection, so the sweep is never provoked by normal use.  `ChainKeepsOwner`: a renewal stays with its account.
`RevocationIsFinal`: the first reason stays.

Cache.  `OneLoadAtATime`, `NeverGoesBack`, `InvalidationIsSeen` (for invalidations that meet no load in flight;
for the others see disagreement 2), and under fairness `FailureIsForgotten`, `NobodyWaitsForEver`,
`StalenessEnds`.

Pay history.  `RaisedOnce`: never two records of one raise of one salary.  `AllOrNothing`.
`RepeatIsRecognised`: a repeated raise reads its own record as already recorded.
`NoDeadlock`: among any set of runs one is not waiting for another of the set.

Staff.  `WholeFile`: whoever came in a file came with all of it, also when another request takes one of its addresses
between the check and the transaction.  `AsDescribed`: everybody who was imported reports
to the owner of the address the file names, wherever in the file that row stood.  `NoCycle`: any group of people
has somebody whose manager is outside of it.  `OnePerAddress`: whatever raced.  `DepartureSawReports`: a report
that is overtaken by a departure joined or came back after the count; the window is that and no wider.

Screens, in flight.  `ExportOnce`: a walk by OFFSET writes somebody twice only if somebody before them came, and
misses somebody only if somebody before them went.  `ExportEnds`: a client that reads gets to the end, however
drains, pages and lines meet.  `FileComesBack`: a file nobody disturbed, uploaded by
HR where nobody is yet, imports as the same people at the same pay, and a file of everybody is placed whole.  It is asked only of
files that an import takes at all (`Importable`): the export has no limit of rows, and a name or address of the greatest
length that looks like a formula comes back with an apostrophe and is one character too long.
`PreviewIsWhole`: every row of a file is placed after its manager or complained about, and the report reads back to the
same answer.  `DetailLags`: a page read by three statements may be overtaken by a raise and contradicts itself in nothing else.

Screens, figures.  `BandScreensAgree`, `PagesCoverTheList`, `OverviewAddsUp`, `GapIsPublishable` and `TrendAgrees` compare
what one statement computes with what another, or a direct definition, makes of the same tables.  `TrendAgrees` is about the
months the trend has and, where money is concerned, those in which everybody's pay converts; the months it leaves out are
disagreement 6.  `PreviewIsPaid`
compares the report of a bulk raise with the tables after it: counts, costs per currency, breaches, the estimate in
dollars to two cents a person, nobody paid from before they are employed, and the same raise asked
for again.  Rates are whole multiples of one `RateUnit`-th of a dollar; the instances take the seeded 0.01204 of the rupee exactly.

### Where the code and its comments disagree

1. *Reuse detection* (auth.ts:157, "so every session for the account ends").  It revokes the rows live at that
   moment.  A refresh on another device that has run its rotating UPDATE and not its INSERT has none, and stores a live
   successor afterwards, so the session on that device goes on.  Sessions that descend from the replayed token are left
   out of the property: one renewed beside its own replay is the race of two tabs.
2. *Invalidation* (cache.ts:41, "so the next read reloads").  A load in flight that has read the bands before
   the save settles after the invalidation and is held for a full ttl.
3. *Same-day changes* (bulkRaise.ts:331, "Left alone rather than added to").  The check is made on rows read
   before the transaction.  A different amount recorded for the day in between is overridden by the raise.
4. *Departures* (design-notes.md:322, "refused while anybody still reports to them").  The reports are counted in
   one statement and the manager is marked in another; somebody committed in between is not counted.
5. *Line numbers* (domain/employeeCsv.ts:63 and :146, "the number Excel shows").  Blank lines are dropped before
   rows are numbered, and a cell may hold a line break; below either, the number is not that of the line.

6. *Empty months* (payrollTrend.ts:104, "a zero on the chart rather than a gap in the line").  The WHERE at 118 keeps a
   month without any record, and drops one whose only records belong to people not employed in it: when the
   last person paid has left, the chart stops instead of falling to zero.

One more is a theorem instead of a run.  bulkRaise.ts:138 and design-notes.md:529 say that the dollar estimate is off
by at most a cent per person; `ACentIsNotEnough` has two cents, for a salary of 24,013.39 pounds at the seeded rate of 1.27
raised by 2.5%, and `EstimateIsClose` shows that it is never more in currencies worth less than two dollars a unit.

Others were met that no run shows.

* users.ts:113 says the loser of a race is treated as a replay; it is answered 401 and nothing is revoked, which is
  the milder and the intended outcome.
* lookups.ts:27 says invalidate is called after anything that changes reference data; employees created or
  imported in a country not seen before change the list of countries without it (`ChangeUnannounced`).
* statistics.ts:129 says of a currency without a rate that refusing is the point, because leaving people out "would make
  the payroll total too small in a way nobody would notice".  That is said of the overview, which does refuse.  The sum
  of the trend (payrollTrend.ts:97) passes over the NULL, counts the person in the headcount and answers.
* Rows under somebody missing are reported as managing each other (importOrder.ts:75).
* A problem report repeats rows "unchanged" only if they have as many cells as the header and no cell that looks
  like a formula; a name that does comes back from an export with its apostrophe.  `plain` and `Guarded` in the
  properties stand for the two.
* employeeCsv.ts says that any sort would do for the export; by salary a raise moves people between pages, which is the
  mutant of `ExportOnce`.
* A person with a scheduled record in a currency without a rate has no page, though the salary shown would convert;
  and while one employee matched has a salary that converts to no cents at all, every bulk raise that
  would reach them answers 400.

### Bounds

Every bound is a constant.  `MaxTime` and `Ttl`: one tick is enough for a token to expire between a read and
a write.  `Tokens`: three let one login be renewed twice, or two sessions of an account meet.  `Requests`: two
are the smallest race; all races of the code are between two requests.  One browser holds one cookie; tabs
are its concurrent requests, and a second session of the same account is what a login in the same browser
leaves behind; `reuse` has two browsers, which are the two devices its disagreement is about.  `MaxVersion` 1 lets a load hold
a version while a newer one is written and read by the next; there is one run for safety and liveness, and the
invariants are proved for every number of versions.  `Ttl` 2 in the cache
lets an entry be used between ticks.  `LastId`: nothing new starts after two ids are drawn; runs in progress
finish, so up to four rows are added, which is two runs over both people or any mix with single changes.
`MaxId` 3 in `Staff` is a person for every address, or two and an id lost to an aborted
transaction; `staff_files` has files of three rows, enough for a chain of three, a circle of three and two rows
under an existing manager; `staff_races` needs two addresses, because a race is about one address or about a
manager and a report.  `Screens` has two writes, because a page or a walk is contradicted by one and two can
undo one another; pages of two people make a walk of two or three statements; `HighWater` 2 is a socket that
is full after one line more; the three companies hold, between them, every pair that the figures tell apart (namesakes,
corrections on one day, a scheduled salary, a currency without a rate, groups just at and just below the threshold, pay before
hire, a leaver with a salary), and writes lead from each to others.  `MaxSelectable` and `MaxListed` are below the number of people, so
that lists are cut.  Files that TLC is given hold only people who are employed; a create may be of a leaver.
The proofs have none of these bounds.

Symmetry is used only where values of a set are interchangeable and only for safety.  Deadlock is checked for
the cache and for staff, where a transaction that waits can always be given up.  Sessions and pay history stop when tokens or ids run out, and `Screens` when its writes do and its
client is gone, so there it is switched off.

### Fairness

`lookups` assumes it of `Read` (PostgreSQL answers or fails each query, the pool has a connection
timeout), `Settle` and `Clear` (the event loop runs the callbacks of settled promises) and `Tick` (time passes).
Nothing is assumed of callers, writers or failures.

`screens` assumes it of `Serve`, the server's own next step, because a handler that is not waiting for its client is
resumed by the event loop.  It is written out as `[]<>~Busy \/ []<><<Serve>>_vars`: TLC would evaluate ENABLED of a page for
every state, and that `Busy` is the same was checked by an invariant over the states without writes.  That a
client goes on reading is a premise of `ExportEnds` and not an assumption, so a client that stops, or is gone, keeps its
request waiting for ever, as routes/employeeCsv.ts:108 does.

## What is proved

For every value of the constants that satisfies the named assumption of the module (`SessionConstants`,
`LookupConstants`, `LedgerConstants`, `StaffConstants`; for the screens `PayrollConstants`, `MoneyConstants`,
`EmployeeCsvConstants`, `SpellingConstants`, `TrendConstants`, `BulkRaiseConstants` and `ScreensConstants`, which say that
limits are numbers, names and codes are sorted by numbers, "no filter" is no value of a column, "problems" is the name of
no column, files are text, every address, place, date and column heading is spelt so that it is read as itself, and the
companies to begin with satisfy the constraints of the schema and have no managers who report to one another in a
circle, which `Staff` shows of the writers):

* `SessionsProofs`: `TypeCorrect`, `OneSessionPerLogin`, `SuccessorsAreOfRotated`, `RevocationsAreFinal`.  That a
  login has one live token is not inductive: it needs that whoever is renewing has a token that was rotated
  and has no successor (`RenewalOK`), that tokens in hand belong to a rooted family (`FamilyOK`) and that a login
  carries none (`LoginOK`).  `TokensImplementSessions`: the same invariant maps every step to a step or a stutter of
  `SessionLifecycle`.  What keeps a rotation from closing its session there is `RenewalOK`, and a renewal that
  stops half-way is what closes it.
  `OverIsForGood`, `SweepsNeedARotation`, `RenewalsKeepTheOwner` and
  `OnlyDisturbedBrowsersReplay` strengthen that invariant by what a handler remembers between
  two statements: the clock it checked the expiry against (`RotatingOK`, by which nobody begins to renew a session that
  is over), the rotated token it has seen, which stays as
  long as the account (`SweepOK`, `OwnersOK`), and the account it goes on with, also when no row of the session is
  left (`CarriedOK`).  For the last one, browsers hold and present different tokens (`KeptApart`), and a
  browser that is not disturbed holds a rotated token only while its one request brings the next (`Calm`).
* `LookupCacheProofs`: `CacheTypeCorrect`, `OneLoad`, `QuietInvalidationIsSeen`, `CacheNeverGoesBack`.  The
  invariant says that a version given to anybody is no newer than what is in the database, in memory and on its
  way there (`NoNewer`), that nothing fresh is held while a load reads, and that nothing in memory is ahead of
  the database.
* `PayLedgerProofs`: `LedgerTypeCorrect`, `RaisesAreAtomic`, `NoRaisePaidTwice`, `NoPayBeforeHire`,
  `RepeatsAreRecognised`, `NoCircularWait`, `TableIsLedger`.  The invariant adds that ids are drawn once and an open
  transaction holds what its run wrote (`IdsOK`), that the unique key holds over committed and uncommitted rows
  together (`UniqueOK`), that a raise's row pays what the percentage makes of its base (`SoundOK`), that whoever a
  run is done with has a record (`PlanOK`), and that a run has inserted for the lower ids first (`OrderOK`).
  `NoCircularWait` looks at the highest id any run of the set is about to insert: whoever it waits for has that
  row already and must be about to insert a higher one.
* `StaffProofs`: `TypeCorrect`, `AddressesUnique`, `ImportedAsDescribed`, `ManagementEnds`.  The invariant adds that
  ids ascend and no row is held by two transactions (`IdsOK`), that addresses differ over committed and
  uncommitted rows together (`AddressesOK`), that a manager's id is smaller than that of whoever reports to them
  (`ManagersFirst`, from which the absence of circles follows by looking at the smallest id of a group), that
  uncommitted rows fit their file within their own transaction (`DescribedOK`), and that what a request
  remembers is still so: ids it found keep their addresses, managers it asked for exist, and whatever is in the
  layer in work can be placed (`RequestsOK`).  `FilesAreWhole` adds that a transaction that is inserting holds a row, or
  has one yet to insert, for each row of its file (`Loading`), and `DeparturesSawTheirReports` that those who were
  employed when the reports were counted do not report to the leaver (`DepartureOK`); both need that rows are never
  taken back or given another address, manager or file (`RecordsKept`).

* The arithmetic in `PayrollProofs` is about operators, so its theorems need no invariant.  `FilterAgreesWithStanding` and
  `BreachMeansAbove`: for any pay and band the SQL filter, the label and the warning of a bulk raise are one rule, which is
  why `BandScreensAgree` and `PreviewIsPaid` hold.  `RaisedIsPayable` is what `PayLedger` takes for granted of `Raised`.
  `RaiseIsRounded` and `RaiseKeepsOrder`: a raise is rounded once, half a unit goes to the person also on a cut, and
  nobody overtakes anybody.  `EstimateIsClose` and `ACentIsNotEnough`: raising the converted salary and converting the raised one
  both round the product of salary, percentage and rate (`TwoWays`, by three rules for being near a number),
  so they are within two cents, and two are reached.

* The rest of `PayrollProofs` is what the screens are made of, as lemmas.  No prover here can use a theorem that takes an operator,
  and so neither the induction theorems nor those about recursive definitions of the library; `LeastExists` (a set of
  numbers that is not empty has a least one) takes their place.  By it `RoundsExist` and `FoldExists` show that recursive
  functions and folds have values, and from these follow that `OrderBy` sorts (`SortedByRank`), that a sum is one term and the
  sum of the others, and that sums go by parts and groups, survive a renaming and stay between bounds (`SumIsTotal` to
  `SumOfRenamed`).  `PayOnIsLatest` says of the LATERAL join, and `HistoryAgreesWithJoin` of a history's order, which record
  is in force.
* `ScreensProofs`: the invariant is that the tables stay a company (`IsCompany`: keys, references, payable amounts, nobody who leaves
  before being hired, no circle of managers) with
  what the request in flight remembers.
  `ExportsAreBounded` has the back-pressure: a chunk in memory, a socket at its mark, a wait for drain
  only while there is something to drain or the client has gone (`FlowOK`).  `EverybodyOnce` has the walk (`WalkOK`):
  whoever has been written stands no further down the list than they were read, or somebody came before them; whoever
  matches and has not been read stands further down than the walk has got, or somebody went before them.  Each
  write moves each place by one, and which way is decided by the order of names, which no write
  changes; that is why the code's choice of an order matters.  `PagesAgreeWithThemselves`: the salary read first stays a
  record of the person whatever is written after it, and is the one in force if nothing was (`DetailOK`).
  The others are about every company, and `IsCompany` is all they take from the invariant.
  `BandsAgreeOnEveryScreen` shows that counts, filter, list and label select the same people.  `TrendIsWhatIsPaid` shows
  that a month is in the window of a record exactly if that record is in force then (`WindowIsInForce`): lead() over the order
  of the join, with its tie-break, leaves out neither a correction on one day nor the last record.
  `PreviewsAreKept` shows the accounts of a preview to add up, the salaries after the raise to be what was announced, and the same raise
  to find its own records; the amounts it pays need not be among `Amounts`, so the tables after it are not
  a company and the lemmas about the salary in force ask only for payable records.  Its one hypothesis
  is that no currency is worth two dollars a unit, as none of the seeded ones is, and without which the two roundings of
  the estimate drift apart by more than two cents; a rate may have any number of places (`RateUnit`, 10^8 for the
  numeric(18,8) of fx_rates).
  `PagesCoverEverybody`: every page is a slice of one strict order (`PageIsSlice`), so the pages make up the list
  (`PagesMakeTheList`), and the rounds in which a team is collected reach exactly those whose way up passes the
  manager (`TeamIsUnderManager`, from two ways up that meet staying together).
  `OverviewIsWhole`: groups and bars are partitions of the people paid, whose sums are the sum of the whole; a bar holds the
  pay of those counted in it (`BucketHolds`); percentiles, interpolated and rounded, rise with their rank
  (`PercentilesRise`).  `GapIsOfEnoughPeople`: no more than half of a group is paid less, and no more than half
  more, than its median (`MedianHalves`), which survives the rounding of the two medians that are compared.
* `FilesProofs` is about every text.  `CsvComesBack`: `ReadNext` is followed character by character (`Runs`), and a piece of
  text leads from one state of the reader to another whatever comes after it (`Leads`); leads are joined from characters to
  fields, from fields to rows and from rows to a table, the least place where they would part standing in for
  an induction.  It needs that no row is one empty field, which the reader drops; `ToCsvRecord` writes none.
  `PreviewsAreWhole`: what the reader makes of any text is a sheet (`ParsedIsSheet`); every line below its header is a row or has
  a problem, and no two good rows share an address (`ReadingIsWhole`); each round of `orderByManager` keeps the rows placed
  after their managers, loses none, and ends the rounds or places somebody (`WhilePlacing`, `PlacingKeepsOrder`), so that what is
  left at the end is missing its manager or waits for another that is left.  The report is a table, so
  `CsvComesBack` reads it back (`ReportRead`), and since its last column is none that the import knows
  (`EmployeeCsvConstants`) and what has no apostrophe put in front is repeated as it was, it is read as the
  file itself (`ReadsAgain`).  Between the upload and the answer others write, so the invariant adds that the answer is
  `Checked` of the text and of the addresses of the time (`CheckedOK`).

* `RoundTripProofs`: `AmountsComeBack` is about every amount that may be paid.  Both directions are recursive functions: that
  each has a value (`CountsExist`, `SpellingsExist`) and that one undoes the other (`NumeralIsNumber`) is shown by looking
  at the least number for which it would not be so, which without its last digit is smaller still.  `FilesComeBack` needs one more invariant, `ExportCurrent`: until something is
  written every line that was read, written or waiting, is what the tables still say, so that what a client has is
  `TextOf` of the export as a sheet (`FileIsCurrent`, `TextIsOfSheet`) and `CsvComesBack` reads it.  `PersonIsReadAs` goes
  through the thirteen columns with what `SpellingConstants` says of each, `NothingIsWrong` through the fourteen
  checks, and `DraftIsPerson` has the row that `readRow` makes of it.  `EverybodyIsPlaced` looks at the people whose rows
  would be left over: one of them has a manager who is not, because there is no circle, and whoever's manager is
  placed is placed (`CheckIsWhole`).

`NothingBeforeHire` of `PayLedger` is proved and no run checks it: it follows from one guard in each writer, and
`PreviewIsPaid` asks more of the whole.

Only model-checked: `FailureIsForgotten`, `NobodyWaitsForEver`, `StalenessEnds` and `ExportEnds` are
liveness and out of this prover's reach.

## Not modelled

* Graceful shutdown (server.ts).  Its state is that of Node's server and of pg's pool, and what a second signal does
  depends on them: shutdown() runs again, and pool.end rejects when called twice.
* Doubles.  raise.ts multiplies in double precision, exact up to 2^53, which a raise of 100% passes for amounts from
  9 * 10^11 minor units on.  The models and theorems are about integers.
* The calendar: months are equally long.  Names sort as numbers, so collation is left out.
* Token signatures and role checks in the middleware, HTTP validation, rate limiting (a library's counters), hashing,
  logging, migrations, seeding, deployment.  They are sequential or external, and the repository tests them directly.

## Plan

Sessions, LookupCache, PayLedger, Staff came first, in the order of what a fault would cost, then the arithmetic and the
screens that read what they wrote, and the proofs in the same order.  Every invariant of the
passing runs is a theorem; what is left to TLC is liveness.
