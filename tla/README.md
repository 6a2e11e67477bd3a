# Verification of People

TLA+ models of People, the internal employee information system in `src/`: what its
handlers do to the database, one at a time and overlapping, what the database goes through
when the server starts, dies and is started again, and what stands before the handlers: the
signed gateway, the session check and the cache of permissions. TLC checks small instances;
TLAPS proves the theorems of section 4 for every value of the constants. Paths are those of
the repository; `service.go`, `hr.go`, `approval.go`, `position.go`, `people_ops.go` are in
`src/backend/internal/service/`, `store.go` in `src/backend/internal/store/`.

## 1. Inventory

One Go process (`cmd/server/main.go`) serves HTTP over one SQLite database. Every request
runs in a goroutine of its own, with no lock shared by handlers; the pool of connections is
not limited. SQLite makes a *transaction* atomic, and that is all the isolation there is: a
handler typically validates with a few queries, each a statement of its own, and then writes
in one transaction, without repeating the validation there. What is hard in this program is
in that gap, in the transactions that must change several tables together, and in
`store.Open`, which is a sequence of separately committed statements.

| Component | State | Operations | Hard behaviour | Correct when |
|---|---|---|---|---|
| Employees, departments, positions (`service.go`, `position.go`, `hr.go`) | `employees`, `departments`, `positions`, `department_positions` | create, update, delete, enable and disable | validation outside the transaction; rows deleted under a handler; stale copies written back | leaders are enabled members, the tree has no cycle, nobody works where nothing is, held positions stay usable, status changes only by enabling and disabling, the deleted stay deleted |
| Approvals (`approval.go`, `hr.go:177-225`) | `approval_requests`, `approval_steps`, `leave_records`, `leave_balances`, `employment_events`, `notifications` | create, review (advance, reject, complete with the effect of the type), cancel, the balance | two reviewers and the applicant on one step; an effect refused at the last moment; the session and the stage read before the transaction | rows of a request agree, decisions are signed by the entitled and stand, effects and notices happen once, balances add up, at most one open request of a type, leave within the entitlement |
| Accounts, sessions, OAuth (`service.go:177-262,637-759`, `hr.go:53-116`, `api.go`) | password columns of `employees`, `sessions`, `oauth_codes`, `oauth_tokens` | log in and out, change and reset the password, enable and disable, authorize (also for another account), redeem a code, client credentials, expiry | a request works with the row its session loaded; resets and disablings overtake it; a code is presented twice | nobody is locked out, a code is redeemed once, nothing is issued before a password was set, a changed password ends the other sessions |
| Startup (`store.go`) | all tables, once at each start | migrate department texts, seed positions and the administrator, migrate titles, legacy departures, hire events, upsert OAuth clients | a crash between two statements; a restart over what people changed; old data in any shape | an interrupted start is finished by the next, migration says what the old text said, restarts move nobody but to a position of a look-alike name, and undo nothing |
| Contracts, goals, profile (`people_ops.go`) | `employee_contracts`, `performance_goals` | create, update, delete, list | the one active contract is counted outside the write; a goal is filed under a department whose leader changes; buttons and handlers ask for different permissions | one active contract, what is deleted stays deleted, goals are written by those entitled, buttons are those the handlers honour |
| Permission client and cache (`permission/client.go`, `service.go:130-175`) | a map with a lock, 15 s per user | look up, ask, store | stale answers, two answers stored out of order, a call that takes its 5 s, an outage | what a request acts on was true less than 15 s before it came; an outage is not remembered; what is revoked goes |
| Gateway verifier (`security/gateway.go`) | nonces in memory | verify | the clock is read before the lock, delivery twice at once, expiry, restart | a signed request gets through once, or again when its window has just closed, and is refused for a reason only |
| Edge proxy (`edge/`, `cmd/edge`) | none | limit, rewrite, sign | signs once, the transport may send twice | with the verifier |
| Notifications (`hr.go:263-317`) | `notifications` | badge, mark one or all read | the badge is a query of its own | the result reaches the applicant; badge, lists and buttons agree |
| HTTP API (`api/api.go`) | none | routes, session and permission checks, encoding | accounts are reset and closed while requests run; two kinds of identity | who is served stands; what a session is for can be reached with a password only |
| Dashboard and listings | none | queries | the lists decide what somebody may see and click | lists, buttons and transactions agree |
| Configuration, process, deployment (`config`, `cmd/server`, `compose.yaml`) | environment | start, restart | restart policy | Startup |
| Frontend (`src/frontend`) | a page | views over the API | none | every rule is enforced by the backend |

How they interact: by shared tables only. Approvals changes what Directory keeps (a departure
disables an account and ends sessions and tokens, a transfer moves an employee) and reads it
(leader as approver, offers of a position). Accounts keeps the passwords of the same
employees. The proxy signs each request and the verifier lets it in. The session check of
`api.go` runs before every handler and hands it a copy of the employee row; the permission
service is asked at that moment. Startup runs alone, before the
first request. The things in this code that a test would hardly reach are listed one by one,
with their lines, under `hazards` in `PROJECT.json`.

## 2. Modules

```
Directory ──────────┐
ApprovalRows ───────┴─> Approvals ──INSTANCE──> ApprovalLifecycle (abstract)
     └────────────────> Startup     └──EXTENDS── ApprovalViews
Accounts ──INSTANCE──> Delegation (abstract)
     └──EXTENDS── Api
PermissionCache    Gateway    PeopleRecords    EmploymentHistory
Directory <──EXTENDS── DirectoryConflicts <── DirectoryProofs <── ApprovalsProofs (also of
ApprovalViews)   AccountsProofs (also of Api)
StartupProofs  PermissionCacheProofs  GatewayProofs  PeopleRecordsProofs  EmploymentHistoryProofs
MCDirectory  MCApprovals  MCApprovalViews  MCStartup  MCAccounts  MCApi  MCPermissionCache
MCGateway  MCPeopleRecords  MCEmploymentHistory      (instances for TLC)
```

**Directory.** A table is a function from ids to rows; `row` is `unused`, `present` or
`deleted`, because ids are never used twice. Handler `X` is `XCheck(w)` (every read and
early return of its validation) followed by `X(w)` (its transaction); `job[w]` carries what
worker `w`'s handler read in between. A failed validation answers an error and changes
nothing, so it is no step; `Fail` is the handler that answers an error after its validation
(a lost connection, a conflict). An UPDATE of a row that is gone changes nothing. One worker
means requests one after the other; with two they interleave. `Ops` selects the handlers an
instance exercises.

**DirectoryConflicts** models no code of its own. Nothing in the code holds a validation to
its transaction, and `Clash(i, j)` names, in five rules, the pairs of handlers of which one
can write away what the other has validated: somebody is given a department or position that
the other withdraws (`Unseats`), made leader while the other removes, disables or moves her
(`Deposes`), has her status set between its reading and its use (`Overtakes`), something is
hung under or offered in what the other deletes (`Uproots`), two departments are moved at once
(`Entangles`). `ApartSpec` is the directory with no clashing handlers in flight together and
all others overlapping freely. It is not a claim that the code keeps them apart: it says what
a lock, or reads moved into the transactions, would have to cover.

**Approvals** extends Directory with the workflow. A handler is up to three steps:
`Authenticate` (the session check and the copy of the actor's row), `CreateApprovalCheck` or
`ReviewDepartureCheck` (reads outside the transaction), and one transaction:
`CreateApproval`, `Reject`, `Advance`, `CompleteLeave`, `CompleteDeparture`,
`CompleteTransfer`, `CancelApproval`. `req`, `step`, `leave`, `used`, `events`, `notified`
are the six tables. The permission service is asked for two different things:
`ReviewGrant` is what it may answer about `approval:review`, which somebody of `Reviewers` may
have or not at that moment, `DepartureGrant` about `departure:review`, for
`DepartureReviewers`, whom the first does not let in. `Signers(kind)` are those who may sign a
step that asks for a permission.

**ApprovalRows** says what it means for the rows of one request to agree (`StepsAgree`); it
is shared by Approvals, which keeps them so, and Startup, which makes such rows from the old
`departure_requests`.

**ApprovalLifecycle** is the promise: a request collects the signatures it needs, takes
effect once with the last, or ends without effect; the applicant is told of a decision once.
Approvals implements it under `phaseOf`, `needOf`, `signedOf`, `effectOf`.

**Accounts.** `work[w]` is the employee row that a request of worker `w` loaded (`Login`,
`AuthenticateSession`, `AuthenticateOAuthAccount`); the password columns in `account` may
move on before the handler writes. `configured` and the `code` field of tokens are history:
who has ever set a password, and from which code a token was made. Resets, disablings and
departures come from requests of other people and are single steps (`Elsewhere`).
Redirect URIs, scopes, secrets and expiry times are abstracted to
"belongs to the client" and "has expired". The built-in administrator, whose account can be
neither reset nor disabled, is not among `Employees`.

**Delegation** is the promise to other systems, without sessions, passwords or requests: a
permission is given by somebody who has taken possession of her account, becomes one token of
hers while she works here, or lapses; a token that has ended stays ended. Accounts implements
it under `configured`, `workingOf`, `code` and `voiceOf`. What the promise does not contain:
that a disabling ends tokens (only a departure does; `Leave` leaves both open), and that the
person works here when she permits (asked in `session()`, again when the code is redeemed, and
not in between).

**Startup.** `pc` is the stage `Open` is in, `todo` what its loop has left, `cur` the text
between the two statements of `MakeDepartment` and `LinkDepartment`. Texts, the case
folding of Go (`Lower`) and of SQLite (`SqlLower`), and trimming (`Trim`) are constants, so
that the conversions are modelled by what they do; the id of a migrated row is its lower
case name, which is what hashing it amounts to. While the server serves, `People` changes
names, positions, employees, approvals and the administrator's password, each handler as one
step. `Crash` may happen at any step of `Open` or while serving; `failed` is an `Open` that
returned an error.

**ApprovalViews** adds to Approvals what people see of it: `CanCancel` and `CanReview`
(`decorateApproval`), `Mine`, `PendingFor` and `Register` (the scopes of `ListApprovals`),
`MayOpen` (`GetApproval`), `PendingTasks` (the badge), `Board` and `DepartureStatus` (the
departure board), each the translation of one query, with the permission its caller in
`api.go` hands it: the badge and the board are given `departure:review` or `approval:review`,
the pending list and the review button `approval:review` alone; and `note`, the result notification of a request, written with
the deciding transaction and marked read by two handlers.

**EmploymentHistory** follows where each employee works, with the two copied names, and the
list of her events, in order of insertion. The handlers of five files write them: direct
edits and hiring, enabling, transfers, departures, renamings. Handler `X` is `XCheck`, all it
reads, and `X`, its transaction, and other handlers come in between; `muddled` (history) are
the employees for whom one has then written a name or a department that had changed
(`Outdated`), after which nothing in the code puts her rows right. `Restart` is the part of
`store.Open` that reads them again: a title is looked up as a position, an unknown one
becomes a position with an id made of the title (`Names` is therefore part of `PosIds`), and
everybody without a seed event gets one. An effective date is not followed: a transfer dated
in the future takes effect when it is approved, and the list is shown by date. Deletion and
the offers of positions are in Directory.

**PeopleRecords** has the handlers that read, decide and write one row with no transaction
at all. Who has written the content of a goal and who the comment (`editor`, `critic`), and
who has led a department (`led`), are history. `Managers` and `Viewers` are those whom the
permission service grants `performance:manage` and `performance:view`. Two things the model
shows that no property forbids: a goal is filed under the department in the session's copy
of the employee, and a manager's edit from an old form overwrites a newer comment.

**PermissionCache** is `loadPermissions` in steps: `Begin` (the clock is read), `Hit` or
`Miss` under the lock, `Answer` or `Fail` of the call, `Store` under the lock, `Finish`.
`Decide` is the Permission service giving or taking a permission at any moment. Time is
relative to now, so that it needs no bound: `left[u]` is the life left of an entry, `age` how
long a request has been under way, `steady` (history) how long a grant has stood. A tick is
the client's timeout of 5 s, hence `TTL` = 3.

**Gateway** is a signed request between `edge/proxy.go` and `security/gateway.go`. `Deliver`
reads the clock and checks the window, `Verify` is the locked part, any number of them for
one request: Go's transport sends an idempotent request again when a connection breaks,
with the signature it has. The second delivery is then answered 401 though the first was
served. `window[r]` is the signed time plus skew minus now; the proxy's clock may drift.
`Restart` forgets the nonces, after which a request in its window gets through again.

**Api** puts the handlers of `api.go` around Accounts: `Enter` is `session()`, with the
routes that are open while a password has to be set (`PasswordRoutes`) and those that are
not; `LookUpToken` and `Identify` are the two statements of `OAuthIdentity`. `overtaken`
(history) marks a request whose account was reset or closed since its row was read.

Definitions named `Mutant...` are slips the code does not make. No action uses them; they
are there to try whether the properties would notice, and the mutants in `PROJECT.json` say
which property notices which.

## 3. Runs

| Run | Question | Properties |
|---|---|---|
| `directory_kept_apart` | Which handlers can spoil leaders, tree, positions, offers and sessions when two overlap: none but the pairs `Clash` names? | `DirectorySound` `StatusKept` |
| `approvals_one_at_a_time` | Do the validations outside the transactions do their job when nothing overlaps; do departures and transfers leave the organisation sound; can every open request be ended; do badge, lists, buttons, board and notifications agree with the transactions? | `OnePendingPerKind` `AnnualWithinEntitlement` `DirectorySound` `ViewsSound` `EndInReach` `ResultsReachApplicant` |
| `approvals_interleaved` | With two handlers at a time, approvals and the edits and deletions of the people they are about, do the transactions keep a request's rows, effects and signatures right, book every leave, decide the stage a review was sent for, implement the life cycle, and leave deleted what is deleted? | `TypeOK` `StepDiscipline` `ReviewersEntitled` `EffectOnce` `BalanceMatchesRecords` `StageRespected` `NoResurrection` `DecisionsStand` `DepartureClosesAccount` `ImplementsLifecycle` |
| `startup` | Does Open migrate rightly, once, through crashes and restarts? | `StartupSound` `MigratedRowsAgree` `PlacesKept` `ChoicesKept` `OpenFinishes` |
| `accounts` | Do passwords, sessions, codes and tokens stay right when requests overlap, whom do the handlers of the API serve meanwhile, and what do other systems see of it? | `FirstLoginSound` `CodeRedeemedOnce` `ServedRightly` `PasswordChangeEndsSessions` `ImplementsDelegation` |
| `people_records` | Is there one active contract, does a deleted one stay deleted, who writes what of a goal while leaders and departments change, and which buttons are honoured? | `OneActiveContract` `GoalAuthority` `ButtonsHonoured` `DeletedStaysDeleted` |
| `permission_cache` | How old can a permission be that a request acts on, and is what is revoked gone in the end? | `GrantsFresh` `RefusalsFresh` `RevocationTakesEffect` |
| `gateway` | When can a signed request get through again, and is it refused only for a reason? | `AcceptedRemembered` `RefusedForCause` `AcceptedOnce` |
| `employment_history` | With two handlers at a time: as long as nobody is written for from what was outdated, does the history tell where people work and where they came from, and are the copied names right? Whom does a restart move? | `HistorySound` `RestartNeutral` |
| `annual_leave_overbooked` | violation | `AnnualWithinEntitlement` |
| `admin_creation_interrupted` | violation | `AdminAskedForPassword` |
| `departments_differ_in_case` | violation | `OpenSucceeds` |

Eight of the properties are conjunctions of named parts, each stated and explained where it
is defined: `DirectorySound` (`LeadersSound`, `StaffedDepartmentsExist`,
`HeldPositionsUsable`, `HierarchySound`, `OffersSound`, `SessionsSound`), `ViewsSound`
(`ViewsAgree`, `LeadsSomewhere`, `BoardTells`), `StartupSound` (`StartupTypeOK`,
`SnapshotsInSync`, `HistoryBegins`, `ClientsConfigured`), `PlacesKept` (`AssignmentsKept`,
`MigrationFaithful`), `ChoicesKept` (`DecisionsKept`, `AdminPasswordKept`), `HistorySound`
(`HistoryTypeOK` and, of an employee, `EndsHere`, `InStep`, `Connected`), `FirstLoginSound`
(`NeverLockedOut`, `NoCodeBeforePassword`) and `ServedRightly` (`ServedStand`,
`TokensInScope`). `TypeOK` includes the type invariant of Directory; those of Accounts,
PeopleRecords and PermissionCache are proved (section 4).

**Bounds.** Two employees, two departments, one or two positions: enough for a leader and a
follower, a move between two departments, a cycle of two, a position held by one and changed
by the other. `directory_kept_apart` starts from an empty organisation, so that every row it
has was made by the handlers, and makes do with one employee (two take longer than a run
should, and were found to hold too): no rule speaks of two of them. Every rule of `Clash`, and
every alternative of a rule, is needed: with any one of them left out, TLC finds
`DirectorySound` or, for a status set under an `UpdateEmployee`, `StatusKept` violated in this
instance. Two workers where requests overlap: each race listed is between two handlers. In
`approvals_one_at_a_time` two requests: one leave against another's days, a departure beside a
leave; leave of 4 and 6 days against 10: 4 + 6 fits, 6 + 6 does not. `TwoOfStaff` lets the
second request begin only where both are of one employee, whose account is as it was: the counts
and the balance are per applicant, and each view decides by one request's row and steps. There
the manager may or
may not have `approval:review`, and the views are compared for every combination of the two
permissions. In `approvals_interleaved` two handlers review, withdraw or complete a request at
once, there are two departments, so that a transfer meets a direct edit, and one person has
`departure:review` alone and another `approval:review`; `SeveralLeaves` lets a second request
begin only where both are leaves of one employee and nothing happens to employees meanwhile
(what two requests share is her balance), and `TokensOfLeavers` issues an OAuth token only to
an employee who has asked to leave, the only one whose tokens an approval touches. Two sessions in an instance: the one that is kept and
one that is ended. One code and two tokens: a code redeemed twice would need no more. One
password: what is typed is the right one, or none is set. `MaxStarts` = 3: the first start
interrupted, a second that finishes, a third over changed data (a crash may interrupt any but
the last). `MaxChanges` = 2: a position deleted and its name given to another, or an employee
moved and her position renamed. The texts have a name with blanks around it, a name of the
catalogue, in two spellings (`"ops"`, `"Ops"`), a name of a department HR made, and a blank.
The position of the catalogue is the first model value of its `.cfg`, hence the one that a
look-up in lower case finds, as by its smaller id in the database. `MaxEvents` = 3 and `MaxRestarts` = 2:
a hiring, a move and another event; a restart that seeds and one that must not. Names are
three for two departments: one to rename to, one to take over. Two handlers overlap until
somebody is muddled, then one at a time goes on (`Overlapping`), with restarts that find the
title left behind. Two contracts and one goal: an
active contract and a second one, a goal and everybody who may write it: one person may manage
goals and the other only view them. `people_records` has
one handler at a time, between whose two steps contracts are deleted, employees moved and
leaders replaced; for two and more, `GoalAuthority`, `ButtonsHonoured` and
`DeletedStaysDeleted` are proved, and `OneActiveContract` is false, within a bound that is
proved. `TTL` = 3 and `MaxAge` =
2: an entry lives through the longest request, an answer can be stored after a newer one, and
everything expires. `Skew` = 2 and `MaxAge` = 2: a verification may last as long as half a
window; `Drifts` has clocks in step, off by the skew, and off by more. Ages are capped where
nothing depends on more (`Horizon`, `Floor`), so that time in these two modules runs on for
ever. Symmetry is used over ids that no definition tells apart (requests, workers, sessions,
codes, tokens, names, contracts; employees in Accounts; employees and departments where there
are none at first); `startup` and `permission_cache`, which have a liveness property, use
none.

**Deadlock** is checked in PeopleRecords, PermissionCache and Gateway, which never stop. In
the other runs it is not: ids are finite in an instance and, as in the program, nobody
has to send another request.

**Fairness.** The properties of all runs but two are safety and need none: no request has to
come, no reviewer has to act. `OpenFinishes` is checked under
`WF(OpenStep) /\ WF(Start)`: `Open` is straight-line code in one goroutine that nothing
blocks, and `compose.yaml:11` restarts the container (`restart: unless-stopped`) whenever
the process ends. There is no fairness on `Crash`, which `MaxStarts` bounds.
`RevocationTakesEffect` is checked under `WF(Tick)` and, for each worker, `WF(Load)` and
`WF(Finish)`: time passes, and a request that was begun goes on, since its call has a timeout
(`permission/client.go:29`) and the rest of it waits for nothing but a lock held for a moment. No
fairness makes a request come, the service answer rather than fail, or anybody revoke.

**What the passing runs show of the interleavings.** With two handlers at a time the
transactions of the approval workflow hold: their UPDATEs name the status they expect and
everything that must change together does. The validations *outside* transactions hold one
request at a time only. With `Workers = {w1, w2}` TLC finds a counterexample for each of
`LeadersSound` (UpdateDepartment appoints a leader whom SetEmployeeEnabled is disabling),
`HierarchySound` (two moves close a cycle), `StaffedDepartmentsExist` (CreateEmployee into a
department found empty), `HeldPositionsUsable` (a position disabled under a new holder),
`StatusKept` and `SessionsSound` (a status or a session written after the account was
disabled), `OnePendingPerKind`, `AnnualWithinEntitlement` and `OneActiveContract`, and so would
it for `StageRespected` without its second alternative (the stage is approved between the check
of a review and its transaction, which then decides the next) and for `HistorySound` without
`muddled` (an enabling that overlaps a transfer records the department left). Where the repository says otherwise, see below; all are
listed as hazards with their lines. A copied title that was left behind does more harm than it
shows: at the next start `Restart` makes a position of it and moves the employee there, as it
does in `employment_history`, or `Open` fails when the id of that position is taken.

**Findings**, each with a run that shows it.
* `annual_leave_overbooked`: two annual leaves of six days, each found to fit in ten.
* `admin_creation_interrupted`: the process dies between `store.go:60`, where the column
  default makes the new administrator one who must change the password, and `store.go:67`,
  which takes that back; no later start does, and `Login` does not look at the password
  while the flag is set.
* `departments_differ_in_case`: two department texts that differ in case have one id; the
  second insertion is dropped, the look-up by id and exact name finds nothing, and `Open`
  fails at every start.

**Other disagreements** between the code and what the repository says of it. No run of the
project is kept for them; TLC shows each when the run named is changed as the table says.

| The code | The text | To see it |
|---|---|---|
| `people_ops.go:100`: two requests find no active contract and both write one | errors at `people_ops.go:104` and `:132`: the employee has an active contract | `people_records` with two workers: `OneActiveContract` |
| `api.go:558`: `listGoals` derives the buttons from view or manage, `updateGoal` (`:589`) wants manage | `PeopleOperationsView.vue:170` shows the buttons by these flags | `people_records`: `ButtonsHonoured` without `OnlyViews`, its exception for who may view and not manage |
| `api.go:662`: the badge counts with `departure:review` or `approval:review`, the list (`:428`) and the review (`:469`) with `approval:review` | `AppLayout.vue:109` leads from the count to the approval centre | `approvals_one_at_a_time`: `ViewsAgree` without `beyond`, the transfers that somebody with `departure:review` alone is counted and cannot find |
| `position.go:113`, `service.go:403`: a name read before a renaming is written after it | `src/README.md:26` and `:30`: a changed name is carried over to the employees | `employment_history`: `HistorySound` without `muddled` |
| `service.go:420`: the event of a direct edit leads from the new department to the new department, because gorm has already written the new values into the struct | `EmployeesView.vue:198` shows from and to with an arrow | `employment_history`: `Connected` without `LedOnly`, its exception for edits that tell where they led in both places |
| `store.go:286`: the seed event at the next start says that somebody already hired was hired into the department she works in today | `ProfileView.vue:56`: the record of hiring and moves | `employment_history`: the last line of `RestartNeutral`, which asks for that second event |
| `store.go:156`: `seedPositions` brings a deleted position of the catalogue back at each start, comparing names exactly; `migrateLegacyPositions` (`:182`) compares in lower case. Who deletes "DevOps 工程师" and makes "Devops 工程师" finds both at the next start, and its holders in the one with the lower id | `src/README.md:32` and `department_migration_test.go:105`: the positions are seeded, and migrated, idempotently | `startup`: `AssignmentsKept` without `Lookalikes`, its exception for two names that differ in case |
| `service.go:718`: a token from before a reset still shows the profile | `src/README.md:22`: until a password is set every other request is refused | `accounts`: `ServedStand` with `~account[Served(w)].must` asked of `userinfo` too; what it asks is that a password was set at some time |

## 4. Proofs

Assumptions: `DirectoryAssumption` and `InitialAssumption` (the empty value is no id; the
initial tables are well typed and hold no deleted row), `ApprovalsAssumption` (the
administrator is not one of the other employees, reviewers are employees, leave is 1 to 60
days), `AccountsAssumption` (the empty value is no id and no hash), `RecordsAssumption` (the
same, and managers and viewers are people), `CacheAssumption` and `GatewayAssumption`
(positive durations, administrators are users, some user and some request exist),
`HistoryAssumption` (the empty value is no id and no name), `StartupAssumption` (a name is
trimmed; where SQLite's `LOWER` of a name is Go's of another, Go's of both is the same; the
catalogue has no name twice) and `OldDatabase` (its rows are well typed, the two department
columns of an employee agree, and the new position column has its default). TLC evaluates each
of them in the runs. The sets need not be finite, except where a theorem says so.

Hypotheses of single theorems:
* `ApartSpec`, `SystemApart` (no two handlers in flight clash; in the second, nothing that is
  approved clashes with one in flight either): what is validated outside a transaction holds
  only while nothing writes it away, section 3 has the counterexamples. `Clash` says which
  overlaps those are, each is needed, and all others are allowed.
* `IsFiniteSet(Departments)`: tables are finite. On an infinite set a cycle-free tree need not
  have an end. (Of requests finitely many have been made at any time, which is proved.)
* `IsFiniteSet(Workers)`: the bounds count the handlers in flight.
* `DirectorySound` at first: an organisation made by the handlers from nothing has it (its
  initial state, empty, has it, and the run starts there); one that is broken already is not
  repaired by them.

No theorem assumes that requests come one at a time.

| Theorem | Establishes, for every value of the constants |
|---|---|
| `DirectoryProofs!DirTyped` | `DirSpec => []DirTypeOK` |
| `DirectoryProofs!NothingResurrected` | `DirSpec => NoResurrection` |
| `DirectoryProofs!OrganisationStaysSound` | `IsFiniteSet(Departments) => (ApartSpec /\ DirectorySound => []DirectorySound)` |
| `ApprovalsProofs!Typed` | `Spec => []TypeOK` |
| `ApprovalsProofs!Disciplined` | `Spec => []StepDiscipline` |
| `ApprovalsProofs!OneEffect` | `Spec => []EffectOnce` |
| `ApprovalsProofs!OnlyEntitledReviewers` | `Spec => []ReviewersEntitled` |
| `ApprovalsProofs!DecisionsStay` | `Spec => DecisionsStand` |
| `ApprovalsProofs!DepartureIsFinal` | `Spec => DepartureClosesAccount` |
| `ApprovalsProofs!NobodyRevived` | `Spec => NoResurrection` |
| `ApprovalsProofs!WorkflowImplementsLifecycle` | `Spec => ImplementsLifecycle` |
| `ApprovalsProofs!OrganisationSoundThroughout` | `IsFiniteSet(Departments) => (SystemApart /\ DirectorySound => []DirectorySound)` |
| `ApprovalsProofs!BalancesMatch` | `Spec => []BalanceMatchesRecords` |
| `ApprovalsProofs!OpenRequestsBounded` | `IsFiniteSet(Workers) => (Spec => []OpenWithinHandlers)` |
| `ApprovalsProofs!OverbookingBounded` | `IsFiniteSet(Workers) => (Spec => []AnnualWithinHandlers)` |
| `ApprovalsProofs!StagesRespected` | `Spec => StageRespected` |
| `ApprovalsProofs!ViewsOnlyLook` | `ViewSpec => Spec` |
| `ApprovalsProofs!ViewsAreSound` | `ViewSpec => []ViewsSound` |
| `ApprovalsProofs!AlwaysAnEnd` | `ViewSpec => []EndInReach` |
| `ApprovalsProofs!ResultsAreTold` | `ViewSpec => ResultsReachApplicant` |
| `AccountsProofs!AccTyped` | `Spec => []AccTypeOK` |
| `AccountsProofs!FirstLoginIsSound` | `Spec => []FirstLoginSound` |
| `AccountsProofs!CodesRedeemedOnce` | `Spec => []CodeRedeemedOnce` |
| `AccountsProofs!PasswordsEndSessions` | `Spec => PasswordChangeEndsSessions` |
| `AccountsProofs!AccountsImplementDelegation` | `Spec => ImplementsDelegation` |
| `AccountsProofs!HandlersOnlyAdmit` | `ApiSpec => Spec` |
| `AccountsProofs!ServesWhomItShould` | `ApiSpec => []ServedRightly` |
| `StartupProofs!ServedWhole` | `Spec => []StartupSound` |
| `StartupProofs!MigratedRequestsAgree` | `Spec => []MigratedRowsAgree` |
| `StartupProofs!NothingIsUndone` | `Spec => ChoicesKept` |
| `StartupProofs!MigratedRightly` | `Spec => MigrationFaithful` |
| `StartupProofs!RestartMovesToLookalikes` | `Spec => PlacesKept` |
| `PermissionCacheProofs!PermTypeCorrect` | `PermSpec => []PermTypeOK` |
| `PermissionCacheProofs!GrantsAreFresh` | `PermSpec => []GrantsFresh` |
| `PermissionCacheProofs!RefusalsAreFresh` | `PermSpec => []RefusalsFresh` |
| `GatewayProofs!Remembered` | `GwSpec => []AcceptedRemembered` |
| `GatewayProofs!Refusals` | `GwSpec => []RefusedForCause` |
| `GatewayProofs!ThroughOnce` | `GwSpec => AcceptedOnce` |
| `PeopleRecordsProofs!GoalsAuthorized` | `RecSpec => []GoalAuthority` |
| `PeopleRecordsProofs!ContractsStayDeleted` | `RecSpec => DeletedStaysDeleted` |
| `PeopleRecordsProofs!ButtonsAreHonoured` | `RecSpec => []ButtonsHonoured` |
| `PeopleRecordsProofs!ContractsInForceBounded` | `IsFiniteSet(Workers) => (RecSpec => []ActiveWithinHandlers)` |
| `EmploymentHistoryProofs!HistoryIsSound` | `HistorySpec => []HistorySound` |
| `EmploymentHistoryProofs!RestartsAreNeutral` | `HistorySpec => RestartNeutral` |

*Directory.* `NoResurrection` needs `Blank`: a deletion that was validated twice writes a row
that is already deleted, and changes nothing only because nothing is left in such a row.
`WriteLeavesDeleted` has one case per transaction; `ApprovalLeavesDeleted` adds those of the
workflow, of which only the approvals of a departure and of a transfer write the directory.
`DirectorySound` is inductive together with `AllValid`: what each handler in flight has
validated still holds (`Valid`, the part of a validation that the writes depend on). The
eleven transactions come down to seven effects (`WriteEffects`): somebody is placed or has her
account relabelled, a department is arranged, something is removed, a position is offered, a
session begins, or nothing. For each effect one lemma says that it keeps the organisation
sound if the job behind it is still valid (`PlacedSound` and so on), another that it leaves
the validation of any other job true unless the two clash (`PlacedValid` and so on); the rules
of `Clash` are what these proofs asked for. `HierarchySound` says that every non-empty set of
departments has one whose parent is not in it. What the walk up the tree of a validation
leaves behind is `Rooted`: any set of departments that the new parent is in is left, climbing,
at one other than the department that moves (`WalkLeaves`). So said, it is not about a path
that others may change, and only another move can spoil it.

*Approvals.* The invariant is `IInv == TypeOK /\ StepDiscipline /\ InTransit /\
ReviewersEntitled /\ EffectOnce`. None of them is inductive without the types, and `EffectOnce`
needs `StepDiscipline` (that a request completes for the first time follows from its steps).
`InTransit`, that a review of a departure on its way was sent for a departure and for a stage
that was open then, is what `ReviewersEntitled` (a stage HR signs is signed with a permission,
also by a review sent for the stage before) and `StagesRespected` rest on.
`StepCases` reduces a step of the whole system to what happened to one request's rows:
nothing, created, refused, advanced, approved or cancelled; each invariant, each action
property and the refinement is then proved row by row from those six cases. The refinement
maps them to stuttering, `Submit`, `Refuse`, `Sign`, `Approve` and `Withdraw`. The soundness
of the organisation carries over to the workflow because the approval of a departure or of a
transfer has the effect of a job of the directory that is valid when it is made
(`DepartureEffect`, `TransferEffect`).

*Balances.* Only finitely many requests have been made at any time (`MadeHolds`), so that sums
over them make sense for any set `Requests`. What the proofs need of a sum of days
(`SumAdds`: an element more; `SumOfSame`: only the summands count; `SumSubset`, `SumBounded`)
is induction over a finite set, which is done here without the library's induction theorems:
`LeastSet` gives, of the subsets for which a lemma fails, one that contains no other such set,
and taking one element out of it refutes it. `SumUnfolds` gets the fold's own equation
that way too (`AdderExists`, `AddersAgree`). `BalancesMatch` then looks at the one step that
books (`LeaveCases`, `Booked`).

*What the checks of a creation are worth when requests overlap.* `CreateApprovalCheck` reads
outside the transaction that inserts, so two handlers can both pass, and
`annual_leave_overbooked` shows it. `OpenRequestsBounded` and `OverbookingBounded` say by how much the rule can
be missed: each handler in flight is let through on its own account, hence n handlers
open at most n requests of a kind and spend at most n entitlements, whatever
they do next. The invariants count the handlers that have passed the check and not
inserted yet (`Creating`, `InFlight`, `Load`) together with what is in the tables;
`CreationCases` and `AskedCases` reduce a step to a check passed, a request
inserted, a leave booked or none of these. For n = 1 they are the rules as they were meant,
`OnePendingPerKind` and `AnnualWithinEntitlement`.

*Views.* `ViewsAreSound` and `AlwaysAnEnd` rest on `Named`: a request has an applicant who is
an employee, its named approvers are other people, and the last of two steps asks for a
permission and not for a person. Two handlers cannot disturb it, so these two hold however
requests overlap. `ViewsAgree` takes the two permissions one by one: the badge is what the
approval centre lets her decide, what the departure board lets her decide, and, for somebody
with `departure:review`, the second step of other people's transfers.

*Accounts.* `AccInv` adds to `CodeRedeemedOnce` and the two parts of `FirstLoginSound` what
they rest on: an open session belongs
to an employee (`Owned`), a token without an owner comes from no code (`ClientTokens`), and a
row that says a password is set, in the table *or in the copy a request works with*, is of
somebody who has set one (`Configured`). The last is why `NoCodeBeforePassword` survives a
reset that comes between the session check and the authorization: the copy is stale, but it
is stale about a reset, never about a first password. Four lemmas (`AccountCases`,
`WorkCases`, `CodeCases`, `TokenCases`) say what any step does to one row. The refinement has
one lemma per action of Delegation: `Authorize` is `Permit` because of `Configured`, and
`ExchangeCode` is `Redeem` because its transaction reads the code and its owner again; logins,
sessions and a reset are not seen (`UnseenStep`).

*API.* Each step of `Api` is one of `Accounts` or leaves its tables alone (`ApiStep`), so
the theorems above hold behind the handlers too. `ApiInv` adds to `ServedStand` that the route
of a call and the row its request has loaded belong together (`CallSound`). A call that was not
overtaken by a reset or a closing works with a row that is still true.

*Startup.* Four invariants. `Typed`: the tables
are well typed and `cur` and `todo` are what the stage leaves them to be. `Whole`: what is
true between two statements of `Open`. The stages that are done have done their work
(`Progress`), and nothing a later stage does or people did in between takes it back; the
position `general`, to which everything falls back, is always there. `OwnIsSettled`: a
password the administrator has chosen is no longer touched. `Distinct`: two positions whose
names differ in case only are one under its name of the catalogue and another, or SQLite's
`LOWER` does not fold one of them as Go does. For `NameAllowed`, which people's names must
pass, compares what SQLite folds, a migrated title becomes a position only if no name is like
it, and `seedPositions` alone looks for the exact name. A look-up of her title in lower case
therefore finds the position an employee holds, or one of these look-alikes, which is all that
`AssignmentsKept` allows.

*History.* `HistoryInv` adds to `HistorySound` that no two positions share a name (`Apart`,
the unique index), that whoever and whatever a handler has found is still there (`JobsSound`),
that a history begins with the hiring (`Begun`) and that `Open` has written one event at most
(`SeededOnce`). What a handler has *read* may be outdated at its transaction; if it is not
(`NotOutdated`), what it writes is in step, and if it is, the employee is muddled. `Apart` is
what makes a title lead to one position, so that a restart leaves those alone whose title is
the name of their position (`RestartMoves`), whatever was left behind elsewhere. A
transaction is one of three: one employee is placed and her history is one event longer
(`WrittenKept`), she is placed where she was (`RewrittenKept`), or a name changes and the
copies of it (`RenameKept`).

*Permission cache.* `FreshInv` adds to the two properties what the cache and an answer under
way know: an entry with `left` ticks to live was true `TTL - left` ticks ago at the latest
(`EntriesFresh`), an answer waiting to be stored not longer ago than its request is old
(`AnswersFresh`), and a request told nothing holds nothing. That the life of an entry counts
from the time of the request and not of the answer is what makes `Store` keep
`EntriesFresh`, in whatever order answers are stored.

*Gateway.* `GwInv` adds that nonces come from accepted requests and that only signed requests
travel. `AcceptedRemembered` survives the purge because `Verify` measures expiry with the
clock its own request read, which is never ahead of now.

*Records.* `GoalInv` adds what a review under way has read: its owner flag is still right
(owners do not change) and its leader flag was right at some time (`led`), which is what
`GoalAuthority` and `ButtonsHonoured` say and all that holds, since leaders do change. Two
handlers can both count no other active contract and both write one; `ContractInv` bounds what
comes of it: a handler in flight claims the contract it is about to make or to bring into
force, and the contracts in force and claimed are never more than the handlers (`ClaimsWithin`).
That count is taken anew at each check, which passes only when no contract but its own is in
force (`WithinAfterCheck`), and only falls or stays until the next.

*Only model-checked.* The two liveness properties `OpenFinishes` and `RevocationTakesEffect`,
which are out of the prover's reach; the three runs that expect a violation; `StatusKept`, which
`ApartSpec` keeps by excluding the one overlap that breaks it; and `OnePendingPerKind`,
`AnnualWithinEntitlement` and `OneActiveContract`, which hold one request at a time only and
of which the general statements are the proved bounds. Every other property of a run is stated
by a theorem.

## 5. Not modelled

Configuration, binding and encoding, the comparison of the CSRF cookie with its header, the
inner directory routes, the dashboard's counts, the leave calendar, the frontend and
`UpdateMyProfile` (one UPDATE of columns nothing else reads) keep no state a property could be
about. Hashing and signatures are taken to do what they are for: a signed request is told from
every other. The proxy's `ErrorHandler` (502) does not say whether the service was reached; a
client that then repeats its call makes a new request. Of what is modelled: wording, dates
(one calendar year; business days are a number), identities and hashes (model values), page
sizes and filters are abstracted. Disk errors inside a transaction are a rollback (`Fail`,
`Abandon`).

## 6. Plan

Done: Directory, Approvals with its life cycle and its views, Startup, Accounts and Api,
EmploymentHistory, PeopleRecords, PermissionCache, Gateway; the proofs of section 4.

Worth doing next, in this order:

1. That PermissionCache implements an abstract permission at most one life old, first as a
   property of its run.
2. With titles in the events of `EmploymentHistory`: what the page shows of a change of
   position, and what a renaming leaves of it.
3. **PeopleSystem**: Directory, Accounts and Approvals over one employee table, with the
   sessions of Accounts in place of Directory's set and `ReviewGrant` taken from
   PermissionCache.
