# A TLA+ model of Mobilic

Mobilic records the working time of road-transport workers. This directory holds TLA+
modules for its API: the timeline of activities, the missions it is divided into, who may
still change it and its validation; the people who work for a company, sign in and act for
one another; the records, certificates, lists and files made of the work; and the nightly
jobs. TLC checks the modules on small instances, and TLAPS proves most of what they are
checked for on every instance.

Paths below are relative to the root of the repository (`app/...`). `PROJECT.json` maps
each definition to the lines it models and lists the runs, the hazards they are aimed at
and the theorems.

## 1. The system

The API is a Flask application that serves GraphQL mutations and REST routes. `gunicorn`
runs several worker processes (`Procfile`) over one PostgreSQL database at its default
isolation level, READ COMMITTED. A mutation is one transaction (`atomic_transaction`,
`app/controllers/utils.py`), some are two; hardly any code takes an explicit lock. Beside
the workers run the cron jobs of `cron.json` (auto-validations every hour; e-mails, ceased
activities, the sales funnel, anonymization and purges every night; certificates every
month) and celery workers.

So a request reads what is committed, decides, and writes later. What stands between it
and the others is the constraints of the database, and a run of a job may be cut short
between two of its commits. That is what makes this code hard to test, and what most
modules are about.

| Component | State | Modules | What makes it correct | Hard behaviour |
|---|---|---|---|---|
| **Activity timeline** (`domain/log_activities.py`, `models/activity.py`, `models/activity_version.py`) | `activity`, `activity_version` | `Timeline`, `TimelineConcurrent` | missions follow one another, no correction is lost, the history of corrections agrees with the rows and is never rewritten | the check on mission periods looks only at the mission written; the constraint on overlaps waits for the commit |
| **Missions and ends** (`domain/mission.py`, `controllers/mission.py`) | `mission`, `mission_end` | `Timeline`, `MissionWork`, `MissionValidation` | an ended mission is stopped; an end is taken back only by a write that leaves the user running | an end races a log |
| **Holidays** (`controllers/holiday.py`) | activities of type `off` | `Timeline`, `MissionValidation` | a day off is alone in its mission | its validation bypasses the queue |
| **Write permissions** (`domain/permissions.py`) | none | `MissionValidation`, `ValidationConcurrent` | what an admin validated never changes | checked when a request starts, used when it commits |
| **Mission validation** (`domain/validation.py`) | `mission_validation` | `MissionValidation`, `ValidationConcurrent` | what is validated is closed; only admins change settled work | three kinds of validation in any order |
| **Auto-validation queue and job** (`jobs/auto_validations.py`) | `mission_auto_validation` | `MissionValidation` | everything queued is decided one day, unless days off fill the batch | rows deleted while a run works through its batch, failing rows, killed runs, rows that are never dequeued |
| **Employment** (`controllers/employment.py`, `models/employment.py`) | `employment` | `Employment`, `EmploymentConcurrent` | ends that stay and work that is covered | three ways of a reattachment; the work after an end is counted before the end commits |
| **User agreement and suspension** (`models/user_agreement.py`, `jobs/emails/cgu`) | `user_agreement`, `user.status` | `UserAgreement` | only a refusal that ran its delay suspends, and then it ends everything | the job lists users once and suspends them one transaction after the other |
| **Refresh tokens** (`helpers/authentication.py`, `models/refresh_token.py`) | `refresh_token` | `Sessions` | a spent token opens no later refresh, sessions stay few | two refreshes with one token |
| **Sign-up, activation, passwords** (`controllers/user.py`, `domain/user.py`, `models/totp_credential.py`) | `user`, `totp_credential` | `Account` | who blocked himself needs a new password; tries are limited but for those written over | counters of passwords and of codes read, incremented and written without a lock |
| **France Connect, Pro Connect** (`controllers/authentication.py`, `domain/controller.py`) | `user`, `controller_user`, cookies | `Connect` | a session is of the account of who signed in | tabs that share cookies, answers out of order |
| **Third parties** (`domain/third_party_employment.py`, `controllers/third_party_company.py`) | `third_party_client_*` | `ThirdParty` | a software gets no access that an employee did not give, nor attaches him | synchronisations sent again, mails that lapsed, reattachments of a user who has not answered |
| **OAuth codes** (`helpers/oauth`) | `oauth2_*` | `OAuth` | a token given exists | two exchanges insert one row |
| **Impersonation by the support** (`controllers/impersonation.py`, `domain/impersonation.py`) | cookies, `support_action_log` | `Support` | bounded in time and tables; what its session writes is logged | tabs that share cookies; revocation meanwhile; bulk writes that the session does not see |
| **Staff requests, company settings** (`controllers/employment.py`, `controllers/company.py`) | `employment`, `company` | `StaffRequests` | delays between two mails, edits that do not mix | two managers at once |
| **Roadside controls** (`models/controller_control.py`, `controllers/controller.py`) | `controller_control` | `Controls` | what a control found stays, from one version of each day | get-or-create; two devices |
| **Regulations, work days** (`domain/regulations*.py`, `domain/work_days.py`, `services/`) | `regulation_computation`, `regulatory_alert` | `Regulations` | alerts are those of the work until it is corrected, by checks that say what the rules ask | days split at midnight, periods over several days, days that leave the span of a mission |
| **Summary of alerts** (`domain/regulatory_alerts_summary.py`) | none | `AlertsSummary` | totals, groups, calendar and trend count the same alerts | computations that replace alerts between two reads |
| **Teams, vehicles, addresses** (`controllers/team.py`, `domain/vehicle.py`, `models/address.py`) | their tables | `Teams` | managers were told, but for a lost mail, and have the rights, but for an employment that is over; a plate is found again | update against demotion; a mail that fails beside a team that stays; get-or-create |
| **Locations, expenditures, comments** (`models/location_entry.py`, `controllers/location_entry.py`) | their tables | `MissionRecords` | readings grow where requests do not meet, a stated place is not replaced | two ends of a mission written at once |
| **History, disputes, notifications** (`domain/history.py`, `controllers/activity.py`, `models/notification.py`) | `activity_version`, `activity.dispute`, `notification` | `MissionHistory` | what is told agrees with the writes; of what a controller was shown only disputes and ends change | the cause of a dispute is guessed from the rows; two kinds of lines are not read as of the control |
| **Certificates** (`domain/certificate_criteria.py`, `models/company_certification.py`) | `company_certification` | `Certificates` | three pages agree, a better month is worth no less | rows deleted and committed before they are computed again |
| **Paged lists** (`models/user.py`, `models/queries.py`, `data_access/`) | none | `Paging` | each item once, each day whole | rows logged and cancelled between two pages |
| **Tachograph files** (`helpers/tachograph/__init__.py`) | a file | `Tachograph` | a card tells the work minute by minute and reads back | cyclic buffer, midnight, the running activity |
| **Signatures of files** (`helpers/tachograph/rsa_keys.py`) | keys, certificates | `CardSignatures` | every archive verifies | two requests create a key at once |
| **E-mail campaigns** (`jobs/emails`) | `email` | `Mailings` | nobody is written to by a campaign after a mail of it was recorded, or told two stories on a day | mails leave before the transaction commits |
| **Anonymization** (`services/anonymization`) | the tables and their copies | `Anonymization` | copied once, deleted for its age | a night cut short; rows that a foreign key holds |
| **Exports** (`services/exports.py`, `helpers/celery`, `helpers/export_chunking.py`) | `export`, files | `Exports` | each day is in one file; an export ends unless its failure could not be written | cancellation while a file is computed; messages and failures that are lost; one report for each company |
| **Brevo sales funnel** (`services/brevo`) | deals kept by Brevo | `BrevoFunnel` | one deal a company, never lost once won | calls that fail between two writes |
| **Company registration** (`controllers/company.py`, `domain/company.py`) | `company`, `business` | `CompanyRegistry` | companies share an establishment only if they were registered at once; closed ones are marked | the INSEE is asked before the insert |

Not modelled: the dashboard (counts of rows that `MissionValidation` keeps; it changes
nothing), the layout of PDF, spreadsheet and XML files and calls to services that change
nothing here, generated administration forms, data for demonstrations and reference tables
that are loaded once.

## 2. The modules

| Module | What it is |
|---|---|
| `Timeline` | The activities with their times, versions and mission ends. One action per mutation, served one after the other. |
| `TimelineConcurrent` | The same requests split into their loading, their flush and their commit, for several workers. |
| `MissionWork` | What the code that ends, validates and cancels missions sees of the timeline, without times: an abstract specification. |
| `TimelineRefinement` | The mapping from `Timeline` to `MissionWork`. |
| `MissionValidation` | Permissions, validations, queue and job, over `MissionWork`. |
| `ValidationConcurrent` | `MissionValidation` with corrections that are authorised in one step and committed in another. |
| `Employment`, `EmploymentConcurrent` | The rows of `employment` request by request, and with requests that read first and commit later. |
| `UserAgreement` | The terms of use and the suspensions, over `Employment`. |
| `Sessions`, `Account`, `Connect`, `OAuth`, `ThirdParty`, `Support`, `StaffRequests` | Who is let in, as whom, and for whom one acts; each with the transactions of its requests apart. |
| `Controls`, `MissionRecords`, `Teams`, `MissionHistory` | What is kept about the work. |
| `Regulations`, `AlertsSummary`, `Certificates`, `Paging`, `Tachograph`, `CardSignatures` | What is computed of it and handed out. |
| `Mailings`, `Anonymization`, `Exports`, `BrevoFunnel`, `CompanyRegistry` | The jobs. |
| `MC*` | Constants, symmetry, views and bounds of the instances. |
| `*Proofs` | The theorems (section 4). |

`MissionValidation` EXTENDS `MissionWork`, so what it assumes of the activities is exactly
what `TimelineRefinement` shows of `Timeline`: the two parts are checked apart and fit
together by refinement. `UserAgreement` and `EmploymentConcurrent` extend `Employment` in
the same way. The other components share no state: each is a module of its own, and
`MCPeople`, `MCRecords` and `MCJobs` put several of them side by side, one *scene* at a
time, so that one run explores them all.

Two conventions recur. A request that the code serves in two transactions, or that reads
before another commits and writes after, is two or more actions, with what it holds in
between in a variable (`request`, `login`, `serving`, `tabs`, `asks`, `call`, `handling`,
`asset`, `tx`, ...). A job is a variable with its phase and what it has read, and its
actions are its commits, so a crash is one more action.

### Timeline and the code

* `activities` maps the id of a row to the row or `Null`. A row carries its columns
  and the sequence of its versions; `ends` is table `mission_end`; `now` is the
  reception time of requests. Times are integers (seconds); `ToMinute` is
  `Period.validates_start_time`, which drops the seconds of what is stored while the
  checks of a request see the time it carries.
* `LogActivity` and `SwitchActivity` are `log_activity`, its creation and its
  switch mode; `EditActivity` is `Activity.revise` through `edit_activity`,
  `CancelActivity` is `Activity.dismiss`, `CancelMission` the mutation of that name,
  `EndMission` is `end_mission_for_user`, `CloseMission` is the mission end that
  `validate_mission` adds, `LogHoliday` the mutation.
* `handle_activities_update` surrounds each: the future check (`InTheFuture`), the
  holiday checks (`MayLog`), the reopening (`Reopened`), then `check_overlaps`
  (`PeriodIsFree`) and, on commit, the constraints of the database
  (`DurationsArePositive`, `NoOverlap`). A request that a check refuses rolls back,
  so it is no step.
* `VersionAt`, `KnownAt` and `ControlAt` are `Activity.version_at` and
  `freeze_activity_at` in their two modes. The exports and the comparison with what an
  employee validated read the rows received by an instant (`KnownAt`); a controller also
  reads those logged later, in their first version, if they start before the control
  (`ControlAt`, `include_posteriori_activities`).
* Every request comes from an authorised actor: `Timeline` allows more than the code.

### TimelineConcurrent and the code

A worker's transaction `tx[w]` holds the mission's rows as its session loaded them
(`seen`), the rows as the request leaves them (`plan`) and what it will do to the
mission end. `Begin...` loads and decides; `Flush` is `db.session.flush()` with the
locks and the unique version number the database enforces, the lookup of the mission
end and the check of mission periods; `CommitTx` is the commit, where the deferred
exclusion constraint is checked; `Rollback` is any failure. An UPDATE writes the
columns the session changed and no other (`MergedRow`). What other transactions have
written is seen once committed. `LogHoliday` is left out: its mission is created by
the same transaction and no other request knows it.

### MissionValidation and the code

* `validations` and `queue` are the two tables; the age of a row of the queue is
  counted in ticks up to `OldestAge`, after which rows behave alike. `revision` flips
  at each write on a user's activities, so that properties can say "was changed".
* `MayWriteFor` and `MayWrite` are `check_actor_can_write_on_mission_over_period` with
  and without `for_user`; the second is how `EndMission` and `ValidateMission` are
  authorised, the first how each correction inside them is.
* `ValidateMission` is the mutation: the pre-check for admins (`MayForce`), the
  activity items played first (`StopsFor`), then `validate_mission`. `Dequeued` is what
  it does to the queue.
* `JobStart`, `JobNextPhase`, `JobDrops`, `JobValidates`, `JobKeeps` and `JobStops` are
  a run of `job_process_auto_validations`: the employees' batch, then the company's,
  one transaction per row. After the first commit the objects of the batch are
  expired; the first row is used as it was read (`fresh`), a later one is read again
  and raises if it is gone, which ends the run. Any other error keeps the row.

### The people and the code

| Module | State | Steps |
|---|---|---|
| `Employment` | `employments` is the table; `work` the days with an activity, which ends and rights look at. | Each mutation of `controllers/employment.py` that changes a row is an action: `Invite` and `InviteBatch`, `ValidateEmployment`, `RejectEmployment`, `RedeemInvitation`, `SignUpInvited`, `Terminate` (several at once), `CancelEmployment`, `ChangeEmployeeRole`, `ReattachEmployment` with its three ways. `RecordWork` and `RemoveWork` are what the timeline does to the days. |
| `EmploymentConcurrent` | `tx`: the columns, or the work, a process is about to write; `beside`: the work recorded while an end was served. | `Begin...` reads and decides, `CommitUpdate` and `CommitInsert` meet the exclusion constraint, `CommitRecord` writes the work. |
| `UserAgreement` | `agreements`; `job`: the users the daily job has still to suspend; `refusedOn`: history. | `AcceptCgu`, `RejectCgu`, the suspension by `Login`, by `JobSuspends`, and the row the job fails on (`JobFails`). |
| `Sessions` | `tokens` is `refresh_token` in the order of creation, `holds` what browsers hold. | Creation and deletion are two transactions: `CommitCreation`, `CommitDeletion`; `Abandon` is a crash between. |
| `Account` | `account` and `totp` are rows, `mailed` and `resets` the links in mail boxes, `login` and `code` the columns a login and the check of a code are about to write; `tried` and `misses` count. | Sign-ups, activation, passwords; a login is `BadPassword`/`GoodPassword` then `CommitLogin`, a code `ValidateTotpLogin` then `CommitCode`. |
| `Connect` | The two tables, the cookies of one browser, what each tab waits for. | Departure, the answer of the provider, insertion, tokens, arrival of the response; a late `RefuseOrLogOut`. |
| `OAuth` | Tokens, codes and what each process is at. | `BeginExchange`, `ReadToken`, `InsertToken` (refused by the constraint when another came first), `AnswerToken`, `Die`. |
| `ThirdParty` | The links of the company and of the employee, his employments, the mails delivered. | `BeginSync`/`CommitSync`, which writes over the rights of the row it finds, `BeginAccept`/`CommitAccept`, ends, cancellations, reattachments and expiry. |
| `Support` | The cookies, the request of each tab, the log, the changes committed. | `StartImpersonation`, `StopImpersonation`, `Flush` with `guard_impersonation_scope` and the log, `Execute` for the bulk writes that pass both, `CommitChange`, `Purge`. |
| `StaffRequests` | `hires` and `firm`; `asks`: what each request has read. | Reminders, detachments, business types and settings, read, mailed and committed apart; `raced` marks what two requests met on. |

### The records and the code

| Module | State | Steps |
|---|---|---|
| `Controls` | `controls` is the table; `recordedAlerts` and `computedFor` what the regulations left; `handling` what each device is doing. | Scan (get-or-create), opening by hand, infractions observed and reported, bulletin, mail. |
| `MissionRecords` | `entry`, `odometer`, `expense`, `comment`; `request` holds what a request read. | `LogMissionLocation`, `RegisterKilometerAtLocation`, then `StoreRecord` or `RecordConflict`. |
| `Teams` | Teams, vehicles, places; `asset` holds what a request read. | `PopulateTeam`, `StoreVehicle`, `CreateCompanyKnownAddress` and the conflicts; mails that fail; roles, teams and ends of employees. |
| `MissionHistory` | `acts` with their versions, `confirmed`, what the employee `known`, disputes and their `causes`, what a `control` was shown. | Writes, validations by each and by the job, disputes, a scan. |
| `Regulations` | Layouts of activities on days of a few slots, validations, alerts and computed days. | Work days and the daily and weekly checks are functions over the slots (`domain/work_days.py`, `domain/regulations_per_day.py`, `regulations_per_week.py`); a validation replaces the alerts of the days it touches. |
| `AlertsSummary` | The alerts and computed days of the administrators' version. | `ComputeAlerts` and the staff that changes; the summary is a function of the state. |
| `Certificates` | The certificates, the job, the mails, `company_stats`. | The job deletes and commits, then computes company by company, then mails; any may fail; the three pages are functions of the state. |
| `Paging` | The rows, the list read and its cursor, how often each item was listed. | `AskPage` is one of the six lists; `LogRow` and `DismissRow` come between pages. |
| `Tachograph` | The activities of a driver and the card made of them, as the sixteen bits of each entry. | `MakeCard` writes the days into the cyclic buffer; `CardReadsBack` reads it as a reader would. |
| `CardSignatures` | The keys, what each request has found, the archives. | `FindKey`, `CountKeys`, `InsertKey`, `SignArchive`; a signature is its key and what it signs. |
| `Mailings` | Invitations, accounts, the rows of `email`, the campaign the job runs, the mails that left (`letters`) and what is not committed (`held`). | One action per query of `jobs/emails/bizdev`, then one per mail, and the commit; `JobStops` anywhere. |

### The jobs and the code

| Module | State | Steps |
|---|---|---|
| `Anonymization` | The tables, their copies, `mapping`, the phase of the night; `queue` and `clients`, whose foreign keys hold missions and companies back. | Users, copies, marks and deletions in the order of the three commands; `Crash`; employees work on, missions leave the queue, companies take and drop a software. |
| `Exports` | The queue, the rows of `export`, the bucket, what each worker does. | A report is one message, the full data one for each company. A task computes, uploads and marks, or is lost with its message (`LoseMessage`) or its failure (`BreakExport`); cancellation and download come between. |
| `BrevoFunnel` | What the queries read of each company, the deals Brevo holds, the command. | `SyncStep` treats one company against the answer read at first; `SyncFails`. |
| `CompanyRegistry` | Companies with their employments, the sign-ups and what they know, what the INSEE says, the job. | Sign-ups read, ask and insert apart; `CeasedJobStep` ends employments and marks the company. |

### Abstractions

*Timeline and validation.* Employment periods and token scopes are taken as fulfilled and
rights do not change. Validations for all users of a mission at once (`user_id` NULL),
which current code reads but no longer creates, are left out. `ValidateMission` concerns
one user and its items only that user; in `Timeline` a batch of items is one write after
another, so a batch whose intermediate states overlap is not there. `LogHoliday` logs one
day per transaction. The restriction of `EditActivity` and `CancelActivity` to the
submitter or the owner of the activity is dropped (more behaviours than the code). The
ages that let an admin validate first are an input (`old`). The working days of the
thresholds are ticks, and a tick is any period. Justifications, contexts and creation
times are left out.

*People.* Names, phones and survey answers are left out; a mail box is an address; a
provider answers with an identity or an error; a cookie is what it lets do. A token or a
link that may expire at any time is one nobody follows.

*Records and jobs.* Days have few slots and weeks few days, with the thresholds scaled
(`Limits`); sanctions, labels, pictures, wording and layouts are left out. Months of a
certificate show one of a few sets of facts. RSA is a pair of a key and what it signs. The
tables that follow a mission or a company row into the anonymized tables are one with it.

Not in the model at all: `MissionRecords` takes permissions from `MissionValidation` as
given; `Mailings` leaves out the mails to managers; `CompanyRegistry` the facilities
offered at sign-up; `BulkActivity` is a dry run of the writes of `Timeline`.

## 3. What TLC checks

Runs that pass:

| Run | Instance | Properties |
|---|---|---|
| `timeline_missions` | 1 user, 2 missions, 3 rows, 3 times, 2 versions | `MissionsDoNotInterleave`, `EndedMissionIsStopped`, `EndIsTakenBackByRunning` |
| `timeline_history` | 2 users, 1 mission, 2 rows, 2 readings of the clock, times inside a minute | `TypeOK`, `VersionsTellThePresent`, `HolidayMissionHoldsOneDay`, `PastIsImmutable`, `ImplementsMissionWork` |
| `race_rows` | 2 workers, 2 rows, 2 kinds of work, 2 times | `NoCorrectionIsLost`, `CorrectionsDoNotMix` |
| `validation_rights` | driver, mate, admin, 1 mission, team mode, job | `AdminValidationIsClosed`, `PendingEmployeeIsUnvalidated`, `AdminWordIsFinal`, `OnlyAdminsReviseSettledWork` |
| `validation_batch` | driver, 3 missions, batch of 2, fair job | `QueuedIsDecided` |
| `people` | 9 scenes, 2 requests or tabs at once | `EmploymentsAreSound` (scenes employment, agreement), `SessionsAreSound` (session), `AccountIsGuarded` (account), `AccessIsAsked` (software), `SignInIsSound` (connect), `StaffIsRespected` (staff), `SupportIsAccountable` (support), `TokensAreSound` (oauth) |
| `records` | 12 scenes, 2 requests or devices at once | `WorkIsEmployed` (employment), `ControlStands` (control), `AlertsAreRight` (regulation), `TeamsAreKept` (team), `RecordsAreKept` (record), `CertificatesAreFair` (certificate), `ListsAreWhole` (paging), `SummaryAddsUp` (summary), `HistoryIsFaithful` (history), `CardIsFaithful` (card), `FilesAreVerified` (signature), `MailsAreFew` (mailing) |
| `jobs` | 4 scenes, 2 workers, 1 failure or crash each | `AnonymizationIsSafe`, `ExportsAreWhole`, `FunnelIsTrue`, `RegistryIsSound` (one scene each), `JobsCatchUp` (all) |

Each of the composed properties (`...IsSound`, `...AreKept`) is a conjunction of named
parts, stated one by one in its module: the type invariant of the component, its
invariants, and what a step may not do. `JobsCatchUp` holds what the four jobs do in the
end: missions past their age are deleted unless a foreign key refuses it for ever, an
export ends unless its failure could not be written, the stage of a deal is the one its
company has reached, and a company the INSEE closed is marked.

Runs that find the code at odds with what it says of itself:

| Run | Property | What happens |
|---|---|---|
| `race_missions` | `MissionsDoNotInterleave` | Mission 1 is logged before and after a gap while mission 2 is logged in the gap, by two requests at once; each checks what is committed. The exclusion constraint sees no overlap. |
| `race_end` | `EndedMissionIsStopped` | A mission end and a log at once: the end does not see the new activity, the log sees no end to take back. |
| `race_validation` | `AdminWordIsFinal` | A correction is authorised, an admin validates, the correction commits. |
| `validation_dequeue` | `AutoValidatedIsDequeued` | A day off logged with `logActivity` is queued like any first activity, but a validation does not dequeue a holiday: the row is validated and notified again by every run. |

The first three hold, and are proved, when requests are served one after the other; the
fourth shows on a sequential run.

Each property of a passing run comes with a seeded fault, a variant of one definition (a
dropped guard, a missing reset, a check on stale data), under which its run finds it
violated; the variants stand beside the definitions they vary.

**Bounds.** `MaxVersions` bounds the corrections of a row; `Instant` and `Clock` are the
times; `OldestAge` bounds the ages in the queue. Two missions interleave with three
activities and three times, which `timeline_missions` has; a fourth row adds activities
that are checked pairwise like the others. Two workers are enough for the races, each
between a pair of transactions. Two users on one mission are needed for a day off and for
the rights of a team mate.

The scenes follow the same reasoning: two requests at once, since each hazard is between
two; as many rows as the deepest property relates, and one more where a limit is at stake
(two tokens and four rows for the limit of sessions, two tries of two for passwords and
codes); two or three days, since dates are compared and not counted. `People.cfg`,
`Records.cfg` and `Jobs.cfg` give the numbers, and the operators named `...IsSmall`,
`...AreSmall`, `...AreFew` and `...IsShort` of `MCPeople`, `MCRecords` and `MCJobs` say
which combinations are left out to keep a run short: in each case a second row, link or
company goes through less than the first, never nothing. Paging reads eight rows whose
missions overlap at their ends, in pages of one and two, with a floor of five rows read so
that the limit falls inside a day, and one change between pages. The scenes `regulation`
and `card` go through every layout of one or two activities over two days.

Where TLAPS proves the property (section 4) these bounds matter to nothing but the seeded
faults.

**Views and symmetry.** Rows, missions, users, workers, requests and browsers are
interchangeable, which the symmetry sets use in runs without liveness. `Present` keeps of
a row's versions their number, which is all the actions and the properties of
`timeline_missions` read of them; `Unrevised` leaves out the parity of the revisions,
which no action reads and which the properties of `validation_rights` compare over one
step; `InScene` keeps the variables of the scene, since the others never change.
`CHECK_DEADLOCK FALSE` appears where the bounds make the model stop.

**Fairness.** Requests are never assumed.

* `MissionValidation`: weak fairness of `Tick` is time that passes, and of `JobMoves` the
  hourly cron entry and the run that goes on. Strong fairness of `JobNextPhase` says that
  some runs reach their end although a killed process or a deleted row stops others;
  strong fairness of `JobProcesses(k)` says that a row is not met by an error every time
  it is tried. Both are what "keeping in queue for retry" in the job relies on.
  `QueuedIsDecided` excludes days off, which the queue keeps for ever
  (`validation_dequeue`), and the runs in which as many of them as a batch holds are
  queued (`Starves`): the oldest rows come first, and no other is then tried.
* `Anonymization`: weak fairness of `JobStep`, the cron entry of every night; crashes are
  bounded by `MaxCrashes`.
* `Exports`: weak fairness of each worker's `TaskStep`; a message is not redelivered, so
  one that is lost leaves no row.
* `BrevoFunnel`: weak fairness of `SyncStep`, the nightly synchronisation.
* `CompanyRegistry`: weak fairness of `CeasedJobStep` and of `NextRegistryDay`; the nights
  in which the INSEE does not answer are bounded by `MaxOutages`.

Each of these commands is in `cron.json`, or is the loop of a celery worker.

## 4. What TLAPS proves

For every set of users, missions, companies, rows and requests, and every value of the
limits and delays, under the assumptions named in the modules. These ask that limits are
numbers (`LimitAssumption`, `TokenAssumption`, `TimeAssumption`, `DelayAssumption`, ...),
that NULL is no value of a column (`NullAssumption`, `NoRowAssumption`, `NilAssumption`,
`NoAgreementAssumption`, `NoEndAssumption`), that tables and worker processes are finite
(`RowsAssumption`, `ServerAssumption`, `MailAssumption`), that a company has a founder
among the users (`PeopleAssumption`), and that what stands for data has the columns it is
read for (`CertAssumption`, `ConnectAssumption`, `ExportAssumption`,
`FunnelAssumption`, `PagingAssumption`). TLC evaluates each of them in a
run of its module.

| Theorem | States |
|---|---|
| `TimelineProofs!TypeCorrect` | `TypeOK` |
| `TimelineProofs!MissionsStayApart` | `MissionsDoNotInterleave` |
| `TimelineProofs!EndsAreFinal` | `EndedMissionIsStopped` |
| `TimelineProofs!EndsComeBackRunning` | `EndIsTakenBackByRunning` |
| `TimelineProofs!DaysOffStandAlone` | `HolidayMissionHoldsOneDay` |
| `TimelineProofs!TimelineImplementsMissionWork` | `ImplementsMissionWork` |
| `MissionValidationProofs!TypeCorrect` | The tables and the job keep their types, for any company and any delays |
| `MissionValidationProofs!AdminValidationStaysClosed` | `AdminValidationIsClosed` |
| `MissionValidationProofs!PendingStaysUnvalidated` | `PendingEmployeeIsUnvalidated` |
| `MissionValidationProofs!AdminHasTheLastWord` | `AdminWordIsFinal` |
| `MissionValidationProofs!SettledWorkIsForAdmins` | `OnlyAdminsReviseSettledWork` |
| `AccessProofs!SessionsStaySound` | `SessionsAreSound` |
| `AccessProofs!AccountStaysGuarded` | `AccountIsGuarded` |
| `EmploymentProofs!EmploymentsStaySound` | `EmploymentsAreSound` |
| `EmploymentProofs!WorkStaysEmployed` | `WorkIsEmployed` |
| `TimelineProofs!VersionsStayTrue` | `VersionsTellThePresent` |
| `TimelineProofs!PastStaysKnown` | `PastIsImmutable` |
| `TimelineConcurrentProofs!CorrectionsAreKept` | `NoCorrectionIsLost` |
| `TimelineConcurrentProofs!CorrectionsStayWhole` | `CorrectionsDoNotMix` |
| `AccessProofs!TokensStaySound` | `TokensAreSound` |
| `AccessProofs!SupportStaysAccountable` | `SupportIsAccountable` |
| `AccessProofs!AccessStaysAsked` | `AccessIsAsked` |
| `AccessProofs!SignInStaysSound` | `SignInIsSound` |
| `AccessProofs!StaffStaysRespected` | `StaffIsRespected` |
| `HistoryProofs!HistoryStaysFaithful` | `HistoryIsFaithful` |
| `HistoryProofs!CertificatesStayFair` | `CertificatesAreFair` |
| `HistoryProofs!ListsStayWhole` | `ListsAreWhole` |
| `RecordsProofs!ControlsStand` | `ControlStands` |
| `RecordsProofs!RecordsStayKept` | `RecordsAreKept` |
| `RecordsProofs!TeamsStayKept` | `TeamsAreKept` |
| `RecordsProofs!MailsStayFew` | `MailsAreFew` |
| `JobsProofs!DeletedWasCopied` | `AnonymizationIsSafe` |
| `JobsProofs!ReportsStayWhole` | `ExportsAreWhole` |
| `JobsProofs!DealsStayTrue` | `FunnelIsTrue` |
| `JobsProofs!RegistryStaysSound` | `RegistryIsSound` |

The proof modules follow one plan: the inductive invariant, its initial case, one lemma
for each action, the invariant's other conjuncts as facts, and the theorem.

**The timeline.** `TimelineInv` is the conjunction of `TypeOK`, positive durations,
`NoOverlap`, `EndedMissionIsStopped` and `MissionsDoNotInterleave`. The last two are not
inductive alone. That missions do not interleave after a write needs positive durations
and the absence of overlaps, with which the check on the period of one mission, its first
and its last activity says something of all the activities between; the second half of the
check, on the activities around the period, is what keeps the other missions from
enclosing it. The activities of a user on a mission are then ordered and only the last can
run, which is why stopping the last one is enough when a mission ends. `VersionsStayTrue`
and `PastStaysKnown` rest on another invariant: the versions of a row are dated in order,
none after the clock, and the last says what the row says.

**Requests at once.** `RaceInv` says of a transaction that what it plans is what it saw
with one version more at most, and that what it has flushed holds its version numbers
against the others: whoever has flushed a correction holds its row until the commit, and
the row is the one it read (`CorrectionsAreKept`). What the code promises
(`MissionsDoNotInterleave`, `EndedMissionIsStopped`) is then exactly what cannot be proved,
and the runs show it false. That no two live activities of a user overlap is the exclusion
constraint, a guard of `CommitTx`, and no property states it.

**The refinement.** Under `TimelineInv` each action maps to the step of `MissionWork` its
name suggests or to a stutter: what a write leaves on a mission depends on the rows of that
mission and user only, a dismissed row stays a row, and a day off is logged in an empty
mission only.

**The validation.** `AdminValidationIsClosed` follows by itself, since an admin's
validation closes the user's work and the permissions refuse every later write on it.
`QueueInv` adds to `PendingEmployeeIsUnvalidated` that who was validated has worked
(`ValidatedHasWorked`): a row for an employee is queued only with the first activity, and
no validation precedes it. The two action properties follow from the guards and, for the
job and for `EndMission`, from the closed work of the invariant.

**Employments.** `RowsMove` says what any request may do to a row that is there, and every
action is shown to obey it once; ends and refusals that stand, and the cover of recorded
work, follow from it. `EmploymentInv` adds `Refusals`: a delay that is over began with the
first refusal or later, and the job has read only users who refused that long ago, which
is why a suspension meets nobody else. `ConcurrentInv` says of an end that is still
to be written that it follows the work recorded so far, but for the work of requests it
met, and of work still to be written that it lies in an employment until an end is
committed (`WorkStaysEmployed`). The exclusion constraint, which alone keeps the
employments of a user apart, is a guard and no property.

**Access.** `SessionInv` says that the rows a request chose to delete are older than those
it spares, and counts the newer rows of each with the requests that will spare it: from
this count, and not from the limit alone, comes the bound `MaxTokens` plus one for each
other process. `AccountInv` orders what logins in flight will write. `OAuthInv` and
`ThirdPartyInv` say what a token names, in the table and in the mails; the second also that
an approved row of somebody who followed no mail is one an administrator gave back.
`SupportInv` says that whatever token travels was made by the supporter's last start or an
earlier one, and that what a session holds is in its log.
`ConnectInv` says of each tab and cookie whose account it is of. `StaffInv` says of each
request, and of each pair, what it has read that still stands, or that the two have raced.

**Records.** `ControlInv` says that a request holds an open control and, if it reports,
holds it alone. `RecordInv` keeps what a request has read of a mission that nobody else
records on, and `TeamInv` what it has read of vehicles and places, whose rows only come.
`MailInv` says that those a campaign still writes to are those its query found, of whom no
mail is recorded, and that what the query said of them still stands when it does. Its
proof needed that only an account that exists is activated, which `MailingTypeOK` now
says. `CertInv` says that a row is computed from its month and that the job has deleted
what it computes again. `HistoryInv` numbers the writes, so that what a validation, a
dispute or a control knew is a prefix of them; its proof corrected the model of the job's
validation, which stops a running activity in the name of the employee.
`PagingInv` says that an untouched item given once is behind the cursor and one not yet
given is ahead of it. That the cursor of a list of a user's missions, the start of the
last mission's first activity, leaves nothing out and brings nothing back rests on his
missions not interleaving, for the rows that stay among themselves and against what is
logged or cancelled meanwhile.

**The jobs.** `JobsProofs` shows what each job promises at every moment; what it promises in
the end is `JobsCatchUp`. `AnonymizationInv` says that a row has its one copy exactly when
it is gone or marked, that the marks of an anonymized user cover his employments, and that
only old missions or those of a marked company are marked: a night that is cut short leaves
all three, so the next may go on from there; what holds a row back (`PinsKept`) stands apart. For the exports, `ReportIsCut` shows that the
batches of employees and the years and months of a period are each cut without a gap or an
overlap, without induction, since the part a date or an employee falls in is a quotient; `ExportInv` then carries the whole file from the worker that
computes it to the bucket, with one worker on an export and none on what a checkout may
take. `FunnelInv` counts: a SIREN the command knows no deal of has at most as many as
requests have failed, so that the deal it creates makes one more; and what is left to treat
of a company whose deal is won is won as well. It names the companies that share no SIREN
with another (`Alone`), the only ones of which this holds. `RegistryInv` says of each item
of a sign-up that it is still to do or has its company, which no other request takes away,
and of the job on ceased activities that the company it works on was closed when it asked.

Only model-checked, and why:

* `QueuedIsDecided` and `JobsCatchUp` are liveness, which is out of the prover's reach.
* `AlertsAreRight`, `SummaryAddsUp`, `CardIsFaithful` and `FilesAreVerified` are about what
  folds, sums and recursion compute over data, which needs induction on it.
* The interleavings of `ValidationConcurrent`, whose one property is refuted.

## 5. What is known to be different

The findings above are runs. These remarks were met while modelling; they are either
allowed by the properties as stated (a named exception, a history variable) or outside the
model.

* *Timeline.* A controller asks for the activities by their start as it is now
  (`models/activity.py:99`): a correction that moves a start past the control hides a row he
  was shown, and what is logged late comes in with its first version (`ControlIsKept` names
  both; `tests/controls/test_control_frozen_data.py` asserts the second).
* *Employment.* A suspension leaves the work of its day outside any employment
  (`WorkIsCovered` names it). An end is decided while an activity is logged
  (`controllers/employment.py:580`, `beside` in `WorkIsEmployed`). A reattachment approves cancelled rows that nobody
  accepted (`:1040`) and leaves pending ones (`:1091`). The daily job suspends who accepted
  meanwhile. The address of an invitation is compared after the account is bound
  (`models/employment.py:204`).
* *Access.* A refused refresh or a logout that comes late clears newer cookies
  (`controllers/authentication.py:212-244`). A controller whose identifier and then address
  change gets a second row (`domain/controller.py:46-65`). Two refreshes with one token
  that overlap both succeed (`helpers/authentication.py:441`). Bad passwords and codes tried
  at once are counted once (`lost` in `tried` and `misses`; `authentication.py:152-173`). A
  mail that fails takes the block of an account back
  (`domain/user.py:120-127`). Nothing in the database keeps the links of third parties
  apart. A synchronisation writes over the rights of a row an administrator has approved
  (`domain/employment.py:22`), and an administrator gives back a cancelled or ended row of a
  user who has not answered (`controllers/employment.py:1029-1044`). An OAuth code is deleted after its token is given. Two managers who remind at once
  send two mails (`raced`). Bulk writes pass an impersonation's scope and audit
  because they bypass the session's events (`models/employment.py:243`, `regulations.py:171`,
  `validation.py:146`, `team.py:142`; `Execute` in `Support`).
* *Records.* A mail to a new team manager that fails is swallowed while the team stays
  (`controllers/team.py:127`), and who loses his rights by an end, a cancellation or a
  suspension stays manager of his teams (`controllers/employment.py:589`, `:747`,
  `models/user_agreement.py:128`). A controller's history of the past gains and loses lines
  of disputes and of ends (`domain/history.py:505-543`, `:326-345`): disputes are read as
  they are now, and an end becomes part of a later automatic validation. Two scans of one code may open two controls (`controller_control.py:300`).
  The weekly rest of `services/get_regulation_checks.py` is explained as 34 hours while
  `domain/regulations.py:228-264` looks at more. Alerts may be left on days a correction
  moved out of a mission (`domain/validation.py:230-250`). Readings of the two ends are
  compared with what the session read (`models/location_entry.py:94`). Addresses with the
  same coordinates are one (`models/address.py:50`). Two keys may have one serial number
  (`rsa_keys.py:118`), and `to_bytes` has no room for large values. A notification is
  skipped when its mail fails (`notifications.py:56`). A stop that the job made in the name
  of an employee who had validated is not his latest action (`models/mission.py:263`).
* *Validation.* A pending mission may have nothing queued (`models/activity.py:94`), and
  two runs of the job may insert two automatic validations (`domain/validation.py:202`).
* *Jobs.* An export cancelled once its task has read the row for the last time is made
  available (`helpers/celery/__init__.py:76`), and a checkout overwrites a cancellation
  (`controllers/company.py:884-912`). After an error of the database an export stays in
  progress, since its failure is committed on the broken transaction
  (`helpers/celery/__init__.py:95`). A transfer is dated by the checkout of the first of the
  reports a user of several companies asked for (`controllers/company.py:904-943`). A run of
  the invitation mails that stops before its commit sends them again
  (`send_invitation_emails.py:38`), as `WrittenToOnce` allows. Two sign-ups of a SIREN at
  once may give one establishment two companies (`controllers/company.py:384`,
  `SharedOnlyAtOnce`). A mission still named by `mission_auto_validation`, or a company by
  `third_party_client_company`, is held by a foreign key: the deletion is rolled back night
  after night, and the mappings it leaves stop the other commands (`Stuck`). A failed
  list of deals reads as empty (`helpers/brevo.py`). The job on ceased activities ends an
  employment accepted meanwhile, and an employment that begins this day stops it.
  `--force-clean` copies twice, `--test` deletes the mappings.

Next, by importance: holidays of several days in `Timeline`; a composition of
`Employment` with `MissionValidation`, whose rights would then end while work is pending;
the induction over data that four properties wait for.
