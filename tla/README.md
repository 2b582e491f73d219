# FrevOS / DevSetu: verification project

This directory holds TLA+ models of the platform's control plane, of the
workers and setup programs that act for it on other computers, and of the pages
that ask it to act; TLC configurations that check them on small instances; and
TLAPS proofs of theorems that hold for every instance. The repository's source
is the reference; `PROJECT.json` maps every definition to the lines it models,
and lists the hazards the properties are about.

## 1. The system and its parts

The control plane (`apps/control-plane`, Fastify, one Node process) keeps most
of its state in JSON record files, one class per store, each class serialising
its operations on one promise chain; accounts, repositories and the automation
queue are in PostgreSQL. Developer systems, build systems and destination
systems run small workers (`deployment/servix/*.cjs`, PowerShell on Windows)
that poll the control plane over HTTP. The hard behaviours come from four
places: a process may stop between two files of one operation; requests and
answers are lost, late or repeated; deadlines and permissions expire while a
worker is in the middle of something it cannot undo; and whoever sits at the
computer, or another member, changes things meanwhile.

| Part | State | Operations | Hard behaviour | Model |
|---|---|---|---|---|
| Component deployments (`component-deployments.ts`) | profile, run, job, executor records, artifact blobs | save, request, closeInterruptedBuild, state, claim, upload, complete, enrol, revoke | crash between records, expiry against a late receipt, dependency order, rollback chain | `ComponentPipeline` |
| Component executor worker (`ComponentExecutor.cjs`) | claim directory, receipt, activation lock, `current.json` | claim, build, activate, restore, complete, restart | lost answers, restart with a claim but no receipt, half-done activation | `ComponentRollout`, `Destination` |
| Source publication (`developer-connectors.ts`, `component-git.ts`, `Connector.cjs`) | requests, bundles, central repository, folder selection | queueSource, claim, upload, fail, chooseFolder | bundle imported but not recorded, two developers, folder changed under a publication | `SourcePublication` |
| System pairing (`SystemPairings`, `DeviceEnrollment.cjs`) | proposals, evidence, device records, the setup program's files | propose, decide, poll, install | one approval spanning several stores, resumed after a stop | `SystemPairing` |
| Enrolment by account (`SystemEnrollment.cjs` and its scripts) | the window, `connection.json`, `device.dpapi`, the consent file | connect, pair, install, resume, wait | tries repeated after every kind of failure | `SystemEnrollment` |
| System check (`SystemSetup.cjs`, `SystemPrerequisites.cjs`) | intents, results, the window | check, install, finish, expire, reopen | one request delivered several times, stops around installers | `SystemSetup` |
| Servix deployment (`servix-deployment.ts`, `Run-Activation.ps1`, `Invoke-DevTarget.ps1`) | deployments, approval files, claims, outcomes, the installed release | request, restore, build, enqueue, reconcile, activate, recover | three processes that share files only | `ServixDeployment` |
| Deployment settings (`deployment-settings.ts`, `DeploymentSettingsPage.tsx`) | one record and its history, the windows that show it | save, archive, test; open, edit, discard, close | a record saved by another window meanwhile, answers to a dialog that is gone | `DeploymentSettings` |
| Local development (`local-development.ts`, `LocalDevelopment.cjs`) | jobs, claims, receipts, plan, controllers | start, stop, restart, kill, configure, save | a job given again, processes that do not end, ports taken by strangers | `LocalDevelopment` |
| Environment variables (`EnvironmentVariables.tsx`, `EnvironmentEditor.cjs`) | the file, the dialog, the requests between them | read, edit, save, retry, replace | the file written by another program, answers and lists that overtake each other | `EnvironmentVariables` |
| System discovery and folder audit (`system-discovery.ts`, `SystemDiscovery.cjs`, `FolderBrowse.cjs`, `project-folder-search.ts`) | policies, history, buffer and spool; requests for folders, searches, previews | configure, observe, browse, search, preview | policy changed under buffered events, lost observations, consent that comes late | `ActivityCollection`, `FolderRequests` |
| Agent workspace and notifications (`agent-workspace.ts`, `agent-notifications.ts`) | connections, agents, runs, notices | propose, test, save, run, approve, show | configuration changed under a question in flight; a notice shown whose report is lost | `AgentWorkspace`, `AgentNotifications` |
| TrackGrn automation (`project-automation.ts`, `github-onboarding.ts`, `Invoke-TrackGrnAgent.ps1`) | operations, the checkout, branches and pull requests, discovered and connected repositories | request, claim, commit, open, merge, deploy; discover, connect | heads that move between confirmation and merge; read committed | `ProjectAutomation`, `GithubOnboarding` |
| Platform self updates (`self-updates.ts`, `Run-SelfUpdate.ps1`, `Apply-ServixDashboard.ps1`) | candidates, requests, claims, receipts, the active release | seal, request, apply, restore, report | replacing the process that serves the request; reboots | `SelfUpdates` |
| Identity and sessions (`repositories.ts`, `local-accounts.ts`, `server.ts`) | credentials, sessions, the audit file | login, logout, change and reset of a password | a password verified in one transaction and replaced in another | `LocalAccounts` |
| Control center (`apps/control-center`) | a confirmation under way, the list shown | confirm, send, retry, poll | answers and lists that overtake each other | `ConfirmedActions` |
| Containers and installation scripts | none of their own | | | not modelled |

What makes each part correct, in short:

* Component deployments: a build or an activation is asked for once; a
  component is only touched after what it depends on is live; at most one
  activation can be in progress on a destination; an ended run says what really
  happened; rollback returns to the release before, with its true commit; every
  run ends; an interrupted run is never resumed on its own.
* Executor worker: a destination holds a whole release or carries a lock; no
  later job touches a locked one; what the control plane takes for the current
  release is what stands there; an interrupted activation comes to require
  recovery; every receipt is acknowledged in the end.
* Source publication: what a run builds is the commit its request published and
  stays in the central repository; neither the central ref nor a checkout loses
  a commit; a folder is not changed under a publication.
* Pairing and enrolment: a computer is set up only for who approved it, an
  interrupted approval ends as an uninterrupted one, tries that are repeated
  register one device, and "connected" is true.
* Servix deployment and updates: one activation at a time; the release recorded
  as current is the one served; an interruption is neither forgotten nor
  reported as a success.
* Local development, tools: a job starts a process once; what was shown is what
  is stopped; nothing is installed that was not asked for on disk before.
* Settings, environment files: only what was shown is replaced; what was in force
  is kept; "saved" and "tested" are said of what is shown.
* Collection, previews: a number names one change; the policy in force decides
  what is sent; a file is read only for a preview allowed at the machine.
* Agents, notices: an answer counts only under the configuration it was asked
  under; what is said of a notice is what happened.
* Automation: what reaches main was confirmed and validated; a repository is
  one project.
* Accounts, pages: a password is replaced by who knows the one in force; what
  was confirmed once is stored once.

## 2. What is modelled now

### ComponentPipeline

One profile of the component deployments. State and code:

| Variable | In the code |
|---|---|
| `profile` | `profile-<id>.json`: revision and contents (components, dependencies, native recipes, archived) |
| `permitted` | the answer of the `allowed(actor, owner)` callback; it may change at any step |
| `runs` | `run-<id>.json`; run `r` is the r-th created, and the same number names its published commit and its source bundle |
| `jobs` | `job-<id>.json`, with what it acts on (`input`), what it replaces (`prev`), the commit (`head`), the upload (`output`) |
| `source` | the connector's record of the run's publication request |
| `clock` | the runs whose `expiresAt` has passed (all runs live sixty minutes, so they expire in order) |

Actions: `SaveProfile` (save), `Request` (request, which ends in an advance()),
`CloseInterruptedBuild`, `Poll` (state, or a claim that hands out nothing),
`Claim`, `Upload`, `Complete`, `PublishSource` and `FailSource` (the connector),
`ChangeAccess`, `PassDeadline`. The class runs every operation on its own
promise chain, so an operation is one step, and `advance()` is written as the
operator `Advanced` that every operation applies, exactly where the code calls
it. `RequestCrash`, `AdvanceCrash`, `CompleteCrash` and `CloseCrash` are the
same operations cut short after any prefix of their record writes; they also
stand for an advance() that throws half way.

How the data is abstracted:

* The loop over `componentOrder` visits a component after all it depends on, so
  a failure met in a pass blocks everything downstream in the same pass.
  `Blocked` says so in closed form with `Upstream`, the transitive dependencies;
  a success met in a pass never makes a job for the component itself, only for
  the ones after it.
* `expectedRevision` and `expectedCurrent` are equal to the stored values or the
  request is refused; a repeated `requestId` or a receipt that repeats the
  recorded status changes nothing. These are therefore no steps.
* Whether an executor is online when a run is requested, and whether the
  connector is when a publication is queued, is left open (`accepted`). Jobs are
  handed out in any order; the code takes the first of a directory listing and
  may refuse although a later job could be had.
* `current()` sorts by `updatedAt`. A profile has one pending run at a time, and
  a run that has ended is rewritten only by closeInterruptedBuild, in which
  nothing succeeded; so the order of time stamps is the order of creation,
  provided the wall clock does not step back.
* Executors belong to one profile and a profile's components have distinct
  destination bindings, so one profile at a time loses nothing of the target
  check at `component-deployments.ts:403`.
* A record file is written in one step. The torn write of a single fresh record
  is a listed hazard, not modelled.

### ComponentRollout

`ComponentPipeline` composed with the workers that do its jobs
(`P == INSTANCE ComponentPipeline`): one build system and one destination
system, each a sequential process. The pipeline's `Claim`, `Upload` and
`Complete` become the two sides of an exchange.

| Variable | In the code |
|---|---|
| `worker` | where a process stands in the loop of `worker()` and in `activate()`, with the job it was handed and the receipt it is about to write |
| `dirs` | the claim directories `cj_...` under `stateRoot`: `torn` while `claim.json`, or later `receipt.json`, is missing in part; `asked` once a restarted worker has reported the claim as interrupted |
| `lock` | `.runtime/devsetu-component.lock` under a binding's root |
| `files` | the release whose files stand there, or `Mixed` while they are replaced or put back |
| `current` | the release `current.json` names |
| `stops` | stops so far, at most `MaxStops` |

Actions, in the order of a job: `Take` (the server hands a job out; the answer
may be lost), `Refuse` (validateJob), `MakeDirectory`, `WriteClaim`, `Fetch`,
then either `Upload` or, on the destination, `TakeLock` or `LockedOut`,
`Reject` (nothing was touched yet), `Replace`, `Serve`, `Commit` (the rename of
`current.json`), `Falter`, `Restore`, `LeaveLocked` and `Unlock`, or `KeepLock`
when the file resists; `GiveUp` for any other failure; `WriteReceipt`. `Stop`
may come between any two of them, `Start` is the scheduled task, `Deliver` a
report that reaches the server.

How messages are abstracted: there is no variable for messages in flight. A
receipt is sent again every two seconds as long as the worker lives, so it may
be delivered at any moment after it was written, repeatedly, late, or never;
a delivery that is refused, or that repeats what is recorded, changes nothing
and is no step. The report of an interrupted claim is sent once, at the start
(`asked`), and may arrive at any moment after that. A download succeeds only
while the server holds the job as working and its hour is not over. An upload
that is stored and whose answer is lost ends in a receipt that says failed.
Whether a file, an archive, the runtime or its health fails is left open.

Left out: failures of the worker's own disk other than the lock file (a
directory that cannot be made, a receipt that cannot be written), several
systems per role, the `devsetu-native`
adapter, which is installed by the operator, and a second process on the same
binding.

### Destination

What a set of destination bindings promises, in five actions: a job later than
the last one is taken up, takes the lock if it is free, switches the release,
and finishes, which frees the lock, or is dropped, which leaves everything as it
is. `ComponentRollout` implements it (`TargetsAreDestinations`): the release is
`current.json`, the holder is the run in the lock file, the last job taken up is
the latest with a claim directory, and the phase is read off the worker's
position. What follows from it is checked on the module itself and proved.

### SourcePublication

Two processes per device: the control plane's records (`source` is
`sd_*.source.json`, `bundles` the bundle files, `central` the central ref,
`selection` and `presence` what it keeps of the device) and the connector
(`worker` is where its loop stands, `claimed`, `folder` and `local` what it has
on disk). A commit is the sequence of publications in its history, so ancestry
is the prefix order and a merge or a reset shows at once. `CheckSource` and
`QueueSource` are the two halves of `queueSource`, which looks at the device and
the base head before it enters its serial section; `Upload` takes the bundle,
imports it and records it, `UploadCrash` stops between the last two; the answer
of every step may be lost. `PassTime` ends the minute of a heartbeat or the ten
minutes of a request, `Restart` forgets what the control plane keeps in memory
(folder selections), `Stop` ends a connector anywhere.

### SystemPairing and SystemEnrollment

Two ways to connect a computer. `SystemPairing` is the proposal that a member
approves: `decide` is six steps (`Intend`, `Mark`, `Receipt`, `Accept`,
`Configure`, `Approve`), since each of its files is written alone and the
process may stop between two of them (`Halt`); the computer's setup program
(`Connect`, `Poll`, `Install`, `SaveConnection`, `Wait`) keeps `pending.json` and
`connection.json`, may find one of them torn, and makes another proposal when
one has failed. `Pair` stands for devices that the limit counts and that came
another way. `SystemEnrollment` is the window that signs in by itself: a try
(`Look`, `Pair`, `Install`, `Consent`, `Start`, `Remember`, `SeePolicy`,
`Await`) may fail at every step, a window keeps the device it registered
(`pending`), an answer or a process may be lost anywhere, and another account or
another window may go on. `Resume` replaces the configuration of a connector that
is there; it may fail with the connector already stopped, or between the
configuration and the consent file (`cut`). The runtime's files and their
manifest are not modelled, nor that a scheduled task starts a connector again.

### SystemSetup

The window that looks for tools and installs them. A report stands for its
fingerprint, so that "the preview changed" is inequality of reports; a version
number is reduced to a tool's status. An install request may be delivered
several times: `Accept`, `RecordIntent` (a new file, or the request ends),
`Review`, `Install` per tool, `Complete`. `AskFinish` and `Finish` are the two
halves of the finish request, between which an installation may begin. `Expire`
closes the window with whatever is running, `Reopen` kills it and starts it
again with the receipts on disk.

### ServixDeployment

Three processes that share files only: the store with its `build()` in the
background, the runner that consumes approval files, the operator on the target.
A deployment is a number and a release the deployment that built it. `Request`
and `Restore` are refused while something blocks; `Publish`, `Enqueue`,
`WriteApproval` and `GiveUp` are the steps of `build()`, which waits for the
promise chain in between; `Claim` to `WriteResult` are the runner's; `Verify` to
`StartTask` and `Recover` the operator's, with `release` = `Mixed` while files are
copied. Each process may stop between any two of its writes and what it left is
read by `Reconcile` and `RunnerStarts`.

### LocalDevelopment

One device. `commands` are the control plane's jobs, `marks` and `slips` the
claim and receipt files of the connector, `owned` the controllers that hold the
developer's processes, `port` who really listens. A state of the files is a
number, which stands for the fingerprint the runtime computes. The loop claims
a job (again, if it is still working), examines what was done of it, and starts
or stops services one by one; a stop that is not confirmed in fifteen seconds
leaves the controller in place (`Timeout`). Beside it processes exit and listen,
strangers take ports, files are edited, the connector stops (`Halt`, which takes
its services with it and may leave half a receipt where `MayTear`). Detection of
candidates and dependencies between services are left out, environment files
have a module of their own.

### EnvironmentVariables

One environment file from the dialog to the disk. Its `text` stands for the
digests taken of it. The dialog (`document` shown, `draft`, the request
`pending` and `frozen` for a retry) asks under numbers; the control plane keeps
`jobs` and what a read was answered with; the runtime claims a request, looks,
opens, patches and replaces (`Begin`, `Look`, `Read`, `Open`, `Patch`, `Replace`,
`Advance`, `WriteReceipt`), where the comparison and the replacement are one
step, since a helper holds the file. Another program may write it between any
two steps (`EditFile`), the connector may stop (`Stop`) and be another process
with another key, the dialog may be opened again. A receipt that is torn is left
to `LocalDevelopment`. `rereads` starts with the file shown, so that what follows
a save is reached within the bounds.

### DeploymentSettings

One project. The store is the promise chain of `save` in three steps
(`KeepOld`, `KeepNew`, `Replace`: the record before, the new one, the pointer),
any of which may fail or be cut off; `RunTest` reads the record beside the chain.
Each window keeps the record listed, the form and the record it was filled from
(`baseline`), and waits for one request at a time under its number. What a
record says is a member of `Contents`, those that the schema and the checks of
the destination admit.

### ActivityCollection and FolderRequests

`ActivityCollection` follows a change of a file from the watcher (`Notice`,
`Audit`, `Record`) through the buffer and its spool to an observation (`Sample`,
`Persist`, `Accepted`, `Unanswered`, `NotTaken`, `Refused`) and into the history,
which is pruned; policies are revised meanwhile, and the connector starts again
from its spool. `CrossDevice` is the Linux variant, in which a scan waits for the
device number of a root after it has looked at its generation.
`FolderRequests` are the three requests a member may make of a machine: to
browse, to search, to preview a file with consent. Each kind has its tick and
its claim; `Decide` is the local page; expiry, withdrawal of access and changes
of the file or of the roots may come anywhere. What a scan finds is input, and
how paths are classified as sensitive is left out.

### AgentWorkspace and AgentNotifications

The configuration (connection, agent, skills and memory) changes on one promise
chain; the runs and the tests of a connection do not use it, they read, ask the
model, read again, and write. `execute` is the steps `ReadAgent` to `EndRun`;
an agent or a connection is known by its revision. `Shown` is what a member is
told of a run, which counts as failed when it is older than ninety seconds and no
process works on it. A notice goes from a draft to an approval (two files,
`WriteApproval` and `Approve`), is handed out once, shown with local consent,
and reported; `Cut` stops either side. Provider protocols and the encryption of
keys are external.

### ProjectAutomation and GithubOnboarding

A revision of the source is the set of changes it holds, which is its SHA too.
`Claim` takes the oldest row (SKIP LOCKED: one laptop, one claim at a time);
`Begin`, `CommitAll`, `Push`, `OpenPullRequest`, `Merge`, `Follow` and `Deploy`
are the companion's script; `EditCheckout` and `PushByHand` are the developer's
hands; an `Outage` ends the script anywhere. `GithubOnboarding` has
transactions under READ COMMITTED: `LookForLink` and `Connect` are a look and a
write, and only a constraint of the table stands between two of them.

### SelfUpdates

Two members may ask at once (`Submit`, `PublishNote`, `PublishRequest`), the
updater claims a request, and `Apply-ServixDashboard.ps1` stops the web process,
switches, starts and checks, or restores; `StopUpdater` and `Reboot` come
anywhere. An activation script that outlives the updater that started it is not
modelled.

### LocalAccounts

A change of a password step by step: `Ask`, `ReadVersion`, `Verify`, `Approve`
(the audit file), then row locks on the session, the credential of who asks, the
credential replaced, and `Replace`, which revokes sessions. Two changes may wait
on each other; `Deadlocked` is the database ending one. Logins (with the lock
after five failures, two here), logouts and the lapse of sessions and approvals
interleave. The OIDC login is left out.

### ConfirmedActions

What a user confirms is frozen under a request number (`Numbered`), sent, and
sent again under it until it is answered. `Page` chooses how a page decides that
it was: `ComponentDeployments.tsx`, `DeploymentsPage.tsx` (with the merge of
lists in `servix-deployment-state.ts`) or `LocalDevelopmentPage.tsx`. Requests
arrive late or never, and so do answers and polled lists.

### MCServices

The modules above and `Destination` share no state with each other: what
connects them in the code is the device they run on and the permission they ask
for, and each has its own view of both. `MCServices` therefore puts them side by
side as a sum: `at`, chosen at the start, says which part a behaviour follows,
and the others stay as they begin. One run explores all of them, and a property
of the run says for each part what it promises of the same kind (what there may
be one of, what is done once, what is approved first, what stays ended). A part
has several instances where two questions call for different bounds.

The parts that are instantiated once are in `ServicesParts`, with their bounds as
constants that the configuration gives, so that what they keep to can be proved
for any bounds. The others are instances of the modules that hold their proofs
(`SourcePublicationProofs` and so on; `Once` and `Again`, two instances of
`PeopleProofs`, hold two of each part that people use), so that what is proved
there is known of the part that runs. The parts that are followed only under
fairness (`answers`, `commands`, `buffers`, `endings`, `applying`) are instances
of the components' modules themselves.

## 3. The runs

| Run | Instance | Shows |
|---|---|---|
| `pipeline` | two components, `web` depending on `api`; the profile first holds `api` alone, then both, or is archived | `NoDuplicateJob`, `DependenciesFirst`, `TruthfulOutcome`, `OneWriterPerTarget`, `ArtifactProvenance`, `ReplacesLastRelease`, `EndedIsFinal`, `RecoveryNeedsOwner`, with a stop after each write |
| `pipeline_success_lost` | two independent components, one run | `SuccessIsRecorded` is violated (section 5) |
| `pipeline_close_refused` | two independent components, one run | `InterruptedBuildClosable` is violated |
| `rollout_target` | one component, two runs, two artifacts, two stops | `BeliefMatchesTarget`, `UnlockedIsWhole`, `NoChangeUnderEndedRun` |
| `rollout_stranded` | the same with one stop and `StickyLock`: the lock file may resist its removal, the one way in which a later run meets a lock left behind | `TargetsAreDestinations` (refinement), and under fairness `InterruptedRequiresRecovery` and `RunsEnd` |
| `rollout_unlock` | one component, one run, no stop, `StickyLock` | `BeliefMatchesTarget` is violated |
| `rollout_receipts` | one component, one run, no stop | `ReceiptsAcknowledged` is violated |
| `rollout_restart` | one component, one run, one stop | `WorkerComesBack` is violated |
| `services` | 29 parts (table below) | every safety and action property of the parts |
| `services_live` | 7 parts, under fairness | `EverythingEnds`: publications, approvals, deployments, local jobs, buffered changes, agent runs and updates do not wait for ever |
| `local_development_torn` | one service, one stop that tears a receipt | `JobsEnd` is violated |
| `local_development_retry` | one page, one confirmed action, three sends | `OnceConfirmed` is violated |

The bound of `pipeline` is a state constraint, `GrowingOrLasting`, since the
interesting directions are too large together: either a profile that grows or is
archived between two runs of one artifact, with access withdrawn during the first
of them; or three runs of one unchanged component with two artifacts and nobody's
access withdrawn. Three runs are what it takes to roll back a rollback; a run that
lost its access ends before the second is requested, and the second meets what it
left. What is explored are behaviours of `Spec`, cut off where they leave the
constraint, and no liveness property is checked there. States that differ in the
names of the artifacts are identified.

Bounds of the parts of `services`:

| Part | Instance | Why it is enough |
|---|---|---|
| `imports` | two publications, two checkouts, one ahead of the central repository | a publication whose base is moved by another's |
| `choices` | one publication with a change record, two folders, two selections, a stop and a restart | every order of a selection, its answer, a publication and a restart |
| `pairing`, `attempts` | two members, a limit of one device, two proposals, one halt; one member, and a setup program opened again | approval resumed by another, limit reached between check and use, torn files read again |
| `servix` | three deployments, one stop | restore of a restore, anything interrupted |
| `ports`, `plans`, `edits` | one service, two jobs; two strangers, a stop, or an edit | the process shown replaced; a job given again; a plan changed |
| `changes`, `policies`, `mounts` | two changes and a second boot; two policies; the same on Linux | batches of one, so that a batch is not the buffer |
| `looks` | two requests of each kind, a write and a move of the roots | a request beside one that expired |
| `agents` | one run, two revisions of both, one halt | a change at each step of a run |
| `toasts` | two notices, one stop | the limit of an hour |
| `automation` | three operations, two edits, one outage | commit, request and merge of one change with another made meanwhile |
| `onboarding` | two repositories, two clients | two connections at once |
| `updates` | two candidates, two submitters, two reboots | a reboot of a repair |
| `bindings` | two targets, two releases, two jobs | a job that meets the lock of an earlier one |
| `resets`, `logins` | two changes of two accounts; one change and three sessions | deadlock; sessions that a change must revoke |
| `tools`, `altered` | two tools, one request delivered twice, one stop; one tool and two changes by other hands | a second delivery, or a change, at each step of the first |
| `enrolling`, `revoked` | two accounts, two windows, two tries; one account whose device is revoked | each try's failure repeated by the same or another account |
| `confirms`, `releasing` | two confirmations, three sends, one reload | a retry and a new confirmation overtaking each other |
| `variables`, `rereads` | one key, two requests, one copy of each; one event (a write by another program, a stop, or the dialog opened again); none, with the file shown | a file replaced under a save; what is said after a save |
| `settings` | two windows, two contents, three revisions, two requests | a record saved or archived by the other window at each step |

TLC evaluates the assumptions the proofs rest on: `BoundsAssumption` (the bounds
of `ServicesParts` are numbers), `NamesAssumption` (what stands for nothing, or
for a file that was cut off, is no value of another) and those of the modules
that are extended.

Deadlock is not checked: nobody has to make another request, and once a bound is
used up the part is at rest.

### Fairness

`ComponentPipeline`: `WF(Poll)`, because every enrolled executor asks for work
every two seconds and each claim advances all runs, and `WF(PassDeadline)`,
because the clock moves. No connector, executor or member ever has to answer. In
`ComponentRollout` two more are assumed of each worker: `WF(Start)`, because its
scheduled task is triggered every minute (`Setup-Executor.ps1:84`), and weak
fairness of the delivery of receipts, which are repeated every two seconds. The
report of an interrupted claim has none: it is sent once and may be lost.

`services_live`, part by part: the connector's heartbeat and loop (timers,
`answers`); the promise chain of `decide`, the setup program's loop and the
ten minutes of a proposal (`attempts`); `build()`, the reconciliation of every
listing and the forty minutes of a deployment (`servix`; the runner and the
operator need none, because the deadline decides without them); the connector's
loop, a process that obeys the second signal, and strong fairness of an answer
and of a hand-out that are repeated until they succeed (`commands`); the
collector's ticks and strong fairness of an observation that is repeated until
it is accepted (`buffers`); the steps of `execute`, each with a time limit, and
the ninety seconds (`endings`); the task scheduler, the updater's look at each
request and the deadlines of the activation script (`applying`). Strong fairness
is assumed of answers only, where the code repeats the question for ever: a
network that loses every one of them is not meant.

## 4. What is proved

Everything below is proved for every value of the constants, from the named
assumptions of the modules; no proof is left open. The theorems are listed in
`PROJECT.json`. A property that is an invariant is seldom inductive as it
stands: what follows says which invariant carries it, and why.

### The pipeline: `ComponentPipelineProofs`

Three layers, each inductive given the one before.

* `IInv` (theorems `TypeCorrect`, `JobsAreUnique`). A job takes its commit and
  its replaced release from other run records, so a well-typed job needs every
  stored run to refer only to runs on record, and a rollback to know where its
  artifact was released from (`RefOK`, in `Stored`); `JobsOK` says that a run, a
  component and a kind determine the job.
* `SafetyInv` (`OutcomeIsTruthful`, `OneWriter`, `DependenciesAreFirst`,
  `EndedRunsAreFinal`, `RecoveryIsOwners`) adds `StoreInv`: what each run record
  says of a component against the jobs there are (`ResultInv`), that what is
  built or activated follows what it depends on (`OrderInv`), and that a run
  which has ended has nothing unsettled. An unsettled activation therefore
  belongs to a pending run, and at most one run is pending.
* `FullInv` (`ProvenanceHolds`, `ReplacedReleaseIsLast`) adds `ReleaseInv`: the
  head of a job is the commit its artifact was uploaded for, along any chain of
  rollbacks, and the release a job replaces is the last that was released.

The proof goes bottom up: what a job makes of a result, a pass, the expiry
branch and the publication keep a run record good; any set of runs may be
advanced; the jobs written are for keys that had none, and any subset of them
may be there when the process stops; then one step per action. The assumptions
are the four named ones of `ComponentPipeline`: the bounds are numbers, the
owner is a member, `None` is no digest and no run, and configurations are
acyclic and closed under dependencies, which `validateGraph` enforces on every
save.

### The workers: `ComponentRolloutProofs`

The server takes the steps of the pipeline (`PipelineStep`), so that `FullInv`
holds of it. `RolloutInv` adds where each worker stands (`WorkersOK`), what its
directories say (`DirsOK`), that a job in a worker's hand is one the server holds
(`HandOK`), and whose lock stands at a destination with which files (`LockOK`).
From it follow `TypesHold`, `UnlockedHoldsOneRelease`, `NoLateChange`, and the
refinement `RolloutImplementsDestination`: the initial states map to initial
states of `Destination`, and each step of the server, of a worker, a stop or a
start is a step there or a stutter.

`BeliefIsTrue` states `BeliefMatchesTarget` under `~StickyLock`: unless a lock
file resists its removal, what the control plane takes for the current release
is what stands at a destination at rest. The hypothesis cannot be dropped: with
it false the run `rollout_unlock` finds the property violated. `BeliefInv` says
for each position of the worker what of the last receipt is told already.

### Destination and the parts instantiated once: `ServicesSteps`

`LockIsOwned`, `StrandedForEver` and `HolderSwitches` are proved of
`Destination`. `LockOwned` needs beside it that a destination at work has a job,
so that taking the lock names one; the two action properties follow from that
invariant, action by action. With `RolloutImplementsDestination` they hold of
the workers. The assumption is `JobsAssumption`: jobs are positive numbers, and
`None` is neither a job nor a release.

For each other part of `ServicesParts` there is an inductive invariant, proved
kept by one step per action:

* `ToastsInv`: a notice handed out is the device's until it answers, and an
  approval under way and one of the last hour exclude each other.
* `AutomationInv`: what the script has committed, pushed, opened and validated is
  what was confirmed, at every position it may be cut off.
* `LooksInv`: one open request of a kind, and bytes in hand only for a preview
  allowed at the machine, of the file as it was named; a request that expired or
  was answered is not touched again (`LooksOver`, as `ToastsOver` and `AgentsOver`
  for notices and runs).
* `OnboardingInv`: the table's constraint stands between two transactions that
  looked before either wrote.
* `AgentsInv`: what a run has read and under what it asked, against the revisions
  on the chain; and `ReadyFacts`: a test or a run about to call a connection ready
  had an answer from it.
* `UpdatesInv`: a note is there before its request (`Noted`), what a candidate
  replaces is fixed when it is sealed (`SealedFacts`), where the script stands
  against what is active (`ScriptFacts`), and a success remains below the active
  release (`SuccessFacts`).
* `ServixInv`: one deployment holds the way to the target (`OneHolds`), and what
  the runner, the operator and the files they share say of it.

### The parts instantiated several times

Each has its inductive invariant `Inv` in a module of its own.

* `SourcePublicationProofs`: `PublicationsAreCentral`, `FoldersAreSettled`,
  `NoCommitIsLost`, `OutcomesStay`. A bundle that is stored extends the base it
  was made against (`PublishedOK`), and each position of the connector says what
  the control plane knows (`LoopOK`). Assumed: there is a folder.
* `LocalDevelopmentProofs`: `JobsAreNotReplayed`, `ServicesFollowThePlan`,
  `StrangersAreShown`. A claim file is there before the first start, and a receipt
  before the report (`JobFacts`).
* `ActivityCollectionProofs`: `EventsAreChanges`, `PoliciesAreFollowed`. Events
  stand in the order of their numbers in buffer, batch, spool and history
  (`Ordered`, `Numbered`, `Spooled`), and no number exceeds the counter.

The last two assume `Names`: what stands for nothing, or for a torn file, is no
value of another, which TLC evaluates as `NamesAssumption`.

### What people do: `PeopleProofs`

Seven parts in one module, each with its bounds, its invariant and the proof
that every step keeps it. Their bounds (`PairingBounds` and so on: numbers are
numbers, what stands for nobody is no member, a page that confirms is not the
local one) are assumed of the instances, and TLC evaluates them in
`NamesAssumption`.

* Pairing (`PairingInv`; theorems `ApprovalsAreWhole`, `InstallsAreApproved`): the
  receipt, the device and the policy are there in the order they are written
  (`FilesOK`), `decide` resumed finds what its position needs (`CallOK`), what the
  setup program has read was told (`SetupOK`); and the devices of a member, those
  by approval and those by account together, are no more than the limit.
* `AccountsInv`: two changes under way never hold the same account
  (`Exclusive`), and each position of a change says which versions and sessions it
  has verified (`ResetFacts`), so that a password is replaced only where it is
  still the verified one and the audit says what became of it.
* `SettingsInv`: what a window knows is in force or older, a save that is being
  written is over the record in force, and that record is kept before it is
  replaced (`StoreFacts`).
* `EnrollingInv`: at most one device was made and not lost (`MadeFacts`), the one
  at hand is the account's and set up as far as the step says (`TryFacts`), and
  so is the one that is remembered (`HeldFacts`).
* `VariablesInv`: requests are made one after another, a result "succeeded" is of
  a save that replaced the file (`WorkFacts`), and the dialog says "saved" only
  when no later save is open (`DialogFacts`).
* `EquipmentInv`: every tool still to do for the accepted request has not been
  run for it, and the results tell of those that have (`HandlerFacts`).
* `ConfirmsInv`: the request numbers of a page are made one after another, each
  for a confirmation of its own (`NumberFacts`), and the one that is frozen means
  what the page offers (`PageFacts`).

### Side by side: `ServicesProofs`

The properties of the run `services` put the parts together. For each part a
lemma says that its invariant implies its case of the property; `PartsStart`
and `PartsTurn` that the invariant of the part followed holds at first and is
kept by `ServicesNext`, one step per part. The theorems state the invariants of
the run themselves, for any bounds of the parts in `ServicesParts`:
`NoticesAreReported`, `MainStaysApproved`, `PreviewsHaveConsent`,
`AnswersAreGuarded`, `CurrentReleaseIsInstalled`, `UpdatesAreTrue`, `OneOfEach`,
`PublishedStaysCentral`, `FolderStaysSettled`, `ApprovedStaysWhole`,
`PlanIsFollowed`, `ChangesAreToldOnce`, `PolicyIsFollowed`,
`NothingIsUnapproved`, `DoneOnce`, `ReadyStaysProven`; and the action properties,
which a step keeps that begins where the invariants hold: `NoHistoryIsLost`,
`ActsAreOfWhatWasShown`, `EndsAreFinal`. For the parts of `PeopleProofs` the same
is said by `PeopleStart`, `PeopleTurn` and `PeopleHold`.

### Only model-checked

* `WellTyped`, the types of all parts together, exact in their bounds; each
  invariant above includes the types of its part that the proof needs.
* `InterruptedRequiresRecovery`, `RunsEnd` and `EverythingEnds`: liveness under
  fairness, which needs ENABLED and is out of the prover's reach.

## 5. Where code and documents disagree

* `pipeline_success_lost`: `advance()` returns early for a run in
  `recovery-required` (`component-deployments.ts:585`). A sibling activation
  that was already claimed and then reports success is stored in its job but
  never in the run; the component stays `deploying` and its release never becomes the
  current one. ADR 0049 promises that independently successful components are
  preserved.
* `pipeline_close_refused`: when a build is interrupted while a sibling build is
  still queued, the queued job can no longer be claimed (the run is not running)
  and closeInterruptedBuild refuses any queued job, so the run can never be
  closed and the profile stays busy. ADR 0051 names only outputs, destination
  jobs, in-flight builds and successful components as reasons to refuse.
* `rollout_receipts`: the answer to an upload is lost after the bytes were
  stored. The builder's receipt says failed and carries the input's digest;
  `complete()` wants the digest of the stored output
  (`component-deployments.ts:941`) and refuses it, now and at every repetition,
  so the job stays `working` until its run expires. The comments at
  `ComponentExecutor.cjs:530` and `:620` promise that retained receipts are
  acknowledged.
* `rollout_unlock`: after a release has been committed, the lock file cannot be
  removed (`ComponentExecutor.cjs:475`; on Windows it is enough that another
  process has it open). The error replaces the outcome: the run is recorded as
  failed and `current()` keeps the release before, while `current.json` names
  the new one. The next deployment finds the lock and requires recovery.
* `rollout_restart`: a worker is stopped after `mkdir` of the claim directory
  and before `claim.json` is whole. Every later start reads that file outside
  the `try` (`ComponentExecutor.cjs:537`) and dies, so a worker that should
  always be on never works again until somebody removes the directory.
* `local_development_torn`: a receipt is written in place
  (`LocalDevelopment.cjs:1065`). If the connector stops within the write, every
  later hand-out of the job reads half a receipt first and fails before anything
  is answered; the job stays `working` and the device takes no other.
  `LOCAL_DEVELOPMENT_HANDOFF.md:59-60` calls claims and receipts durable.
* `local_development_retry`: the page polls while the answer to an action is
  out. The poll finds the action saved and drops the frozen request
  (`LocalDevelopmentPage.tsx:168`); when the answer then fails, the page still
  offers "Retry saved action", and the retry makes a new request number, so that
  a service may be started a second time after the first job is over.
  `DeploymentsPage.tsx` and `ComponentDeployments.tsx` keep the promise
  (`OnceConfirmed` holds of them in `services`).

### Seen, and not stated as a property

These were met while reading the code and are kept for whoever works on it next;
no model shows them.

* A fresh record is written in place (`component-deployments.ts:123`), and a
  truncated blob keeps its name (`:570`); `list()` fails on a torn record.
* The first queued job of an executor may belong to a run that is no longer
  running, and the claim is refused although a later job could be had (`:868`).
* `current()` compares wall-clock times (`:375`).
* `agent-workspace.ts:509` writes a revision's memory with `wx`: a stop between it
  and the record that follows makes every later save of that revision fail.
* `Invoke-TrackGrnAgent.ps1:357` compares the digest of the checkout, `:370` adds
  all of it: an edit between the two is committed unreviewed.
* `SystemDiscovery.cjs:538` on Linux: a scan begun under an earlier policy goes
  on after it has looked at its generation (`FollowsThePolicy` leaves the
  watched roots out there).
* `github-onboarding.ts:107`: a discovery claimed by a companion that died blocks
  every later one.
* `server.ts:292-312`: a login whose password was verified before a change opens
  its session after it.
* `DeploymentSettingsPage.tsx`: a test that was asked for in a dialog left through
  "Discard and close" may be answered into the dialog of the next project (one
  project is modelled, and there the test is of the project shown).
* `ComponentDeployments.tsx:188-196`: a retry answered 401 or 403 says "not started",
  although the first request, whose answer was lost, may have been stored.
* `DeploymentsPage.tsx`: the notice "Retry checks the same request" may be shown
  after the poll has already settled the request.
* `SystemSetup.cjs:195-204`: an installation may begin while a finish request
  looks again; `:130-134`: "user-service" is offered and refused.
* `Resume-SystemConnector.ps1:22`: stopped between the configuration and the
  consent file, the next try finds the configuration as asked, says "connected",
  and the consent file keeps its earlier answer (`cut` in `SystemEnrollment`).

## 6. What is not modelled, and why

* Enrolment, heartbeat and revocation of component executors, and several
  profiles or systems per role side by side.
* The bytes of archives, bundles, change records and prompts; wording, layout
  and validation of requests; the health checks' content.
* The OIDC login, memberships, row-level tenancy: constraints of the database or
  of an external service.
* What file-system scans find, and the classification of sensitive paths.
* An activation script that survives a stopped updater.
* Containers and one-time installation scripts: no protocol state.
* The rest of the user interface, which shows what the server says.

## 7. Plan

What is left, in the order of its worth:

1. `ComponentRollout` with several executors of a role, and the enrolment and
   revocation of an executor under its jobs.
2. An activation script that outlives the updater that started it (`SelfUpdates`).

None of the modules declares a RECURSIVE operator, so all can be proved about.
