# DevLaunch in TLA+

DevLaunch takes a repository, works out how to run it, and runs it in Docker containers on the
user's machine. A Node backend keeps every run ("deployment", "session") in memory, drives Docker,
asks the user when something is missing, repairs what it can, and takes everything away again. This
directory holds the TLA+ of that backend: what its concurrent parts promise each other, checked by
TLC on small instances, and the central promises proved with TLAPS for every instance.

Paths are relative to the repository; `SM` is
`apps/backend/src/services/session/SessionManager.ts`.

## 1. The system

| Component | State | Operations | What must be right |
|---|---|---|---|
| SessionManager, lifecycle | `sessions`, each with state, plan, handle or run, databases, timers; `stopped` | launch, replace, resolve, restart, stop, cancel, the pipeline `run`, repairs, timers, liveness watch, teardown | the slot limit; a stopped run never shown running; nothing left behind; every run ends |
| SessionManager, records | `saving`: one chain of writes per session | persist, flushRecords, forget, recoverInterrupted | what is on disk is the newest state; a restart leaves no record claiming to run |
| Startup and shutdown (`server.ts`, `InstanceRegistry`, `CleanupManager`) | a file per live process; labels on what each created | live, register, sweepAllOrphans, recoverInterrupted, close | leftovers of dead processes go; what a live one runs stays |
| Logs (`LogBuffer`, `LogManager`, `LogSocketServer`, `useSession`) | a bounded buffer with sequence numbers; each client's last number | write, push, connect, resume, end | a client misses nothing silently, and stops reconnecting when it should |
| ExecutionManager, ProjectExecutor | containers, workspaces, the services of a project | launch, halt, restart, waitForReady, cleanup | no container without an owner, whatever fails half way |
| BackingProvisioner, RunNetworks | databases and a network per run | provision, release | released with the run, and only with it |
| Memory (`MemoryPolicy`, `decideMemory`) | grants, hints | escalate, remember | never more than the VM has; no endless escalation |
| The loop of attempts (`tryRepair`, `tryRepairService`) | attempts, model calls spent | repair, ask | bounded; never repairs what is gone |
| DockerWake | one start in flight | ensureDocker | one start however many ask |
| Analysis (`RepositoryAnalyzer`, `ServiceDiscovery`, `ComposeFile`) | none between calls | analyze: a clone in, its metadata out | every service found once, with the names, port and databases it really has |
| Planning (`RuleBasedPlanner`, `ProjectPlanner`, `RequiredConfiguration`, `RunPlanValidator`) | `session.plan` or `.project`, `planMetadata`, `pending`, `askedSettings` | plan, ask, answer, validate | what a rule plans can run; each setting is asked for once, of the right service, unless DevLaunch supplies it |
| Failures and repair (`signatures`, `FailureClassifier`, `DeterministicRepair`) | none between calls | classify, repairPolicyFor, tryDeterministicRepair | a repair makes progress; the failure reported is the one that matters |
| AI, git, readiness | none between calls | one await | chosen freely by the models |
| HTTP API, dashboard | none of its own | calls of the above | the API's calls are what people do |

How they interact. The API calls the session manager, which returns at once and goes on in the
background (`void this.run(...)`). All of it is one JavaScript thread: a callback runs to its next
await undisturbed, and between any two awaits of one chain every other chain may run. What
can interleave for one session is therefore its pipeline, a restart, up to one teardown per caller
that ends it, and four kinds of timer. Sessions share the run slots, Docker, the store of
records and the log sockets; processes share Docker, the registry directory and the store.

The hard behaviours are listed with their lines as `hazards` in PROJECT.json.

## 2. Modules

| Module | What it is |
|---|---|
| `SessionStates` | the states and groups of states the backend decides by |
| `SessionLifecycle` | SessionManager with the parts of ExecutionManager, ProjectExecutor and CleanupManager it awaits: one action per stretch of code between two awaits |
| `SlotLease` | what the run slots promise: taken when free, given back, at most `Limit` out |
| `SessionLifecycle_proofs` | type correctness of SessionLifecycle, who drives a session, its endings, and that it implements SlotLease |
| `SessionContainers_proofs` | who holds what a session has in Docker and on disk: one container, none unowned, nothing left |
| `InstanceSweep` | DevLaunch processes on one machine: the registry of the living, the sweeps, recoverInterrupted, closing and being killed |
| `InstanceSweep_proofs` | type correctness of InstanceSweep, that a start is thorough and spares the living, and that a close is clean |
| `DeploymentRecords` | the record of each deployment on disk: queued writes, flush, list and trim, DELETE, crash |
| `DeploymentRecords_proofs` | type correctness of DeploymentRecords and all that its run checks |
| `LogStream` | one log on its way from its buffer to a page that reconnects |
| `LogStream_proofs` | the inductive invariant of LogStream, and that what a page shows is in order and whole |
| `ProjectLaunch` | one launch of a project of several services, and what undoes it: databases, containers, the shared workspace and its install gate, the network, with Docker refusing calls |
| `ProjectLaunch_proofs` | type correctness of ProjectLaunch, that an undone launch leaves no container running, that installs of one workspace take turns, and that only what is installed is reused |
| `FailureRules` | operators: the signatures, the policy of each failure class, the memory ladder, the fourteen repair rules |
| `RepairLoop` | one deployment from its plan to its last word: attempts, verdicts, questions, raises of memory, rules and the model |
| `RepairLoop_proofs` | types and budgets of RepairLoop, what it reports, why it is finite, and that no repair repeats |
| `MCRepairLoop` | the repositories and the model's answers RepairLoop is checked with |
| `RunPlans` | operators: a run plan and every check of one before it runs |
| `Planning` | operators: RuleBasedPlanner, from what a directory says of itself to a plan |
| `Discovery` | operators: RepositoryAnalyzer and ServiceDiscovery, from the directories of a clone to its metadata |
| `ProjectPlanning` | operators: the plan of a repository or the plans of its services, what each still needs, where answers go |
| `PlanPipeline` | the session between a clone and running containers, composed of the four above: analyse, plan, ask, answer, validate, start, crash and ask again |
| `PlanPipeline_proofs` | type correctness of PlanPipeline, that nothing is left unasked, that nothing DevLaunch decides is asked, that answers go where they were asked for, and that the rules' plans can run, on the port that is watched |
| `MCPlanPipeline` | the repositories, model answers and replies PlanPipeline is checked with |

`RepairLoop` extends `FailureRules`; `PlanPipeline` extends `ProjectPlanning`, `Discovery`, `Planning` and
`RunPlans`, each on the next. `SessionLifecycle`, `ProjectLaunch`, `RepairLoop` and `PlanPipeline` model the
same code at four depths: who drives a session and what it holds; what one launch creates and removes; why it
tries again; what it runs at all. Each chooses freely what another decides.

### SessionLifecycle

Each variable is a function on sessions (`NumSessions` of them are ever launched).

| Variable | Code |
|---|---|
| `state`, `stopped`, `asked`, `kind` | `session.state`, `.stopped`, `.pending`, `.plan` or `.project` |
| `pipe`, `rst`, `td[e]` | the await at which the pipeline, a restart, and the teardown called by `e` are suspended |
| `box`, `launches`, `handle`, `run` | Docker's containers of the session; `session.handle` or the run's service; `session.run` |
| `dbs`, `clone` | the databases and the clone the session holds |
| `bound`, `timers`, `probe` | the startup bound; idle, hard-cap, question and liveness timers; a liveness probe that is out |
| `tgt` | which container each chain's awaited `cleanup()` removes |
| `replacing` | a launch with `replace` has cancelled a session and not launched yet |
| `abandoned` | history: the startup bound ended it |

An action starts where an await returns and ends at the next one, with every state change in
between; of several `setState` calls in one stretch the last is seen, as no other code runs
between them. Results of awaited calls (Docker, git, analysis, readiness, the model) are chosen
freely among those the code tells apart, errors included.

Abstractions. The services of a project are one container and its databases one unit. Docker carries
out every removal. The retention of finished sessions is not modelled (`NumSessions` is below
`retainFinished`). One call of each kind that ends a session is out at a time. A teardown's steps that
find nothing to await take no step. The continuation of a replacing launch may interleave with other
callbacks, which in the code it can only in part. A dead container is one the liveness probe
says is dead. `shutdown` is a cancel of every session.

### InstanceSweep

One action per stretch of `startServer` and of `close` between two awaits, for each of `Procs`. The
registry's directory (`file`), Docker (`box`, by owner), and the store (`record`) are shared.
`toRead`, `live`, `toRemove`, `toMark`, `list` and `flush` are the local variables those functions
carry across awaits, stale from the moment they are filled. `register` is two steps, as
`writeFile` is: the file exists, empty, before it has a pid.

What a process swallows and goes on from is chosen from `Faults`: the registry's directory or a file of it that
cannot be read, or removed (`live()` then says nobody lives); `register()` or `unregister()` rejecting; Docker not
listing, at the start or at the close; Docker refusing to remove one container, which a sweep leaves; records that cannot be
read or marked, which ends `recoverInterrupted`; a save that fails, of which nobody is told. A deployment ends whether
or not its own cleanup removed its container, as `cleanup()` returns the errors it met and, called a second time, returns at
once: `Ends` and `TearDown` are independent, and only the sweep at the end of `close` makes sure.

The history variables keep, for the properties only, what was so when a process started (`bereft`, `orphaned`,
`known`) and what went wrong (`met`, `refused`, `unsaved`, `lost`, `late`, `reused`). `met` notes a failure only when there was
something it could harm: a failed listing with nothing to list is forgotten, which keeps the instance small and excuses
less.

Abstractions. The containers, volumes and network of a deployment are one container, as the sweeps
treat them alike. A pid given to another program is taken for its process, as `kill(pid, 0)` does.

### DeploymentRecords

`step[s][n]` is the write that the `n`-th change of session `s` queued: waiting for the one before
it (`after`), writing the temporary file, renaming it, or done; `saving` is the map of that name.
`text` is fixed when the write starts, as `toRecord` is called then. `waits` and `listWaits` are what a
`flushRecords` awaits. `request` is a DELETE between its awaits, `lister` a `list()` between its own,
with `toRead`, `seen` and `toTrim` the variables it carries. `Crash` is followed by the next process's
`recoverInterrupted`.

Abstractions. A record is its state and the number of the change that made it. States are active,
cleaning and ended. There is one process at a time, one DELETE per deployment, one `list()`. Files of dead
processes' writes (`*.tmp`) are left out: nothing reads them.

### LogStream

Lines are numbers. The buffer is the interval `oldest..next - 1`. `wire` is what is between the server
and the page, in order; a broken connection delivers a prefix of it. `lastSent` and `conn` are
`onConnection`'s closure, `socket`, `asked`, `lastSeq`, `live`, `ended` and `attempts` the page's refs,
`page` the state it renders, `asking` and `answers` its `refresh` requests, answered in any order.

Abstractions. One page. States are running, serving and finished. Sizes are left out, so the cap in
bytes may evict any number of the oldest lines. Lines split over chunks, ANSI codes and sentinels are not
modelled.

### ProjectLaunch

`pc` is the await at which `ProjectExecutor.launch` (and, after it, `verifyProject`) is suspended; `undo[a]` is
the same of `ProjectRun.cleanup` and `teardown` as called by the launch itself or by a stop, with `at` and
`busy` their loop variables. `boxes` is Docker's list of containers: what each is for and which volume it mounts.
`handle`, `backing` and `prov` are what the run and the provisioner have recorded, from which alone a cleanup
knows what there is; the properties compare them with `boxes`. `ws` is `ExecutionManager.workspaces`, `content`
what has really been installed in a volume. Containers move on their own: an install succeeds, fails or hangs, a
program serves or dies.

Abstractions. A repair is a restart with another install command or the same one (`Installs`). A container in
place of another is bounded by `MaxExtras`, calls Docker refuses by `MaxFaults`. Images, ports and the
environment are left out. A container exited or never started is not counted as running.

### FailureRules and RepairLoop

A log line is a name: one for each signature, one more for each pattern that only a rule reads. A plan is the
record of the fields some rule reads or writes. `judge` composes `classifyFailure`, `withMemoryEvidence` and the
verdict on a dead container; `tryDeterministicRepair` tries the fourteen rules in order and drops what was tried.
In RepairLoop a repository is the record of what a rule can tell of it: its language and scripts, whether it is built,
what it declares and imports, whether its bind address is a literal, which lines an attempt may print (`lines`), and which
rules' proposals the validator refuses for it (`refused`). An attempt
dies in any phase its plan has (`Phases`: before the install, in it, in the build, in the program), exits with any of the codes told
apart (a kill, a script not found, the rest), having printed one of the lines that belong to the phase, and Docker may or may not say
it was out of memory; or it is found dead before it published a port, runs and listens elsewhere or nowhere, or exceeds its time
(`Deaths`, `Unreachable`, `Unexplained`). Whether a crash names a setting is the environment's choice (`AskForSetting`): any
failure but an install's or a kill may be asked about, and need not be. A start may throw, before its container is there or while it is
awaited (`StartThrows`). The recursion of `startAndVerify` and `tryRepair` is flat but for the one frame that matters: that of
the model's repair catches what is thrown within it and reports the diagnosis it held (`kept`). A project's service that cannot be
started again is caught where it was restarted (`RestartFails`). A model may rewrite any of the fields
`AIRepair.applyDelta` takes (`Rewritable`), and the validator refuses what is no plan.

Abstractions. Of a project one service is followed, and what its siblings do is whether the project still serves. A service
that runs the repository's own image gets no rule, which is the case of a repository with none that applies.

### RunPlans, Planning, Discovery, ProjectPlanning

A directory is the record of what is read of it: the scripts of its package.json and the programs each names, the
versions its dependencies ask for, lockfiles, Python files with the framework each imports, settings of its
example file, what its code reads. A repository is a function from directories to such records, and a
subdirectory is analysed as the repository it would be (`Within`), as the code does. Order matters where the code
sorts or takes the first: the order of a listing (`at`), of rules, of candidates. Commands are the words the checks
look at, and their port with the form it is written in, as `withStartPort` moves only two forms.

Abstractions. Reading a file is not modelled, nor which regular expression matches: a record says what was found. The tables
of names (frameworks, dependencies, settings DevLaunch knows) are cut to members that stand for each case. A Python install leaves out the packages it names. Versions
are majors.

### PlanPipeline

`repo` is a clone with what analysis and the rules make of it (`Read`; both are functions of the clone, so
they are evaluated once). `analysed` is the directory `session.metadata` is of, `readFor` that of
`planMetadata`; `kind` and `services` are `session.plan` or `session.project`; `pending` the question, `asked`
the settings a crash has been asked about; `ran` what was launched, with what databases and siblings added.
`questions` and `reply` are history. The gate, the validator, provisioning that may fail, a crash on any of the settings
code reads and nothing set, every subset of the answers, blank and refused answers, an answer nobody asked for and no answer at
all are actions or choices of actions. The model's answer is one of `ModelPlans`.

## 3. Runs

| Run | Question | Bounds, and why they are enough |
|---|---|---|
| `lifecycle` | what one deployment shows, holds and leaves, and does it end | 1 session, 2 containers of it (so a repair or a restart happens), both kinds of plan, stop and cancel together with every timer, with fairness. Sessions share only slots, the subject of `lifecycle_slots` |
| `lifecycle_slots` | the limit and the lease refinement | 2 sessions for 1 slot: the second can only start when the first has given it back, and replacing launches cross |
| `sweep` | what a starting process removes, settles and spares | 2 processes, 1 deployment, both may end: the smallest instance in which one cleans up after the other while the other still starts, runs, closes or has died. All eight faults are on: 2,489,806 states |
| `records` | what is on disk, and when | 2 deployments and one record kept (so the list trims), 1 session retained in memory, 3 changes altogether (a chain of three writes, or two chains), 1 crash, failing writes |
| `logs` | which lines a page has, and does it learn of the end | 2 lines of which 1 is kept (eviction, and a byte cap that takes all), 1 drop, 1 state, a closing or killed server, 2 retries, so that it can give up and can recover |
| `launch` | what is left of a launch, and do installs take turns | 2 services on one workspace and 1 database, 1 container in place of another (so a restart or a fallback happens), 1 refused call, one stop at any moment. Two services are the least that wait for each other at the gate |
| `repair` | does the loop end, with progress and the right diagnosis | a lone deployment and a project's service, a model at hand, one setting that may be asked for; 2 attempts and 2 raises, as in the code, up to twice the first limit (the least for which a raise of the heap, a raise of the limit and an exhausted one all happen), 2 runtimes; four repositories (`MCRepositories`): a Node one that is built and prints nothing that helps, one whose script is missing, a Python API whose console script is not found, one with a literal bind address and a heap that runs out; three answers of a model, an invented script, a runtime that is refused, and one that rewrites build, environment and port. 575,129 states |
| `pipeline` | is what is planned right for what is run, and asked for what is missing | 410 repositories: every package of up to 3 scripts, 4 runners, 3 sets of dependencies, 2 entry files and 2 managers; every pair of 3 pages and 4 other services with 3 compose files; 26 shapes, one for each way analysis or planning branches (workspaces, one of them without a package, wrapped and nested applications, one service below the root, Docker setups accepted and refused, desktop programs, unreadable manifests). 5 answers of a model, 3 of a person, one of them blank and one refused |

What the properties say is with their definitions. In short: a stopped deployment is never shown
starting, serving or failing (`StoppedIsEnding`); never two drivers or two live containers
(`OneDriver`, `OneContainer`); READY means a container that nobody is removing
(`ServingOwnsContainer`); a finished deployment leaves
nothing (`NoLeak`) and stays finished (`EndedStaysEnded`); slots are leases (`SlotLimit`,
`LeasesAreKept`). A start removes what was orphaned, but for what Docker does not list or refuses to remove; settles its records,
unless reading or marking them failed; and spares what a registered
process runs (`OrphansSwept`, `RecordsSettled`, `RegisteredAreSpared`). A close has ended what was there, on disk too unless that
write failed, and leaves no container that could be listed and removed (`ClosedIsClean`). A record is written by one writer, catches up with
the session, never goes back, is not written after it was forgotten by a write queued before, does not claim to run
what does not, and is kept (`OneWriterPerRecord` to `RecordsAreKept`). A page shows no line twice or out
of order, knows of every hole in what it was sent, and lacks nothing it should have been sent.

Of a launch that failed or was stopped nothing keeps running (`NothingKeepsRunning`, `StopReleases`); installs of
one workspace take turns, and a container that skips its install mounts one in which that install has finished
(`InstallsTakeTurns`, `ReusedIsInstalled`); every launch ends (`LaunchEnds`). The loop of attempts ends (`LoopEnds`), a
rule or a raise never starts what has already run (`RulesMakeProgress`), and what is reported is the phase the
deployment got furthest in, or, when a start within the model's repair threw, the phase it had reached when the model was asked
(`ReportedIsFurthest`). A plan made by a rule is never refused as impossible
(`RulePlansCanRun`); an answer is where it was asked for and nowhere else (`AnswersGoHome`); no container starts
without a setting its example declares, unless somebody was asked (`NothingIsLeftUnasked`), and nobody is asked for
what DevLaunch supplies (`NeverAskedForOurOwn`); a service that a rule planned listens where DevLaunch watches (`PortsAgree`); and
however often it crashes on settings, a run ends (`PipelineEnds`).

`CHECK_DEADLOCK FALSE` everywhere: when every deployment has ended, every process is gone or the page is done, the
system rests.

### Fairness

`lifecycle` assumes that the clocks fire and that teardowns go on (`Fairness`): timers are Node's
own, and each step of a teardown catches what Docker throws. That the pipeline and a restart go on too
(`Answered`) is assumed only where it is named, in `StopCompletes` and `EverySessionEnds`; it stands for
the timeouts of clone, install, readiness and the model. `BoundReleases` does without it. No person is
ever assumed to act. `logs` assumes that sent messages arrive or the connection breaks, requests
are answered, and a dead server is started again; never that a line is logged, a state changes or a
connection survives. `launch` assumes that the launch and each cleanup go on, every call to Docker returning and every
wait having a timer; nothing is assumed of the containers, nor that a stop comes. `repair` assumes that something happens: each
of its waits has a clock (readiness, install, the question, the model). `pipeline` assumes that the program's own steps
happen (`Work`) and that the question's timer fires (`CancelUnanswered`); never that somebody answers.

### Where the code and its text differ

Four runs check a sentence of the repository which the code does not keep; each stops with a
trace. Quotes and lines are in PROJECT.json under `findings`.

- `claim_limit`: "DevLaunch runs N at a time". The startup bound ends a session without marking it
  stopped. Its pipeline, when its await returns, sets an active state again, beside the session launched
  meanwhile.
- `claim_deleted`: a stop under way when its deployment is deleted writes the record again when
  it completes.
- `claim_docker`: a start that crashed on a setting is to "start again with it". A run from the repository's own
  Dockerfile resumes as a project, whose check of the image knows no runtime `container`: the answer ends the run.
- `claim_port`: for a script that starts a page and an API, "PORT stays the API's". In a project `withPort`
  overwrites it with the port the service is watched on.

The same kind of sentence, refuted by a definition that is in its module and in no run (name it as an INVARIANT or
PROPERTY to see the trace):

- `InstanceSweep.LivingStayRegistered`: `live()` removes the files of the dead (`InstanceRegistry.ts:33`), and also one that
  another process has opened and not yet written, which is then unregistered for good.
- `LogStream.SeenOnResume`: a line stored by `buffer.push` is seen "on its next resume" (`LogManager.ts:114`), but not
  once a later line was sent.
- `LogStream.ReadyIsNotKept`: `refresh()` may learn of the end before the socket says so. The page then stops
  reconnecting and keeps showing READY, what `useSession.ts:33` says is mended.
- `RepairLoop.EveryAttemptDiffers` ("Each attempt must differ from every previous one", `AIRepair.ts:30`): an answer of the
  model that only leaves out the database's variable differs when compared, and is the same plan once provisioned again.
- `RepairLoop.FurthestUnexcepted` ("The first diagnosis is kept — unless a later attempt got further", `SM:1575`): when what
  the model's answer started got further, and a start after it threw, the catch of `tryRepair` (`SM:1959`) returns to a
  frame that reports the older diagnosis it had captured (`SM:1580`, `SM:1610`). `ReportedIsFurthest` says what is reported then.
- `PlanPipeline.GateAsksForPlaceholders` ("ask for configuration before building a container that would only crash for
  want of it", `SM:907`): the gate reads the example of the directory analysed, not of the one the plan runs in.
- `PlanPipeline.NoDatabaseIsAskedFor` ("so a person is never asked for a database password DevLaunch is about to supply",
  `RequiredConfiguration.ts:234`): in a project they are. `suppliedKeys` (`:66`) knows the database's URL and not the separate
  settings injected beside it, and what is answered then wins over the password the database was started with
  (`ProjectExecutor.ts:447`). Hence `provisionedNames` in `NeverAskedForOurOwn`.
- `ProjectLaunch.DatabasesLast`, `ProjectLaunch.NoVolumeLeft`: the order and the volumes that the comments of
  `ProjectRun.cleanup` and of `ExecutionManager` speak of do not survive a stop that comes while a service is being
  started: its cleanup removes the database before that service, and the volume made after `releaseWorkspaces` stays.

Met while modelling: two callers that end one session may move it from one terminal
state to another; resolving a package choice without a package leaves the clone (the exception in
`NoLeak`); a restart's container being created while the bound abandons its session is left running
(hence `Sound` in several properties); the startup bound is one-shot, so a pipeline that hangs after a
question was answered holds its slot (hence `BoundReleases` speaks of an armed bound); a process that came
up after another one read the registry has its running deployments swept and marked interrupted (hence
`known` in `RegisteredAreSpared`); records say "its containers were removed" also when Docker
did not answer or refused; a failing save ends `recoverInterrupted`, so that the records after it still claim to run while the
server listens (hence `met` in `RecordsSettled`); a deployment launched while the process closes is left running by it (hence `late`).
In planning: names for a sibling's address are never asked for, also where no sibling will be wired (the
exception in `NothingIsLeftUnasked`); discovery looks for the example settings under three names, analysis under
seven; of several services that need one kind of database only the first one's names are kept; a package chosen
from a workspace is planned alone, and installed in the package rather than at the root; a Yarn 2+ package with an entry file is planned as `yarn node`, which the
command allowlist refuses; ports a compose file declares are told to Django, Streamlit and
Gradio by a command that fixes another; the gate may ask for a name whose answer the validator refuses.

## 4. Proofs

TLAPS proves, for every value of the constants that meets the modules' ASSUMEs:

| Theorem | Module | Says |
|---|---|---|
| `TypeCorrect` | SessionLifecycle_proofs | `[]TypeOK` |
| `DriversCorrect` | SessionLifecycle_proofs | `[]DriversInv`, the inductive invariant of the drivers |
| `StoppedStaysEnding`, `DriversAreAlone` | SessionLifecycle_proofs | `[]StoppedIsEnding`, `[]OneDriver` |
| `EndedNeverReturns` | SessionLifecycle_proofs | `EndedStaysEnded` |
| `SlotsAreLimited` | SessionLifecycle_proofs | `[]SlotLimit` |
| `SlotsAreLeased` | SessionLifecycle_proofs | `LeasesAreKept`: SessionLifecycle implements SlotLease |
| `BoxesCorrect` | SessionContainers_proofs | `[]BoxesInv`, the inductive invariant of what sessions hold |
| `ContainersAreAlone`, `ServingIsTrue`, `NothingIsLeft` | SessionContainers_proofs | `[]OneContainer`, `[]ServingOwnsContainer`, `[]NoLeak` |
| `TypeCorrect` | InstanceSweep_proofs | `[]TypeOK` |
| `SweepIsThorough`, `RecordsAreSettled` | InstanceSweep_proofs | `[]OrphansSwept`, `[]RecordsSettled` |
| `LivingAreSpared`, `ClosingIsClean` | InstanceSweep_proofs | `[]RegisteredAreSpared`, `[]ClosedIsClean` |
| `TypeCorrect` | DeploymentRecords_proofs | `[]TypeOK` |
| `WritersTakeTurns`, `RecordsCatchUp`, `NoWriteAfterForgetting` | DeploymentRecords_proofs | `[]OneWriterPerRecord`, `[]DiskCatchesUp`, `[]ForgottenWritesAreOver` |
| `RestartsTellTheTruth`, `RecordsStay` | DeploymentRecords_proofs | `[]NothingClaimsToRun`, `[]RecordsAreKept` |
| `RecordsNeverGoBack` | DeploymentRecords_proofs | `RecordsMoveForward` |
| `StreamIsWhole` | LogStream_proofs | `[]IInv`, the inductive invariant |
| `TypeCorrect` | LogStream_proofs | `[]TypeOK` |
| `LinesInOrder`, `NoHiddenHole`, `NothingIsHeldBack` | LogStream_proofs | `[]ShownInOrder`, `[]HolesAreNoticed`, `[]NothingHeldBack` |
| `TypeCorrect` | ProjectLaunch_proofs | `[]TypeOK` |
| `NoneKeepsRunning` | ProjectLaunch_proofs | `[]NothingKeepsRunning` |
| `InstallsAreSerial`, `ReuseIsSound` | ProjectLaunch_proofs | `[]InstallsTakeTurns`, `[]ReusedIsInstalled` |
| `RepairIsBounded` | RepairLoop_proofs | `[](TypeOK /\ Budgets)` |
| `FurthestIsReported` | RepairLoop_proofs | `[]ReportedIsFurthest` |
| `StartsAreFinite`, `NoRepairRepeats` | RepairLoop_proofs | `EveryStartCosts`, `RulesMakeProgress` |
| `TypeCorrect` | PlanPipeline_proofs | `[]TypeOK` |
| `AnswersReachHome` | PlanPipeline_proofs | `[]AnswersGoHome` |
| `EverythingIsAsked`, `OnlyTheirOwnIsAsked` | PlanPipeline_proofs | `[]NothingIsLeftUnasked`, `[]NeverAskedForOurOwn` |
| `RulesPlanWhatRuns`, `PortsAlwaysAgree` | PlanPipeline_proofs | `[]RulePlansCanRun`, `[]PortsAgree` |

The assumptions on constants are in the modules (`BoundsAssumption` and the like): bounds are naturals,
sets of kinds, callers and faults are among those the code has. Nothing about Docker, timing or fairness is
assumed. PlanPipeline's are about its repositories and are discussed with its proofs.

**Sessions.** `EndedStaysEnded` is not inductive. That a session which ended takes no slot again depends
on who may still move it, which is history: whether its pipeline, its restart or some teardown is under way
and whether any of them has set `stopped`. `DriverInv` says so by state: there is one driver at most;
none while the session serves or asks; a session that ended without being stopped has none; a teardown
by a person has set `stopped`, and one by the watch or by an unanswered question has found the session
undriven. Rather than forty actions against eight conjuncts, every action is first shown to be one
of a few *moves* of one session (`PipelineStep`, `RestartingStep`, `EndStep`, ...: `NextIsStep`), and the
invariant, the leases and the ending are proved of the moves (`MoveKeepsInv`, `MoveOfLease`, `EndedMoves`).
`SlotsAreLeased` maps a session to a lease by `LeaseOf`: moves are takings, givings back or
stutters. `SlotsAreLimited` follows from the lease bound and needs finite cardinalities only.

**What sessions hold.** `NoLeak` speaks of a session that has ended and is quiet; that nothing is left then depends on
who was to remove it before. `BoxInv` names the holder in every state, for a session the startup bound has not
abandoned: a running container is one the session records, or one its pipeline or its restart is about to record or remove
(`Running`, `Placed`), or is being removed by somebody in `tgt`; who waits for a container waits for one there is
(`Waits`, `Planned`); databases and the clone are the session's while it lives (`Given`); and a teardown that is past a step has left
nothing for that step (`Swept`, `Endings`). Each action concerns one session (the `...Frame` lemmas), so that the invariant is
kept of one session at a time. The proof found that two operators of the model (`Sweep` and the choice of a teardown's first step) were
written as `CASE`s with overlapping guards, which TLC reads in order and TLA+ does not; they follow the order of the code now.

**Starts.** A process carries lists across awaits, so that what it knows is stale, and the theorem is
that it does not matter for what was orphaned when it started. `SweepInv` keeps, for each
process, that what it found left is still left (`StaysLeft`: an owner that is gone does not come back, and is
not among `live`), that orphans are on the list, removed or refused once the list is made (`Listed`, `Cleared`), and
the same for the records, unless the recovery failed (`ToSettle`, `AllSettled`). `StaysLeft` is the strengthening: without it another
process's step might make an orphan look owned. The cases are the process's own steps
(`OwnStepsKeep`) and everybody else's (`OthersKeep`). For what a start spares, `SparedInv` says that a
process whose file was whole when it was read is among the living, or still to be read, until a third one unregisters it (`Known`),
and that what is on a list is of nobody living (`Lists`). For a close, `ClosedInv` says the same of the process's own: what it had
is on its list, to be written or removed, or among what could not be (`Closes`): each fault is named by the property it
spoils, and none is assumed away.

**Records.** The writes of one record form a chain: each waits for the one queued before (`Chain`), at most one is past
its turn, and what it writes was read when its turn came, so that it is not older than what is on disk (`OnDisk`, `Text`). With that
go who may still change a deployment (`Drivers`, `Ended`), what a DELETE's flush has seen (`Flushing`), what `recoverInterrupted` has
found (`Found`), and what `list()` has read (`Listing`, `Kept`); `Quiet` says that nothing of a dead process is under way. That a record
is kept needs that the list is trimmed from a snapshot whose newer entries only become more.

**Launches of a project.** `NothingKeepsRunning` holds of a cleanup that is over. It walks by its own records, which
the launch changes under it, so the invariant relates the two: every started container is in a record
(`Accounted`), what a cleanup has walked past it has taken up (`Walks`), a container that a cleanup has
taken up is off or is the one the launch is starting at this moment (`CleanedOff`), and then the launch finds itself
stopped and removes it. Installs take turns because, of one workspace, an installing container determines where the launch is
(`Turn`): two would put it in two places. Reuse is sound because a marker is set only by an install that finished, with that
command, in that volume, nobody else being at it, and is cleared before another is begun (`Trusted`, `Workspaces`);
the choice, made one await before the container is created, stays right until then (`Preparing`).

**The loop of attempts.** Liveness is out of the prover's reach, but the argument for it is not (`EveryStartCosts`, which is proved and in no run,
where `LoopEnds` stands for it): `Left` is a natural
number which no step raises and every start lowers. It counts the question, with all that an answer gives back,
the model's call, the plans that may still be tried, and the raises. That attempts are plans, one for each try, is what makes the count right
(`Budgets`). `RulesMakeProgress` needs to know what ran: everything launched was a plan now among those tried, or the
current one, at a limit or with a heap below the current (`Known`, `Ladder`), so a rule's new plan or a raised
limit has not. `ReportedIsFurthest` needs two facts: the diagnosis that is kept is of the furthest phase
(`Reports`), and the one the model's frame holds is of the phase reached when it asked (`Frames`). That an attempt's failure has
one of four places, whatever the phase, the exit code, the line and Docker's flag, is `FailuresShaped`. `LoopEnds` adds to `StartsAreFinite` the fairness of the waits between starts, and is left to TLC.

**A log.** What a page shows says nothing of what is still on its way to it, so that none of the three
properties is inductive, and neither is `TypeOK` (that the page's number stays below the log's depends on the
messages sent). The invariant speaks of the messages on the wire: lines on their way are new to the page
(`Ahead`), come in order (`Ordered`), and each after the shown lines, notices or messages that account for
every line before it (`NoneSkipped`); what the server has not sent is nothing (`AllSent`). With them go three
facts of the connection: without one nothing is on its way (`Unconnected`), a page that gave up is done
(`GivenUp`), and a page asks from where it is (`Resuming`), which is what makes a resumed stream whole.
Each kind of step is a lemma of its own: messages without lines are sent (`WordlessSent`), a line is
(`WrittenAndSent`), the end of the wire is lost (`PartLost`), a connection is greeted (`Greeted`), the first
message is read (`Received`), or nothing the invariant speaks of changes (`Untouched`).

**What is asked.** The properties of PlanPipeline speak of what runs, and the question was asked, answered and asked
again some awaits before. `PInv` keeps what links the two: each planned service carries a value, was asked for, or will
be supplied, for each setting its example declares blank (`Kept`); what a service holds of a person's it declares or was
asked for, and it holds the last answer (`Homes`); an open question is about the plans there are, and the first one about
exactly what `requiredConfiguration` found (`Asks`); what runs is what was planned, with more settings
(`Running`). A question names its service by its DNS name, so all of it rests on names being told apart
(`NamesAreDistinct`: a second `web` becomes `web-2`, by counting those before it). What planning adds to an
environment are layers (`Layered`), and the lemmas up to `DraftCovers` say of each layer which settings it may set; the
actions then need no more of a plan than that.

**What the rules plan.** That a plan names only scripts there are is no property of a state but of everything from the
rules to the validator, which reads the scripts again some awaits later and from `planMetadata`. `MadeByRule` says what
every planner makes (`NodeIsMadeByRule`, `PythonIsMadeByRule`, `StaticIsMadeByRule`): it runs scripts of the directory it is for, or
none, or it is refused for its command before its scripts are looked at, and where a flag told it a port, that is the one watched. The
first rule, framework or script that applies is the one of the least index, and that there is one (`LeastExists`) comes
from `<` being well-founded, which needs no induction. Workspaces, services, names and moved ports keep it
(`ServiceIsRunnable`, `PlansAre`), though by then a plan may run in another directory than the one that was analysed
(`OutcomePlanIs`). `Feasible` is the invariant: whatever waits to be started will be accepted, is a model's,
or is refused for its command. The validator can then blame DevLaunch for nothing (`ValidatorKnows`), and
what runs has the port of what was planned (`PortsFollow`).

**Assumptions about data.** What a clone is read as (`Repos`) and what a model answers (`ModelPlans`) is data. Four
named assumptions say what is needed of it, and TLC evaluates them on every repository of the run. `ReposAreRead`: a repository
is its directories with what `Read` makes of them; it has a root, and each directory the facts. `ListsHoldCandidates`: a list
that `SelectSeq` or `SortSeq` makes has only members of the list it was made from. This is true of these operators, whose
definitions are recursive, so that the provers cannot read them; it is said of the lists of candidates, the only
ones that matter here. `RepliesAreTold`: what a person gives is told apart from what DevLaunch or the repository supplies, which is how
the model recognises it. `ModelPlansArePlans`: a model's answer was parsed by `RunPlanSchema`, and its source set by
`AIPlanner.normalise`. None speaks of examples, questions, answers, scripts a plan runs, or ports.

The proof corrected two properties that the first repositories could not break. A run from the repository's own image is
not asked for what its example leaves blank, as its own setup gives it, and a lone plan is asked about the directory analysed, which
may not be the one it runs in (`NothingIsLeftUnasked`); in a project the separate settings of a database are asked for, and in
either a name that a file declares twice, once blank, is (`NeverAskedForOurOwn`). Shapes `Repeating`, `Imaged` and
`Lone` of `MCPlanPipeline` show each; the one that is a fault is `NoDatabaseIsAskedFor`.

Only model-checked: liveness (`StopCompletes`, `EverySessionEnds`, `BoundReleases`, `EndIsLearned`, `LaunchEnds`,
`StopReleases`, `LoopEnds`, `PipelineEnds`), which is out of this prover's reach.

## 5. Not modelled

PROJECT.json lists every component with what is left out and why. Parsing and rendering
(manifests, sources, regular expressions, redaction, wording) are functions of text: the models start from what was found in a
file. What a remote model answers is arbitrary. Docker, git, the file system and browsers
are external: what they may answer is chosen, errors included. The gateway, the rewriting of sources and the building of a
repository's own image are text DevLaunch writes or commands it runs, without state of their own. `DockerWake`,
`HostPorts` and the ledger of free memory decide by what the machine says now; their hazards are listed without a
property.

## 6. Plan

In order of what can go wrong and is hardest to test:

1. ProjectLaunch as a refinement: the one container of SessionLifecycle is to be its abstraction, and "all or nothing is
   left" its specification.
2. `DockerWake`: one start in flight, no failed start remembered. `HostPorts`: a port found free before an await.
3. The building of a repository's own image, with its sandbox and its cleanup.
4. Proofs: the refinement of 1; DeploymentRecords as a register written behind.
