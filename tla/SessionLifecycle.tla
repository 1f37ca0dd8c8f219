-------------------------- MODULE SessionLifecycle --------------------------
(***************************************************************************)
(* SessionManager: one backend process driving deployments ("sessions")    *)
(* through clone, analysis, planning, provisioning, start and readiness,   *)
(* while a person, timers and the liveness watch may end or restart them.  *)
(*                                                                         *)
(* JavaScript runs one callback at a time, so an action is the code        *)
(* between two awaits.  Per session these chains run concurrently:         *)
(*   pipe  - run() / continueAfterInput(), the pipeline;                   *)
(*   rst   - restart();                                                    *)
(*   td[e] - a teardown() awaited by e: the pipeline, the restart, a stop, *)
(*           a cancel, a replacing launch, the startup bound (abandon), an *)
(*           unanswered question, or the liveness watch.                   *)
(* A project's services are one container here, as are a session's         *)
(* databases; their own modules take them apart.                           *)
(***************************************************************************)
EXTENDS Naturals, FiniteSets, SessionStates

CONSTANTS
  NumSessions,     \* bound: how many sessions are ever launched
  Limit,           \* DEVLAUNCH_MAX_CONCURRENT_DEPLOYMENTS
  MaxLaunches,     \* bound: containers one session creates (repairs, restarts)
  Kinds,           \* the kinds of plan a repository may get
  Enders           \* the calls people make to end a session

ASSUME ConstantsAssumption ==
  /\ NumSessions \in Nat \ {0}
  /\ Limit \in Nat \ {0}
  /\ MaxLaunches \in Nat \ {0}
  /\ Kinds \subseteq {"single", "project"}
  /\ Enders \subseteq {"stop", "cancel"}

Sessions == 1..NumSessions
Boxes    == 1..MaxLaunches

\* Who awaits a teardown, and the state each of them sets when it is over.
Callers == {"stop", "cancel", "replace", "abandon", "unanswered", "watch"}
Owners  == Callers \cup {"pipeline", "restart"}

FinalStates(e) ==
  CASE e = "stop"                                -> {"COMPLETED"}
    [] e \in {"cancel", "replace", "unanswered"} -> {"CANCELLED"}
    [] e = "abandon"                             -> {"FAILED"}
    [] e = "watch"                               -> {"FAILED", "COMPLETED"}

VARIABLES
  state,      \* session.state
  stopped,    \* session.stopped: somebody ended it
  abandoned,  \* history: the startup bound ended it
  pipe,       \* what the pipeline awaits
  rst,        \* what a restart awaits
  kind,       \* the plan's kind: session.plan ("single") or session.project
  asked,      \* session.pending
  launches,   \* containers created so far; the last one's number
  box,        \* each container: not created, live, being removed, gone
  handle,     \* the container session.handle / the run's service names; 0: none
  run,        \* session.run is set
  dbs,        \* its databases are up and recorded
  clone,      \* its clone is on disk and session.cleanupRepo is set
  bound,      \* the startup bound is armed
  timers,     \* session's other armed timers
  probe,      \* a liveness probe of the current watch is out
  td,         \* each teardown's step
  tgt,        \* the container each awaited cleanup() is removing; 0: none
  replacing   \* a launch with "replace" has cancelled a session and not launched yet

\* What no step of the pipeline or of a restart assigns, and what a plain
\* step of either leaves alone.
others == <<stopped, abandoned, replacing>>
held   == <<launches, handle, run, dbs, clone>>
vars   == <<state, stopped, abandoned, pipe, rst, kind, asked, launches, box, handle,
            run, dbs, clone, bound, timers, probe, td, tgt, replacing>>

PipeSteps ==
  {"idle", "docker", "clone", "analyse", "plan", "validate", "provision", "create",
   "launch", "recreate", "relaunch", "drop", "undo", "ready", "diagnose", "asking", "repair",
   "smoke"}
RestartSteps ==
  {"idle", "cleaning", "create", "launch", "drop", "throw", "ready", "smoke"}
TeardownSteps == {"idle", "run", "handle", "backing", "release"}
BoxStates == {"none", "live", "sweeping", "gone"}

TypeOK ==
  /\ state \in [Sessions -> ExecutionState \cup {NoSession}]
  /\ stopped \in [Sessions -> BOOLEAN]
  /\ abandoned \in [Sessions -> BOOLEAN]
  /\ pipe \in [Sessions -> PipeSteps]
  /\ rst \in [Sessions -> RestartSteps]
  /\ kind \in [Sessions -> {"none", "single", "project"}]
  /\ asked \in [Sessions -> {"none", "choice", "env", "crash"}]
  /\ launches \in [Sessions -> 0..MaxLaunches]
  /\ box \in [Sessions -> [Boxes -> BoxStates]]
  /\ handle \in [Sessions -> 0..MaxLaunches]
  /\ run \in [Sessions -> BOOLEAN]
  /\ dbs \in [Sessions -> BOOLEAN]
  /\ clone \in [Sessions -> BOOLEAN]
  /\ bound \in [Sessions -> BOOLEAN]
  /\ timers \in [Sessions -> SUBSET {"unanswered", "idle", "cap", "tick"}]
  /\ probe \in [Sessions -> BOOLEAN]
  /\ td \in [Sessions -> [Owners -> TeardownSteps]]
  /\ tgt \in [Sessions -> [Owners -> 0..MaxLaunches]]
  /\ replacing \in BOOLEAN

Init ==
  /\ state = [s \in Sessions |-> NoSession]
  /\ stopped = [s \in Sessions |-> FALSE]
  /\ abandoned = [s \in Sessions |-> FALSE]
  /\ pipe = [s \in Sessions |-> "idle"]
  /\ rst = [s \in Sessions |-> "idle"]
  /\ kind = [s \in Sessions |-> "none"]
  /\ asked = [s \in Sessions |-> "none"]
  /\ launches = [s \in Sessions |-> 0]
  /\ box = [s \in Sessions |-> [n \in Boxes |-> "none"]]
  /\ handle = [s \in Sessions |-> 0]
  /\ run = [s \in Sessions |-> FALSE]
  /\ dbs = [s \in Sessions |-> FALSE]
  /\ clone = [s \in Sessions |-> FALSE]
  /\ bound = [s \in Sessions |-> FALSE]
  /\ timers = [s \in Sessions |-> {}]
  /\ probe = [s \in Sessions |-> FALSE]
  /\ td = [s \in Sessions |-> [e \in Owners |-> "idle"]]
  /\ tgt = [s \in Sessions |-> [e \in Owners |-> 0]]
  /\ replacing = FALSE

-----------------------------------------------------------------------------
\* Shared pieces

Active(s)  == state[s] \notin TerminalStates \cup {NoSession}
Serving(s) == state[s] \in ServingStates

ActiveSessions == {s \in Sessions : Active(s)}

\* Mutant: setState without its guard.
StateAfterUnguarded(s, st) == st

\* Mutant: setState reports a stop as a state of its own, which no client knows.
StateAfterStopped(s, st) == IF stopped[s] /\ st \notin EndingStates THEN "STOPPED" ELSE st

\* setState: once somebody has ended a session only ending it may move it; a
\* session that ends disarms its startup bound.
StateAfter(s, st) ==
  IF stopped[s] /\ st \notin EndingStates THEN state[s] ELSE st

SetState(s, st) ==
  /\ state' = [state EXCEPT ![s] = StateAfter(s, st)]
  /\ bound' = [bound EXCEPT ![s] = @ /\ StateAfter(s, st) \notin TerminalStates]

\* The container a teardown finds: session.run's, else session.handle's.  A
\* project whose session.run is unset has neither.
Held(s) == IF kind[s] = "project" /\ ~run[s] THEN 0 ELSE handle[s]

\* Chain e goes on: the removal it awaited is over, and it calls cleanup() on
\* container n.  Only the first such call removes it; a later one returns at
\* once (CleanupManager.done).
Sweep(s, e, n) ==
  /\ box' = [box EXCEPT ![s] = [m \in Boxes |->
       IF m = tgt[s][e] THEN "gone" ELSE IF m = n /\ @[m] = "live" THEN "sweeping" ELSE @[m]]]
  /\ tgt' = [tgt EXCEPT ![s][e] =
       IF \E m \in Boxes : m = n /\ box[s][m] = "live" THEN n ELSE 0]

\* A teardown goes on to session.backing when there is one (a project's
\* databases are its run's), else straight to the workspaces and the clone.
AfterContainers(s) == IF kind[s] = "single" /\ dbs[s] THEN "backing" ELSE "release"

\* teardown() up to its first real await: timers cleared, containers being
\* removed.  It finds what the step that calls it has just assigned.
BeginTeardown(s, e) ==
  /\ timers' = [timers EXCEPT ![s] = {}]
  /\ td' = [td EXCEPT ![s][e] =
       IF run'[s] THEN "run" ELSE IF Held(s)' # 0 THEN "handle" ELSE AfterContainers(s)']
  /\ Sweep(s, e, Held(s)')

\* Mutant: the teardown begins and the session is still shown as it was.
BeginEndingUnannounced(s, e) ==
  /\ UNCHANGED <<pipe, rst, kind, asked, held, probe, state, bound>>
  /\ BeginTeardown(s, e)

\* What every way of ending a session from outside does first.
BeginEnding(s, e) ==
  /\ UNCHANGED <<pipe, rst, kind, asked, held, probe>>
  /\ SetState(s, "CLEANING_UP")
  /\ BeginTeardown(s, e)

\* abandon.  It does not set session.stopped.
Abandon(s) ==
  /\ Active(s) /\ ~Serving(s) /\ state[s] # "AWAITING_INPUT"
  /\ td[s]["abandon"] = "idle"
  /\ abandoned' = [abandoned EXCEPT ![s] = TRUE]
  /\ UNCHANGED <<stopped, replacing, pipe, rst, kind, asked, held, probe>>
  /\ state' = [state EXCEPT ![s] = "CLEANING_UP"]
  /\ bound' = [bound EXCEPT ![s] = FALSE]
  /\ BeginTeardown(s, "abandon")

\* fail() or another outcome, then teardown(): the state is set first, so the
\* slot is free before the containers are gone.
EndPipeline(s, st) ==
  /\ SetState(s, st)
  /\ pipe' = [pipe EXCEPT ![s] = "idle"]
  /\ BeginTeardown(s, "pipeline")

\* throwIfStopped caught by run(): nothing but a teardown.
Bail(s) ==
  /\ pipe' = [pipe EXCEPT ![s] = "idle"]
  /\ BeginTeardown(s, "pipeline")
  /\ UNCHANGED <<state, bound>>

\* The next await, with a new state or without, or while removing container n.
Advance(s, st, step) ==
  /\ SetState(s, st)
  /\ pipe' = [pipe EXCEPT ![s] = step]
  /\ Sweep(s, "pipeline", 0)
  /\ UNCHANGED <<timers, td>>

Remove(s, n, step) ==
  /\ pipe' = [pipe EXCEPT ![s] = step]
  /\ Sweep(s, "pipeline", n)
  /\ UNCHANGED <<state, bound, timers, td>>

\* run.cleanup() of a project that is only being launched.
Undo(s, n) == Remove(s, n, "undo")

\* docker.createContainer succeeded.
NewBox(s) ==
  /\ launches[s] < MaxLaunches
  /\ launches' = [launches EXCEPT ![s] = @ + 1]
  /\ box' = [box EXCEPT ![s][launches[s] + 1] = "live"]

\* Mutant: a question without a clock.
AwaitInputForever(s, question) ==
  /\ SetState(s, "AWAITING_INPUT")
  /\ asked' = [asked EXCEPT ![s] = question]
  /\ timers' = [timers EXCEPT ![s] = {}]
  /\ pipe' = [pipe EXCEPT ![s] = "idle"]
  /\ Sweep(s, "pipeline", 0)
  /\ UNCHANGED td

\* awaitInput: the pipeline ends in a question with a clock of its own.
AwaitInput(s, question) ==
  /\ SetState(s, "AWAITING_INPUT")
  /\ asked' = [asked EXCEPT ![s] = question]
  /\ timers' = [timers EXCEPT ![s] = {"unanswered"}]
  /\ pipe' = [pipe EXCEPT ![s] = "idle"]
  /\ Sweep(s, "pipeline", 0)
  /\ UNCHANGED td

\* Mutant: the failed container is left to itself.
RepairBeside(s) ==
  /\ SetState(s, "REPAIRING")
  /\ pipe' = [pipe EXCEPT ![s] = "repair"]
  /\ UNCHANGED <<timers, box, td, tgt>>

\* REPAIRING: the failed container goes first.
Repair(s) ==
  /\ SetState(s, "REPAIRING")
  /\ pipe' = [pipe EXCEPT ![s] = "repair"]
  /\ Sweep(s, "pipeline", Held(s))
  /\ UNCHANGED <<timers, td>>

\* armLifetime: the idle timer and the hard cap, and a watch of what it has
\* when it is serving.  The new watch makes an older one's probe stale.
ArmLifetime(s) ==
  /\ timers' = [timers EXCEPT ![s] =
       {"idle", "cap"} \cup IF state'[s] \in ServingStates /\ Held(s) # 0 THEN {"tick"} ELSE {}]
  /\ probe' = [probe EXCEPT ![s] = @ /\ Held(s) = 0]

-----------------------------------------------------------------------------
\* Launching

Create(s) ==
  /\ state' = [state EXCEPT ![s] = "QUEUED"]
  /\ bound' = [bound EXCEPT ![s] = TRUE]
  /\ pipe' = [pipe EXCEPT ![s] = "docker"]
  /\ UNCHANGED <<stopped, abandoned, rst, kind, asked, launches, box, handle, run, dbs,
                 clone, timers, probe, td, tgt>>

\* Ids are given in the order of launching.
NextId(s) == \A r \in Sessions : state[r] = NoSession <=> r >= s

\* Mutant: one session too many.
LaunchOffByOne(s) ==
  /\ NextId(s)
  /\ Cardinality(ActiveSessions) <= Limit
  /\ Create(s)
  /\ UNCHANGED replacing

\* launchNow: the limit is checked and the session registered in one callback.
Launch(s) ==
  /\ NextId(s)
  /\ Cardinality(ActiveSessions) < Limit
  /\ Create(s)
  /\ UNCHANGED replacing

\* The chain of launches with "replace" lets one through at a time; it goes on
\* when the cancel it awaits has returned.
ReplaceTurn == \A s \in Sessions : td[s]["replace"] = "idle"

\* makeRoom: while no slot is free, cancel the oldest active session.
ReplaceCancel(s) ==
  /\ ReplaceTurn
  /\ \E r \in Sessions : state[r] = NoSession
  /\ Cardinality(ActiveSessions) >= Limit
  /\ s \in ActiveSessions /\ \A r \in ActiveSessions : s <= r
  /\ replacing' = TRUE
  /\ stopped' = [stopped EXCEPT ![s] = TRUE]
  /\ UNCHANGED abandoned
  /\ BeginEnding(s, "replace")

\* There is room: launchNow.  (Without anything to cancel it is a Launch.)
ReplaceLaunch(s) ==
  /\ replacing /\ ReplaceTurn
  /\ NextId(s)
  /\ Cardinality(ActiveSessions) < Limit
  /\ Create(s)
  /\ replacing' = FALSE

-----------------------------------------------------------------------------
\* The pipeline: run(), up to a plan

DockerReady(s) ==
  /\ pipe[s] = "docker"
  /\ UNCHANGED <<others, rst, asked, held, probe>>
  /\ \/ /\ UNCHANGED kind
        /\ \/ EndPipeline(s, "FAILED")                      \* Docker is down
           \/ Advance(s, "CLONING", "clone")                \* a repository URL
           \/ /\ stopped[s]
              /\ Bail(s)
           \/ /\ ~stopped[s]                                \* a local directory
              /\ Advance(s, "ANALYZING", "analyse")
           \/ /\ ~stopped[s]                                \* neither of the two
              /\ Advance(s, "FAILED", "idle")
     \/ /\ "single" \in Kinds                               \* a plan and a directory
        /\ kind' = [kind EXCEPT ![s] = "single"]
        /\ Advance(s, "VALIDATING", "validate")

CloneDone(s) ==
  /\ pipe[s] = "clone"
  /\ UNCHANGED <<others, rst, kind, asked, launches, handle, run, dbs, probe>>
  /\ \/ /\ clone' = [clone EXCEPT ![s] = TRUE]
        /\ IF stopped[s] THEN Bail(s) ELSE Advance(s, "ANALYZING", "analyse")
     \/ /\ EndPipeline(s, "FAILED")
        /\ UNCHANGED clone

\* A desktop program, or a checkout that cannot be read, ends here.
AnalyseDone(s) ==
  /\ pipe[s] = "analyse"
  /\ UNCHANGED <<others, rst, kind, asked, held, probe>>
  /\ \/ Advance(s, "PLANNING", "plan")
     \/ EndPipeline(s, "FAILED")

\* A plan, a question about which package (once) or about configuration, or a
\* refusal.
PlanDone(s) ==
  /\ pipe[s] = "plan"
  /\ UNCHANGED <<others, rst, held, probe>>
  /\ \/ /\ UNCHANGED <<kind, asked>>
        /\ EndPipeline(s, "FAILED")
     \/ /\ asked[s] # "choice"
        /\ AwaitInput(s, "choice")
        /\ UNCHANGED kind
     \/ \E k \in Kinds :
          /\ kind' = [kind EXCEPT ![s] = k]
          /\ \/ AwaitInput(s, "env")
             \/ /\ Advance(s, "VALIDATING", "validate")
                /\ UNCHANGED asked

\* startProject checks for a stop here; startAndVerify provisions first.
Validated(s) ==
  /\ pipe[s] = "validate"
  /\ UNCHANGED <<others, rst, kind, asked, launches, handle, dbs, clone, probe>>
  /\ \/ /\ UNCHANGED run
        /\ \/ EndPipeline(s, "FAILED")
           \/ kind[s] = "single" /\ Advance(s, "STARTING", "provision")
           \/ kind[s] = "project" /\ stopped[s] /\ Bail(s)
     \/ /\ kind[s] = "project" /\ ~stopped[s]
        /\ run' = [run EXCEPT ![s] = TRUE]
        /\ Advance(s, "STARTING", "provision")

-----------------------------------------------------------------------------
\* The pipeline: provisioning and starting

\* The session's databases, where it needs any and has none yet.
Provisioned(s) ==
  /\ pipe[s] = "provision"
  /\ UNCHANGED <<others, rst, kind, asked, launches, handle, run, clone, probe>>
  /\ \/ /\ dbs' \in {dbs, [dbs EXCEPT ![s] = TRUE]}
        /\ \/ ~stopped[s] /\ Remove(s, 0, "create")
           \/ stopped[s] /\ kind[s] = "single" /\ Bail(s)
           \/ stopped[s] /\ kind[s] = "project" /\ Undo(s, 0)
     \/ /\ kind[s] = "project"                    \* provision() threw
        /\ UNCHANGED dbs
        /\ Undo(s, 0)

\* exec.launch up to the container: image, network, workspace, create.
CreateContainer(s) ==
  /\ pipe[s] = "create"
  /\ UNCHANGED <<others, rst, kind, asked, handle, run, dbs, clone, probe>>
  /\ \/ /\ NewBox(s)
        /\ pipe' = [pipe EXCEPT ![s] = "launch"]
        /\ UNCHANGED <<state, bound, timers, td, tgt>>
     \/ /\ IF kind[s] = "single" THEN EndPipeline(s, "FAILED") ELSE Undo(s, 0)
        /\ UNCHANGED launches

\* ... and the rest of it: copy, start, attach.  Only now does anything but
\* exec.launch know the container, which it removes itself when it throws.
Launched(s) ==
  /\ pipe[s] = "launch"
  /\ UNCHANGED <<others, rst, kind, asked, launches, dbs, clone, probe>>
  /\ \/ /\ handle' = [handle EXCEPT ![s] = launches[s]]
        /\ run' = [run EXCEPT ![s] = kind[s] = "project" /\ (@ \/ ~stopped[s])]
        /\ \/ ~stopped[s] /\ Advance(s, "WAITING_FOR_READY", "ready")
           \/ stopped[s] /\ kind[s] = "single" /\ Bail(s)
           \/ stopped[s] /\ kind[s] = "project" /\ Undo(s, launches[s])
     \/ /\ UNCHANGED <<handle, run>>
        /\ Remove(s, launches[s], IF kind[s] = "single" THEN "drop" ELSE "undo")

\* The project's run was cleaned up: fail(), unless a stop is why.
Undone(s) ==
  /\ pipe[s] = "undo"
  /\ dbs' = [dbs EXCEPT ![s] = FALSE]
  /\ UNCHANGED <<others, rst, kind, asked, launches, handle, run, clone, probe>>
  /\ EndPipeline(s, "FAILED")

\* The container a launch gave up was removed.
Dropped(s) ==
  /\ pipe[s] = "drop"
  /\ UNCHANGED <<others, rst, kind, asked, held, probe>>
  /\ EndPipeline(s, "FAILED")

-----------------------------------------------------------------------------
\* The pipeline: readiness, questions and repairs

\* waitForReady's answer.  A container that was removed is never READY; a
\* project whose session.run a teardown cleared is a TypeError to the code.
ReadyDone(s) ==
  /\ pipe[s] = "ready"
  /\ UNCHANGED <<others, rst, kind, asked, held, probe>>
  /\ \/ /\ Held(s) # 0 /\ box[s][handle[s]] # "gone"
        /\ Remove(s, 0, "smoke")
     \/ /\ kind[s] = "project" /\ ~run[s]
        /\ EndPipeline(s, "FAILED")
     \/ /\ kind[s] = "single"                       \* the program ran and exited 0
        /\ EndPipeline(s, "COMPLETED")
     \/ /\ kind[s] = "project" => run[s]
        /\ Remove(s, 0, "diagnose")

MayRelaunch(s) == launches[s] < MaxLaunches /\ (kind[s] = "project" => run[s])

\* A crash that names a missing setting asks for it, once the container is gone;
\* a repairable one is repaired, unless a stop came; a project keeps the services
\* that are up.
Diagnosed(s) ==
  /\ pipe[s] = "diagnose"
  /\ UNCHANGED <<others, rst, kind, asked, held>>
  /\ \/ /\ UNCHANGED probe
        /\ \/ EndPipeline(s, "FAILED")
           \/ MayRelaunch(s) /\ Remove(s, Held(s), "asking")
           \/ MayRelaunch(s) /\ ~stopped[s] /\ Repair(s)
     \/ /\ kind[s] = "project" /\ run[s]
        /\ SetState(s, "PARTIALLY_READY")
        /\ ArmLifetime(s)
        /\ pipe' = [pipe EXCEPT ![s] = "idle"]
        /\ UNCHANGED <<box, td, tgt>>

\* The crashed container is gone; ask for what it lacked.
Asked(s) ==
  /\ pipe[s] = "asking"
  /\ UNCHANGED <<others, rst, kind, launches, clone, probe>>
  /\ handle' = [handle EXCEPT ![s] = 0]
  /\ run' = [run EXCEPT ![s] = FALSE]
  /\ dbs' = [dbs EXCEPT ![s] = @ /\ kind[s] = "single"]
  /\ AwaitInput(s, "crash")

\* beginRepair, or the cleanup() of service.restart(), is over.  Only a model's
\* answer can refuse the repair here.
Repaired(s) ==
  /\ pipe[s] = "repair"
  /\ UNCHANGED <<others, rst, kind, asked, launches, run, dbs, clone, probe>>
  /\ \/ /\ kind[s] = "single"
        /\ handle' = [handle EXCEPT ![s] = 0]
        /\ \/ Advance(s, "VALIDATING", "validate")
           \/ EndPipeline(s, "FAILED")
     \/ /\ kind[s] = "project"
        /\ UNCHANGED handle
        /\ Remove(s, 0, "recreate")

\* service.restart(): exec.launch again, up to the container.
Recreate(s) ==
  /\ pipe[s] = "recreate"
  /\ UNCHANGED <<others, rst, kind, asked, handle, run, dbs, clone, probe>>
  /\ \/ /\ NewBox(s)
        /\ pipe' = [pipe EXCEPT ![s] = "relaunch"]
        /\ UNCHANGED <<state, bound, timers, td, tgt>>
     \/ /\ EndPipeline(s, "FAILED")
        /\ UNCHANGED launches

\* Mutant: a stop that came meanwhile is taken to have released everything.
RelaunchedUntracked(s) ==
  /\ pipe[s] = "relaunch"
  /\ UNCHANGED <<others, rst, kind, asked, launches, run, dbs, clone, probe>>
  /\ \/ /\ handle' = [handle EXCEPT ![s] = launches[s]]
        /\ IF stopped[s] THEN Bail(s) ELSE Advance(s, "WAITING_FOR_READY", "ready")
     \/ /\ UNCHANGED handle
        /\ Remove(s, launches[s], "drop")

\* ... and the rest.  A stop that came meanwhile has not released this one.
Relaunched(s) ==
  /\ pipe[s] = "relaunch"
  /\ UNCHANGED <<others, rst, kind, asked, launches, run, dbs, clone, probe>>
  /\ \/ /\ handle' = [handle EXCEPT ![s] = launches[s]]
        /\ IF stopped[s] THEN Remove(s, launches[s], "drop")
           ELSE Advance(s, "WAITING_FOR_READY", "ready")
     \/ /\ UNCHANGED handle
        /\ Remove(s, launches[s], "drop")

\* declareServing: the smoke test decides which of the two it is.  The lifetime
\* is armed whatever setState did.
SmokeDone(s) ==
  /\ pipe[s] = "smoke"
  /\ UNCHANGED <<others, rst, kind, asked, held>>
  /\ \E st \in ServingStates : SetState(s, st)
  /\ ArmLifetime(s)
  /\ pipe' = [pipe EXCEPT ![s] = "idle"]
  /\ UNCHANGED <<box, td, tgt>>

-----------------------------------------------------------------------------
\* Answers, stops and timers

\* resolve and the start of continueAfterInput, in one callback.
Resolve(s) ==
  /\ state[s] = "AWAITING_INPUT"
  /\ UNCHANGED <<others, rst, kind, held, box, td, tgt, probe>>
  /\ timers' = [timers EXCEPT ![s] = {}]
  /\ \/ /\ asked[s] = "choice"                      \* with one of the packages
        /\ state' = [state EXCEPT ![s] = "ANALYZING"]
        /\ pipe' = [pipe EXCEPT ![s] = "analyse"]
        /\ UNCHANGED <<asked, bound>>
     \/ /\ asked[s] = "choice"                      \* with values only: no plan yet
        /\ SetState(s, "FAILED")
        /\ UNCHANGED <<asked, pipe>>
     \/ /\ asked[s] # "choice"
        /\ asked' = [asked EXCEPT ![s] = "none"]
        /\ state' = [state EXCEPT ![s] = "VALIDATING"]
        /\ bound' = [bound EXCEPT ![s] = @ \/ asked[s] = "crash"]
        /\ pipe' = [pipe EXCEPT ![s] = "validate"]

\* stop and cancel, called by a person.  Bound: one call of each at a time.
End(s, e) ==
  /\ Active(s) /\ td[s][e] = "idle"
  /\ stopped' = [stopped EXCEPT ![s] = TRUE]
  /\ UNCHANGED <<abandoned, replacing>>
  /\ BeginEnding(s, e)

\* The idle timer and the hard cap both call stop.
LifetimeOver(s) ==
  /\ timers[s] \cap {"idle", "cap"} # {}
  /\ End(s, "stop")

\* Mutant: a start counts as progress.
StartupBoundLenient(s) ==
  /\ bound[s]
  /\ \/ /\ Serving(s) \/ state[s] \in {"AWAITING_INPUT", "STARTING"} \/ ~Active(s)
        /\ bound' = [bound EXCEPT ![s] = FALSE]
        /\ UNCHANGED <<state, others, pipe, rst, kind, asked, box, held, timers, probe, td,
                       tgt>>
     \/ state[s] # "STARTING" /\ Abandon(s)

\* The startup bound elapses, once, whatever the session is doing.
StartupBound(s) ==
  /\ bound[s]
  /\ \/ /\ Serving(s) \/ state[s] = "AWAITING_INPUT" \/ ~Active(s)
        /\ bound' = [bound EXCEPT ![s] = FALSE]
        /\ UNCHANGED <<state, others, pipe, rst, kind, asked, box, held, timers, probe, td,
                       tgt>>
     \/ Abandon(s)

\* cancelUnanswered: nobody supplied input.
Unanswered(s) ==
  /\ "unanswered" \in timers[s]
  /\ state[s] = "AWAITING_INPUT" /\ td[s]["unanswered"] = "idle"
  /\ UNCHANGED others
  /\ BeginEnding(s, "unanswered")

\* A person uses the page: the idle clock starts over.
Touch(s) ==
  /\ Serving(s)
  /\ UNCHANGED <<state, others, pipe, rst, kind, asked, box, held, bound, td, tgt>>
  /\ ArmLifetime(s)

-----------------------------------------------------------------------------
\* The liveness watch

Tick(s) ==
  /\ "tick" \in timers[s]
  /\ timers' = [timers EXCEPT ![s] = @ \ {"tick"}]
  /\ probe' = [probe EXCEPT ![s] = Serving(s)]
  /\ UNCHANGED <<state, others, pipe, rst, kind, asked, box, held, bound, td, tgt>>

\* Mutant: the state read before the probe is believed after it.
ProbedStale(s) ==
  /\ probe[s]
  /\ probe' = [probe EXCEPT ![s] = FALSE]
  /\ UNCHANGED <<others, pipe, rst, kind, asked, held>>
  /\ td[s]["watch"] = "idle"
  /\ SetState(s, "CLEANING_UP")
  /\ BeginTeardown(s, "watch")

\* The answer counts only while the session is still serving (current()).
Probed(s) ==
  /\ probe[s]
  /\ probe' = [probe EXCEPT ![s] = FALSE]
  /\ UNCHANGED <<others, pipe, rst, kind, asked, held>>
  /\ \/ /\ ~Serving(s)
        /\ UNCHANGED <<state, bound, timers, box, td, tgt>>
     \/ /\ Serving(s)                               \* running, or cannot be read
        /\ timers' = [timers EXCEPT ![s] = @ \cup {"tick"}]
        /\ UNCHANGED <<state, bound, box, td, tgt>>
     \/ /\ Serving(s) /\ kind[s] = "project"         \* one service of several died
        /\ SetState(s, "PARTIALLY_READY")
        /\ timers' = [timers EXCEPT ![s] = @ \cup {"tick"}]
        /\ UNCHANGED <<box, td, tgt>>
     \/ /\ Serving(s) /\ td[s]["watch"] = "idle"     \* nothing is left running
        /\ SetState(s, "CLEANING_UP")
        /\ BeginTeardown(s, "watch")

-----------------------------------------------------------------------------
\* teardown(), after its first await.  What it does not find it does not wait for.

ContainersGone(s, e) ==
  /\ td[s][e] \in {"run", "handle"}
  /\ run' = [run EXCEPT ![s] = FALSE]
  /\ dbs' = [dbs EXCEPT ![s] = @ /\ td[s][e] # "run"]
  /\ Sweep(s, e, 0)
  /\ td' = [td EXCEPT ![s][e] = AfterContainers(s)]
  /\ UNCHANGED <<state, others, pipe, rst, kind, asked, launches, handle, clone, bound,
                 timers, probe>>

BackingGone(s, e) ==
  /\ td[s][e] = "backing"
  /\ dbs' = [dbs EXCEPT ![s] = FALSE]
  /\ td' = [td EXCEPT ![s][e] = "release"]
  /\ UNCHANGED <<state, others, pipe, rst, kind, asked, launches, box, handle, run, clone,
                 bound, timers, probe, tgt>>

\* Mutant: the caller forgets to say what became of the session.
ReleasedSilently(s, e) ==
  /\ td[s][e] = "release"
  /\ td' = [td EXCEPT ![s][e] = "idle"]
  /\ clone' = [clone EXCEPT ![s] = FALSE]
  /\ UNCHANGED <<state, bound, others, pipe, rst, kind, asked, launches, box, handle, run,
                 dbs, timers, probe, tgt>>

\* The workspaces, the network and the clone are released; who waited for the
\* teardown says what became of the session.
Released(s, e) ==
  /\ td[s][e] = "release"
  /\ td' = [td EXCEPT ![s][e] = "idle"]
  /\ clone' = [clone EXCEPT ![s] = FALSE]
  /\ IF e \in Callers THEN \E st \in FinalStates(e) : SetState(s, st)
     ELSE UNCHANGED <<state, bound>>
  /\ UNCHANGED <<others, pipe, rst, kind, asked, launches, box, handle, run, dbs, timers,
                 probe, tgt>>

Teardown(s, e) == ContainersGone(s, e) \/ BackingGone(s, e) \/ Released(s, e)

-----------------------------------------------------------------------------
\* restart(): a person restarts the services of a project that is serving

\* Mutant: a restart of any project that has not ended (audit A-07).
RestartAnytime(s) ==
  /\ Active(s) /\ run[s] /\ rst[s] = "idle"
  /\ launches[s] < MaxLaunches
  /\ SetState(s, "STARTING")
  /\ timers' = [timers EXCEPT ![s] = {}]
  /\ rst' = [rst EXCEPT ![s] = "cleaning"]
  /\ Sweep(s, "restart", Held(s))
  /\ UNCHANGED <<others, pipe, kind, asked, held, probe, td>>

\* restartRefusal, the reset and the old container's cleanup().
Restart(s) ==
  /\ Serving(s) /\ run[s] /\ rst[s] = "idle"
  /\ launches[s] < MaxLaunches
  /\ SetState(s, "STARTING")
  /\ timers' = [timers EXCEPT ![s] = {}]
  /\ rst' = [rst EXCEPT ![s] = "cleaning"]
  /\ Sweep(s, "restart", Held(s))
  /\ UNCHANGED <<others, pipe, kind, asked, held, probe, td>>

RestartGoes(s, step, n) ==
  /\ rst' = [rst EXCEPT ![s] = step]
  /\ Sweep(s, "restart", n)
  /\ UNCHANGED <<td, timers>>

RestartFails(s) ==
  /\ SetState(s, "FAILED")
  /\ rst' = [rst EXCEPT ![s] = "idle"]
  /\ BeginTeardown(s, "restart")

RestartServes(s, st) ==
  /\ SetState(s, st)
  /\ ArmLifetime(s)
  /\ rst' = [rst EXCEPT ![s] = "idle"]
  /\ UNCHANGED <<box, td, tgt>>

RestartCleaned(s) ==
  /\ rst[s] = "cleaning"
  /\ RestartGoes(s, "create", 0)
  /\ UNCHANGED <<state, others, pipe, kind, asked, held, bound, probe>>

\* exec.launch, up to the container.
RestartCreate(s) ==
  /\ rst[s] = "create"
  /\ UNCHANGED <<others, pipe, kind, asked, handle, run, dbs, clone, probe>>
  /\ \/ /\ NewBox(s)
        /\ rst' = [rst EXCEPT ![s] = "launch"]
        /\ UNCHANGED <<state, bound, timers, td, tgt>>
     \/ /\ UNCHANGED launches
        /\ RestartFails(s)

\* The new container is up: released here when a stop came meanwhile, left to
\* itself when a teardown has cleared session.run.
RestartLaunched(s) ==
  /\ rst[s] = "launch"
  /\ UNCHANGED <<others, pipe, kind, asked, launches, run, dbs, clone, probe>>
  /\ \/ /\ handle' = [handle EXCEPT ![s] = launches[s]]
        /\ \/ /\ stopped[s]
              /\ RestartGoes(s, "drop", launches[s])
              /\ UNCHANGED <<state, bound>>
           \/ /\ ~stopped[s] /\ ~run[s]
              /\ RestartGoes(s, "idle", 0)
              /\ UNCHANGED <<state, bound>>
           \/ /\ ~stopped[s] /\ run[s]
              /\ RestartGoes(s, "ready", 0)
              /\ SetState(s, "WAITING_FOR_READY")
     \/ /\ UNCHANGED <<handle, state, bound>>        \* exec.launch threw
        /\ RestartGoes(s, "throw", launches[s])

RestartDropped(s) ==
  /\ rst[s] \in {"drop", "throw"}
  /\ UNCHANGED <<others, pipe, kind, asked, held, probe>>
  /\ IF rst[s] = "throw" THEN RestartFails(s)
     ELSE RestartGoes(s, "idle", 0) /\ UNCHANGED <<state, bound>>

\* The second readiness check.  A stop, or a teardown that cleared session.run,
\* ends the restart here.
RestartReady(s) ==
  /\ rst[s] = "ready"
  /\ UNCHANGED <<others, pipe, kind, asked, held>>
  /\ \/ /\ stopped[s] \/ ~run[s]
        /\ RestartGoes(s, "idle", 0)
        /\ UNCHANGED <<state, bound, probe>>
     \/ /\ ~stopped[s] /\ run[s] /\ box[s][handle[s]] # "gone"
        /\ RestartGoes(s, "smoke", 0)
        /\ UNCHANGED <<state, bound, probe>>
     \/ /\ ~stopped[s] /\ run[s]                     \* some services are up
        /\ RestartServes(s, "PARTIALLY_READY")
     \/ /\ ~stopped[s] /\ run[s]
        /\ UNCHANGED probe
        /\ RestartFails(s)

RestartSmoked(s) ==
  /\ rst[s] = "smoke"
  /\ UNCHANGED <<others, pipe, kind, asked, held>>
  /\ \E st \in ServingStates : RestartServes(s, st)

-----------------------------------------------------------------------------

Pipeline(s) ==
  \/ DockerReady(s) \/ CloneDone(s) \/ AnalyseDone(s) \/ PlanDone(s) \/ Validated(s)
  \/ Provisioned(s) \/ CreateContainer(s) \/ Launched(s) \/ Undone(s) \/ Dropped(s)
  \/ ReadyDone(s) \/ Diagnosed(s) \/ Asked(s) \/ Repaired(s) \/ Recreate(s)
  \/ Relaunched(s) \/ SmokeDone(s)

Restarting(s) ==
  \/ RestartCleaned(s) \/ RestartCreate(s) \/ RestartLaunched(s) \/ RestartDropped(s)
  \/ RestartReady(s) \/ RestartSmoked(s)

\* What the clocks do, with nobody at the keyboard.
Clocks(s) == StartupBound(s) \/ Unanswered(s) \/ LifetimeOver(s) \/ Tick(s) \/ Probed(s)

\* What people do.
People(s) ==
  \/ Launch(s) \/ ReplaceCancel(s) \/ Resolve(s) \/ Touch(s) \/ Restart(s)
  \/ \E e \in Enders : End(s, e)

Next ==
  \E s \in Sessions :
    \/ Pipeline(s) \/ Restarting(s) \/ Clocks(s) \/ People(s) \/ ReplaceLaunch(s)
    \/ \E e \in Owners : Teardown(s, e)

Spec == Init /\ [][Next]_vars

\* Timers fire, and a teardown's calls to Docker return; people need do nothing, and
\* an await of the pipeline or of a restart may hang.
Fairness ==
  \A s \in Sessions :
    /\ WF_vars(StartupBound(s))
    /\ WF_vars(Unanswered(s))
    /\ WF_vars(LifetimeOver(s))
    /\ \A e \in Owners : WF_vars(Teardown(s, e))

FairSpec == Spec /\ Fairness

\* Every await of the pipeline's and of a restart's is answered or times out.
Answered == \A s \in Sessions : WF_vars(Pipeline(s)) /\ WF_vars(Restarting(s))

-----------------------------------------------------------------------------
\* Properties

Ended(s) == state[s] \in TerminalStates

\* Nothing of the session's is between two awaits.
Quiet(s) == pipe[s] = "idle" /\ rst[s] = "idle" /\ \A e \in Owners : td[s][e] = "idle"

\* The startup bound does not set session.stopped, so the pipeline it abandons
\* goes on; what follows from that is stated apart.
Sound(s) == ~abandoned[s]

\* A session somebody has ended is never seen starting, serving or failing
\* again, whatever its pipeline and its restart were still waiting for
\* (setState's guard, SessionManager.ts).
StoppedIsEnding == \A s \in Sessions : stopped[s] => state[s] \in EndingStates

\* No more deployments hold a slot than the limit allows, however launches,
\* replacements and endings interleave (launchNow, makeRoom).
SlotLimit == Cardinality({s \in ActiveSessions : Sound(s)}) <= Limit

\* The pipeline (with its repairs) and a restart never drive one session at once:
\* each would tear down the other's container (restartRefusal, audit A-07).
OneDriver == \A s \in Sessions : pipe[s] = "idle" \/ rst[s] = "idle"

\* Never two running containers of one session: a relaunch, a repair or a
\* restart publishes the same host port again.
OneContainer ==
  \A s \in Sessions : Sound(s) =>
    Cardinality({n \in Boxes : box[s][n] = "live"}) <= 1

\* What is shown as running is running: the container the session names has not
\* been removed, and nobody is removing it.
ServingOwnsContainer ==
  \A s \in Sessions : Serving(s) /\ Sound(s) =>
    /\ Held(s) # 0 /\ box[s][handle[s]] = "live"
    /\ \A e \in Owners : td[s][e] = "idle"

\* A finished session leaves nothing behind, whichever of its pipeline, its
\* restart and those who ended it was the last to finish.  But a choice of package that is
\* resolved without one fails the session on a path of its own (continueAfterInput), which
\* leaves the clone.
NoLeak ==
  \A s \in Sessions : Ended(s) /\ Quiet(s) /\ Sound(s) =>
    /\ \A n \in Boxes : box[s][n] \in {"none", "gone"}
    /\ ~dbs[s] /\ ~run[s]
    /\ clone[s] => kind[s] = "none" /\ asked[s] = "choice"

\* A session that ended never takes a slot again.
EndedStaysEnded ==
  [][\A s \in Sessions : Ended(s) /\ Sound(s) => Ended(s)']_vars

\* The run slots as leases.  A session the startup bound abandoned has given
\* its slot back there and then, whatever its pipeline does next.
LeaseOf(s) ==
  IF state[s] = NoSession THEN "none"
  ELSE IF Active(s) /\ Sound(s) THEN "held" ELSE "returned"

Slots == INSTANCE SlotLease WITH lease <- [s \in Sessions |-> LeaseOf(s)]

\* Launches, replacements, endings, failures and resumptions are takings and
\* givings back of slots, and nothing else is.
LeasesAreKept == Slots!Spec

\* Stopping a session ends it and everything it had in flight.
StopCompletes == Answered => \A s \in Sessions : stopped[s] ~> Ended(s) /\ Quiet(s)

\* Whatever people do or leave undone, every session ends and gives back what it
\* held: no question, no failure and no restart keeps the slot.
EverySessionEnds ==
  Answered => \A s \in Sessions : Active(s) ~> Ended(s) /\ Quiet(s)

\* While the startup bound is armed, even a session whose pipeline hangs gets out
\* of the states the bound watches.
BoundReleases ==
  \A s \in Sessions : bound[s] ~> ~Active(s) \/ Serving(s) \/ state[s] = "AWAITING_INPUT"

-----------------------------------------------------------------------------
\* Why slots are kept: who may still move a session, by the state it is in

NobodyDrives(s) == pipe[s] = "idle" /\ rst[s] = "idle"

\* One driver; none while people may act on the session or once it failed; each
\* teardown of an outsider has marked the session, or found it without a driver
\* and leaves it so.
DriverInv(s) ==
  /\ stopped[s] => state[s] \in EndingStates
  /\ pipe[s] = "idle" \/ rst[s] = "idle"
  /\ state[s] \in ServingStates \cup {"AWAITING_INPUT", NoSession} => NobodyDrives(s)
  /\ \A e \in {"stop", "cancel", "replace"} : td[s][e] # "idle" => stopped[s]
  /\ td[s]["abandon"] # "idle" => abandoned[s]
  /\ \A e \in {"watch", "unanswered"} :
       td[s][e] # "idle" /\ ~stopped[s] /\ ~abandoned[s] =>
         NobodyDrives(s) /\ state[s] \in TerminalStates \cup {"CLEANING_UP"}
  /\ state[s] \in TerminalStates /\ ~stopped[s] /\ ~abandoned[s] => NobodyDrives(s)
  /\ state[s] = NoSession => ~abandoned[s]

\* The inductive invariant the proofs use: whoever drives a session, nothing but
\* its own end is left to happen to it once it has ended.
DriversInv == \A s \in Sessions : DriverInv(s)

-----------------------------------------------------------------------------
\* What the repository says of the code, and the code does not keep

\* The message of SessionConflict: "DevLaunch runs N at a time ... because the
\* Docker VM cannot safely host more" (launchNow).
RunsLimitAtATime == Cardinality(ActiveSessions) <= Limit

=============================================================================
