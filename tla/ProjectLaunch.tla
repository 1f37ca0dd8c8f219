--------------------------- MODULE ProjectLaunch ---------------------------
(***************************************************************************)
(* One launch of a project of several services: its databases, the          *)
(* services one after another, the gate between installs of one workspace,   *)
(* readiness and extras, and what undoes it all - the launch itself and a  *)
(* stop, at any moment and at the same time (ProjectExecutor,                *)
(* BackingProvisioner, ExecutionManager.launch, RunNetworks.forSession and   *)
(* release, SessionManager.teardown).                                        *)
(*                                                                          *)
(* Services are numbered in the order they start.  Containers and workspace  *)
(* volumes are numbered in the order they are created; 0 is none.            *)
(***************************************************************************)
EXTENDS Naturals, Sequences, FiniteSets, SequencesExt

CONSTANTS
  NumServices,  \* services of the project
  NumDbs,       \* databases it needs
  Shared,       \* project.sharedInstall: one workspace, installed by each service
  MaxExtras,    \* bound: containers made in place of another one
  MaxFaults     \* bound: calls to Docker that fail

ASSUME BoundsAssumption ==
  /\ NumServices \in Nat \ {0} /\ NumDbs \in Nat /\ Shared \in BOOLEAN
  /\ MaxExtras \in Nat /\ MaxFaults \in Nat

VARIABLES
  pc,        \* where the launch is
  cur,       \* the service it is starting or restarting
  loop,      \* it is in the loop that starts the services, not in verification
  pend,      \* what workspaceFor answered, and the container being made
  boxes,     \* every container: its state, what it is for and what it mounts
  handle,    \* per service: the container of its ServiceRun, or 0
  prov,      \* databases BackingProvisioner has recorded
  backing,   \* databases the run has recorded
  cleaned,   \* containers whose CleanupManager is done, or at it
  ws,        \* ExecutionManager.workspaces, by service that keys it
  vols,      \* workspace volumes that exist
  labelled,  \* those that say which session made them
  content,   \* per volume: the install that has finished in it, or 0
  net,       \* the run's own network exists
  heard,     \* what the install gate has heard
  outcome,   \* per service: readiness
  late,      \* an install was given up on while it ran
  want,      \* per service: the install command of its plan
  extras,
  faults,
  refused,   \* containers Docker would not remove
  stopped,   \* session.stopped
  undo,      \* per actor: its way through run.cleanup and teardown
  at,        \* per actor: the service or database its cleanup is at
  busy       \* per actor: the container it is removing, or 0

runVars   == <<pc, cur, loop, pend, heard, outcome, want, extras>>
boxVars   == <<boxes, cleaned, refused>>
recVars   == <<handle, prov, backing>>
diskVars  == <<ws, vols, labelled, content, net>>
undoVars  == <<undo, at, busy>>
vars == <<runVars, boxVars, recVars, diskVars, undoVars, late, faults, stopped>>

Services == 1..NumServices
Actors   == {"launch", "stop"}
Installs == {1, 2}   \* the plan's install command, and the one a repair puts in its place
Ids      == 1..Len(boxes)
Live     == {"created", "reusing", "installing", "installed", "up", "dying"}
Held     == Live \union {"exited"}
Mounted  == {boxes[b].vol : b \in {i \in Ids : boxes[i].state \in Held}}
Key(s)   == IF Shared THEN 1 ELSE s     \* workspaceKeyFor
Nobody   == [vol |-> 0, reused |-> FALSE, box |-> 0]

Init ==
  /\ pc = "databases" /\ cur = 1 /\ loop = TRUE /\ pend = Nobody
  /\ boxes = <<>> /\ cleaned = {} /\ refused = {}
  /\ handle = [s \in Services |-> 0] /\ prov = <<>> /\ backing = <<>>
  /\ ws = [s \in Services |-> [vol |-> 0, installed |-> 0]]
  /\ vols = {} /\ labelled = {} /\ content = <<>> /\ net = FALSE
  /\ heard = "nothing" /\ outcome = [s \in Services |-> "none"] /\ late = FALSE
  /\ want = [s \in Services |-> 1] /\ extras = 0 /\ faults = 0
  /\ stopped = FALSE
  /\ undo = [a \in Actors |-> "idle"] /\ at = [a \in Actors |-> 1]
  /\ busy = [a \in Actors |-> 0]

Fault == faults < MaxFaults /\ faults' = faults + 1

----------------------------------------------------------------------------
(* Containers, and what Docker does with them *)

NewBox(role, of, vol, sig, reused) ==
  [state |-> "created", role |-> role, of |-> of, vol |-> vol, sig |-> sig,
   reused |-> reused]

SetBox(b, s) == boxes' = [boxes EXCEPT ![b].state = s]

\* docker.stop and docker.remove, which may refuse: the container stays
StopAndRemove(b) ==
  \/ /\ SetBox(b, "gone")
     /\ UNCHANGED <<faults, refused>>
  \/ /\ boxes[b].state \in Held /\ Fault
     /\ refused' = refused \union {b}
     /\ UNCHANGED boxes

\* RunNetworks.forSession, where the rules cover the run's own network: it is
\* created when the run has none
JoinNetwork == net' = TRUE

\* Mutant: a marker counts whatever volume it ran in
MarkedAnywhere(b, mark) ==
  LET k == Key(boxes[b].of) IN
  /\ ws' = [ws EXCEPT ![k].installed = IF mark = "ok" THEN boxes[b].sig ELSE 0]
  /\ heard' = IF pc = "gate" /\ handle[cur] = b /\ heard = "nothing" THEN mark ELSE heard

\* The marker of a finished install reaches the workspace it ran in, and the
\* gate if it listens
Marked(b, mark) ==
  LET k == Key(boxes[b].of) IN
  /\ ws' = IF ws[k].vol = boxes[b].vol /\ boxes[b].vol # 0
           THEN [ws EXCEPT ![k].installed = IF mark = "ok" THEN boxes[b].sig ELSE 0]
           ELSE ws
  /\ heard' = IF pc = "gate" /\ handle[cur] = b /\ heard = "nothing" THEN mark ELSE heard

InstallOk(b) ==
  /\ boxes[b].state \in {"reusing", "installing"}
  /\ SetBox(b, "installed")
  /\ content' = IF boxes[b].state = "installing"
                THEN [content EXCEPT ![boxes[b].vol] = boxes[b].sig] ELSE content
  /\ Marked(b, "ok")
  /\ UNCHANGED <<pc, cur, loop, pend, outcome, want, extras, cleaned, refused, recVars,
                 vols, labelled, net, undoVars, late, faults, stopped>>

\* The wrapper prints its marker, and exits a moment later
InstallFailed(b) ==
  /\ boxes[b].state = "installing"
  /\ SetBox(b, "dying")
  /\ Marked(b, "failed")
  /\ UNCHANGED <<pc, cur, loop, pend, outcome, want, extras, cleaned, refused, recVars,
                 vols, labelled, content, net, undoVars, late, faults, stopped>>

Starts(b) ==
  /\ boxes[b].role = "service" /\ boxes[b].state = "installed"
  /\ SetBox(b, "up")
  /\ UNCHANGED <<runVars, cleaned, refused, recVars, diskVars, undoVars, late, faults,
                 stopped>>

\* A process that fails or is killed for memory
Dies(b) ==
  /\ boxes[b].role = "service"
  /\ boxes[b].state \in Live \ {"created"}
  /\ SetBox(b, "exited")
  /\ UNCHANGED <<runVars, cleaned, refused, recVars, diskVars, undoVars, late, faults,
                 stopped>>

Container == \E b \in Ids : InstallOk(b) \/ InstallFailed(b) \/ Starts(b) \/ Dies(b)

----------------------------------------------------------------------------
(* Undoing: run.cleanup, by the launch and by a teardown, and what a         *)
(* teardown releases after it                                               *)

Walking(a) == undo[a] \in {"cleanup", "teardown"}

Undo(a, how) ==
  /\ undo' = [undo EXCEPT ![a] = how]
  /\ at'   = [at EXCEPT ![a] = 1]
  /\ busy' = [busy EXCEPT ![a] = 0]

\* The database a cleanup that is past the services is at, or 0
BackingAt(a) ==
  IF at[a] > NumServices /\ at[a] - NumServices <= Len(backing)
  THEN backing[at[a] - NumServices] ELSE 0

\* The loops of ProjectRun.cleanup: every service, then every database
NextService(a) ==
  /\ Walking(a) /\ busy[a] = 0
  /\ at[a] <= NumServices
  /\ IF handle[at[a]] = 0 THEN
       /\ at' = [at EXCEPT ![a] = NumServices + 1]
       /\ UNCHANGED <<busy, cleaned>>
     ELSE IF handle[at[a]] \in cleaned THEN
       /\ at' = [at EXCEPT ![a] = @ + 1]
       /\ UNCHANGED <<busy, cleaned>>
     ELSE
       /\ busy' = [busy EXCEPT ![a] = handle[at[a]]]
       /\ cleaned' = cleaned \union {handle[at[a]]}
       /\ UNCHANGED at
  /\ UNCHANGED <<runVars, boxes, refused, recVars, diskVars, undo, late, faults, stopped>>

NextDatabase(a) ==
  /\ Walking(a) /\ busy[a] = 0 /\ BackingAt(a) # 0
  /\ busy' = [busy EXCEPT ![a] = BackingAt(a)]
  /\ UNCHANGED <<runVars, boxVars, recVars, diskVars, undo, at, late, faults, stopped>>

Removed(a) ==
  /\ Walking(a) /\ busy[a] # 0
  /\ StopAndRemove(busy[a])
  /\ busy' = [busy EXCEPT ![a] = 0]
  /\ at'   = [at EXCEPT ![a] = @ + 1]
  /\ UNCHANGED <<runVars, cleaned, recVars, diskVars, undo, late, stopped>>

WalkOver(a) == busy[a] = 0 /\ at[a] > NumServices /\ BackingAt(a) = 0

\* What the launch throws ends in SessionManager.run, which tears the session
\* down - also after a stop, whose own teardown may have forgotten the run
ThrowToSession ==
  Undo("launch", IF undo["stop"] \in {"idle", "teardown"} THEN "teardown" ELSE "volumes")

CleanupOver ==
  /\ undo["launch"] = "cleanup" /\ WalkOver("launch")
  /\ ThrowToSession
  /\ UNCHANGED <<runVars, boxVars, recVars, diskVars, late, faults, stopped>>

CleanedUp(a) ==
  /\ undo[a] = "teardown" /\ WalkOver(a)
  /\ Undo(a, "volumes")
  /\ UNCHANGED <<runVars, boxVars, recVars, diskVars, late, faults, stopped>>

\* ExecutionManager.releaseWorkspaces removes the volumes labelled with the
\* session; Docker keeps one still mounted
ReleaseWorkspaces(a) ==
  /\ undo[a] = "volumes"
  /\ ws' = [s \in Services |-> [vol |-> 0, installed |-> 0]]
  /\ vols' = vols \ (labelled \ Mounted)
  /\ labelled' = labelled \intersect Mounted
  /\ undo' = [undo EXCEPT ![a] = "network"]
  /\ UNCHANGED <<runVars, boxVars, recVars, content, net, at, busy, late, faults, stopped>>

\* RunNetworks.release: kept while a container of the session exists ...
ReleaseNetwork(a) ==
  /\ undo[a] = "network"
  /\ undo' = [undo EXCEPT ![a] = IF net /\ \A b \in Ids : boxes[b].state \notin Held
                                 THEN "unused" ELSE "done"]
  /\ UNCHANGED <<runVars, boxVars, recVars, diskVars, at, busy, late, faults, stopped>>

\* ... and Docker keeps one that a running container has joined since
RemoveNetwork(a) ==
  /\ undo[a] = "unused"
  /\ net' = IF \E b \in Ids : boxes[b].state \in Live \ {"created"} THEN net ELSE FALSE
  /\ undo' = [undo EXCEPT ![a] = "done"]
  /\ UNCHANGED <<runVars, boxVars, recVars, ws, vols, labelled, content, at, busy, late, faults,
                 stopped>>

TornDown ==
  /\ undo["launch"] = "done"
  /\ pc # "over"
  /\ pc' = "over"
  /\ UNCHANGED <<cur, loop, pend, heard, outcome, want, extras, boxVars, recVars,
                 diskVars, undoVars, late, faults, stopped>>

Undoing(a) == \/ NextService(a) \/ NextDatabase(a) \/ Removed(a)
              \/ CleanedUp(a) \/ ReleaseWorkspaces(a) \/ ReleaseNetwork(a)
              \/ RemoveNetwork(a)

\* SessionManager.stop, at any moment before the session has failed
Stop ==
  /\ ~stopped /\ undo["launch"] \in {"idle", "cleanup"} /\ pc # "over"
  /\ stopped' = TRUE
  /\ Undo("stop", "teardown")
  /\ UNCHANGED <<runVars, boxVars, recVars, diskVars, late, faults>>

----------------------------------------------------------------------------
(* The launch ends early *)

\* The catch around a step, and halt once the run was stopped
Abort ==
  /\ Undo("launch", "cleanup")
  /\ pc' = "ending" /\ pend' = Nobody /\ heard' = "nothing"
  /\ UNCHANGED <<cur, loop, outcome, want, extras>>

\* An error in verification, outside the launch's own catch
Fail ==
  /\ ThrowToSession
  /\ pc' = "ending" /\ pend' = Nobody /\ heard' = "nothing"
  /\ UNCHANGED <<cur, loop, outcome, want, extras>>

Throw == IF loop THEN Abort ELSE Fail

Goto(p) == pc' = p /\ UNCHANGED <<cur, loop, pend, heard, outcome, want, extras, undoVars>>

----------------------------------------------------------------------------
(* Databases: BackingProvisioner.provision *)

Database == Len(prov) + 1   \* the one being started

CreateDatabase ==
  /\ pc = "databases" /\ Database <= NumDbs
  /\ \/ /\ JoinNetwork
        /\ boxes' = Append(boxes, NewBox("database", Database, 0, 0, FALSE))
        /\ pend' = [Nobody EXCEPT !.box = Len(boxes) + 1, !.reused = pend.reused]
        /\ pc' = "database"
        /\ UNCHANGED <<cur, loop, heard, outcome, want, extras, faults>>
     \/ /\ Fault /\ Goto("unprovision")
        /\ UNCHANGED <<boxes, net>>
  /\ UNCHANGED <<cleaned, refused, recVars, ws, vols, labelled, content, undoVars, late, stopped>>

\* A start that Docker refuses leaves the container created and unrecorded
StartDatabase ==
  /\ pc = "database"
  /\ \/ SetBox(pend.box, "up") /\ Goto("answering") /\ UNCHANGED faults
     \/ Fault /\ Goto("unprovision") /\ UNCHANGED boxes
  /\ UNCHANGED <<cleaned, refused, recVars, diskVars, late, stopped>>

\* waitForReady, then the fallback to the stock image: pend.reused says that
\* the image the repository named has been given up
DatabaseReady ==
  /\ pc = "answering"
  /\ \/ /\ prov' = Append(prov, pend.box)
        /\ pend' = Nobody
        /\ boxes' \in {boxes, [boxes EXCEPT ![pend.box].state = "exited"]}
        /\ pc' = "databases"
        /\ UNCHANGED extras
     \/ /\ ~pend.reused /\ extras < MaxExtras
        /\ extras' = extras + 1
        /\ boxes' \in {boxes, [boxes EXCEPT ![pend.box].state = "exited"]}
        /\ pc' = "fallback"
        /\ UNCHANGED <<prov, pend>>
  /\ UNCHANGED <<cur, loop, heard, outcome, want, cleaned, refused, handle,
                 backing, diskVars, undoVars, late, faults, stopped>>

Fallback ==
  /\ pc = "fallback"
  /\ StopAndRemove(pend.box)
  /\ pend' = [Nobody EXCEPT !.reused = TRUE]
  /\ pc' = "databases"
  /\ UNCHANGED <<cur, loop, heard, outcome, want, extras, cleaned, recVars, diskVars,
                 undoVars, late, stopped>>

\* provision's own cleanup, the last recorded first, and the throw after it
Unprovision ==
  /\ pc = "unprovision"
  /\ IF prov = <<>> THEN Abort /\ UNCHANGED <<boxes, refused, prov, faults>>
     ELSE /\ StopAndRemove(Last(prov)) /\ prov' = Front(prov)
          /\ Goto("unprovision")
  /\ UNCHANGED <<cleaned, handle, backing, diskVars, late, stopped>>

Provisioned ==
  /\ pc = "databases" /\ Database > NumDbs
  /\ backing' = prov
  /\ Goto("provisioned")
  /\ UNCHANGED <<boxVars, handle, prov, diskVars, late, faults, stopped>>

----------------------------------------------------------------------------
(* Services, one after another *)

\* halt between the steps; the run's ports and addresses are chosen here
Begin ==
  /\ pc \in {"provisioned", "next"}
  /\ IF stopped THEN Abort
     ELSE IF cur > NumServices THEN
       /\ pc' = "ready" /\ loop' = FALSE
       /\ UNCHANGED <<cur, pend, heard, outcome, want, extras, undoVars>>
     ELSE Goto("launch")
  /\ UNCHANGED <<boxVars, recVars, diskVars, late, faults, stopped>>

\* ExecutionManager.workspaceFor: a finished install of the same signature, or
\* a fresh volume, the previous one removed unless something mounts it
Workspace ==
  /\ pc = "launch"
  /\ JoinNetwork
  /\ LET k == Key(cur)
         old == ws[k].vol
         new == Len(content) + 1
     IN IF old # 0 /\ ws[k].installed = want[cur] THEN
          /\ pend' = [vol |-> old, reused |-> TRUE, box |-> 0]
          /\ UNCHANGED <<ws, vols, labelled, content>>
        ELSE
          /\ pend' = [vol |-> new, reused |-> FALSE, box |-> 0]
          /\ ws' = [ws EXCEPT ![k] = [vol |-> new, installed |-> 0]]
          /\ vols' = (vols \ ({old} \ Mounted)) \union {new}
          /\ labelled' = (labelled \ ({old} \ Mounted)) \union {new}
          /\ content' = Append(content, 0)
  /\ pc' = "create"
  /\ UNCHANGED <<cur, loop, heard, outcome, want, extras, boxVars, recVars, undoVars,
                 late, faults, stopped>>

\* A volume removed meanwhile is created again by mounting it, empty and unlabelled
CreateService ==
  /\ pc = "create"
  /\ \/ /\ boxes' = Append(boxes, NewBox("service", cur, pend.vol, want[cur], pend.reused))
        /\ pend' = [pend EXCEPT !.box = Len(boxes) + 1]
        /\ vols' = vols \union {pend.vol}
        /\ content' = IF pend.vol \in vols THEN content ELSE [content EXCEPT ![pend.vol] = 0]
        /\ pc' = "start"
        /\ UNCHANGED <<cur, loop, heard, outcome, want, extras, undoVars, faults>>
     \/ Fault /\ Throw /\ UNCHANGED <<boxes, vols, content>>
  /\ UNCHANGED <<cleaned, refused, recVars, ws, labelled, net, late, stopped>>

\* A container that cannot be populated or started is removed before the throw
StartService ==
  /\ pc = "start"
  /\ \/ /\ net
        /\ SetBox(pend.box, IF pend.reused THEN "reusing" ELSE "installing")
        /\ Goto("launched")
        /\ UNCHANGED <<cleaned, refused, faults>>
     \/ /\ IF ~net THEN UNCHANGED faults ELSE Fault
        /\ cleaned' = cleaned \union {pend.box}
        /\ Goto("drop")
        /\ UNCHANGED <<boxes, refused>>
  /\ UNCHANGED <<recVars, diskVars, late, stopped>>

Drop ==
  /\ pc = "drop"
  /\ StopAndRemove(pend.box)
  /\ Throw
  /\ UNCHANGED <<cleaned, recVars, diskVars, late, stopped>>

\* Mutant: the last two services are not kept apart
LaunchedUngated ==
  /\ pc = "launched"
  /\ handle' = [handle EXCEPT ![cur] = pend.box]
  /\ IF stopped /\ handle[cur] = 0 THEN Abort
     ELSE IF stopped THEN Goto("unrestart")
     ELSE /\ pend' = Nobody
          /\ IF ~loop THEN pc' = "ready" /\ UNCHANGED cur
             ELSE IF Shared /\ cur + 1 < NumServices THEN pc' = "gate" /\ UNCHANGED cur
             ELSE pc' = "next" /\ cur' = cur + 1
          /\ UNCHANGED <<loop, heard, outcome, want, extras, undoVars>>
  /\ UNCHANGED <<boxVars, prov, backing, diskVars, late, faults, stopped>>

\* Mutant: a stop is not looked for once a service has been created
LaunchedUnhalted ==
  /\ pc = "launched"
  /\ handle' = [handle EXCEPT ![cur] = pend.box]
  /\ pend' = Nobody
  /\ IF ~loop THEN pc' = "ready" /\ UNCHANGED cur
     ELSE IF Shared /\ cur < NumServices THEN pc' = "gate" /\ UNCHANGED cur
     ELSE pc' = "next" /\ cur' = cur + 1
  /\ UNCHANGED <<loop, heard, outcome, want, extras, undoVars>>
  /\ UNCHANGED <<boxVars, prov, backing, diskVars, late, faults, stopped>>

\* The run has the service: its handle is recorded, or the restart's replaced
Launched ==
  /\ pc = "launched"
  /\ handle' = [handle EXCEPT ![cur] = pend.box]
  /\ IF stopped /\ handle[cur] = 0 THEN Abort
     ELSE IF stopped THEN Goto("unrestart")
     ELSE /\ pend' = Nobody
          /\ IF ~loop THEN pc' = "ready" /\ UNCHANGED cur
             ELSE IF Shared /\ cur < NumServices THEN pc' = "gate" /\ UNCHANGED cur
             ELSE pc' = "next" /\ cur' = cur + 1
          /\ UNCHANGED <<loop, heard, outcome, want, extras, undoVars>>
  /\ UNCHANGED <<boxVars, prov, backing, diskVars, late, faults, stopped>>

\* ServiceRun.restart: the old container first, whose refusal is no reason to stop
Restart(s, sig) ==
  /\ extras < MaxExtras
  /\ extras' = extras + 1
  /\ cur' = s
  /\ want' = [want EXCEPT ![s] = sig]
  /\ outcome' = [outcome EXCEPT ![s] = "none"]
  /\ IF handle[s] \in cleaned
     THEN pc' = "launch" /\ UNCHANGED cleaned
     ELSE pc' = "replace" /\ cleaned' = cleaned \union {handle[s]}
  /\ UNCHANGED <<loop, pend, heard, undoVars>>

Replace ==
  /\ pc = "replace"
  /\ StopAndRemove(handle[cur])
  /\ Goto("launch")
  /\ UNCHANGED <<cleaned, recVars, diskVars, late, stopped>>

\* Mutant: the replacement a stop raced is left to the teardown
UnrestartLeaves ==
  /\ pc = "unrestart"
  /\ Throw
  /\ UNCHANGED <<cleaned, boxes, refused, faults, recVars, diskVars, late, stopped>>

\* A stop arrived while the replacement was being made
Unrestart ==
  /\ pc = "unrestart"
  /\ IF pend.box \in cleaned THEN Throw /\ UNCHANGED <<cleaned, boxes, refused, faults>>
     ELSE /\ cleaned' = cleaned \union {pend.box}
          /\ Goto("drop")
          /\ UNCHANGED <<boxes, refused, faults>>
  /\ UNCHANGED <<recVars, diskVars, late, stopped>>

----------------------------------------------------------------------------
(* The install gate: waitForInstall and onInstallDied *)

Exited(s) == boxes[handle[s]].state \in {"exited", "gone"}
Running(s) == boxes[handle[s]].state \in {"installing", "reusing"}

Proceed == /\ pc' = "next" /\ cur' = cur + 1 /\ heard' = "nothing"
           /\ UNCHANGED <<loop, pend, outcome, want, extras, undoVars>>

Died == /\ pc' = "died" /\ heard' = "nothing"
        /\ UNCHANGED <<cur, loop, pend, outcome, want, extras, undoVars>>

\* Mutant: the gate waits for an answer however long it takes
GateForever ==
  /\ pc = "gate"
  /\ \/ heard = "ok" /\ Proceed
     \/ heard = "failed" /\ Died
     \/ heard = "nothing" /\ Exited(cur) /\ Died
     \/ heard = "nothing" /\ stopped /\ Abort
  /\ UNCHANGED <<boxVars, recVars, diskVars, late, faults, stopped>>

Gate ==
  /\ pc = "gate"
  /\ \/ heard = "ok" /\ Proceed /\ UNCHANGED late
     \/ heard = "failed" /\ Died /\ UNCHANGED late
     \/ heard = "nothing" /\ Exited(cur) /\ Died /\ UNCHANGED late
     \/ heard = "nothing" /\ stopped /\ Abort /\ UNCHANGED late
     \/ heard = "nothing" /\ Proceed /\ late' = (late \/ Running(cur))
  /\ UNCHANGED <<boxVars, recVars, diskVars, faults, stopped>>

\* settledLiveness has waited for the container to stop, or long enough; memory
\* may be raised and the service restarted, or be all there is - then the rest
\* is not started
InstallDied ==
  /\ pc = "died"
  /\ \/ Restart(cur, want[cur])
     \/ Proceed /\ UNCHANGED cleaned
     \/ /\ pc' = "ready" /\ loop' = FALSE
        /\ UNCHANGED <<cur, pend, heard, outcome, want, extras, undoVars, cleaned>>
  /\ UNCHANGED <<boxes, refused, recVars, diskVars, late, faults, stopped>>

----------------------------------------------------------------------------
(* Readiness, and repairs that restart one service *)

Started == {s \in Services : handle[s] # 0}

\* A service answers, has ended, or has used its time
Readiness(s) ==
  /\ pc = "ready" /\ outcome[s] = "none"
  /\ \/ /\ boxes[handle[s]].state = "up"
        /\ outcome' = [outcome EXCEPT ![s] = "ready"]
        /\ UNCHANGED late
     \/ /\ outcome' = [outcome EXCEPT ![s] = "failed"]
        /\ late' = (late \/ Running(s))
  /\ UNCHANGED <<pc, cur, loop, pend, heard, want, extras, boxVars, recVars, diskVars,
                 undoVars, faults, stopped>>

Verified ==
  /\ pc = "ready"
  /\ \A s \in Started : outcome[s] # "none"
  /\ \/ stopped /\ Fail /\ UNCHANGED cleaned
     \/ ~stopped /\ (\A s \in Started : outcome[s] = "ready") /\ Goto("serving") /\ UNCHANGED cleaned
     \/ ~stopped /\ \E s \in Started : outcome[s] = "failed" /\ \E sig \in Installs : Restart(s, sig)
     \/ ~stopped /\ (\E s \in Started : outcome[s] = "failed") /\ Fail /\ UNCHANGED cleaned
  /\ UNCHANGED <<boxes, refused, recVars, diskVars, late, faults, stopped>>

----------------------------------------------------------------------------
Launch == \/ CreateDatabase \/ StartDatabase \/ DatabaseReady \/ Fallback \/ Unprovision
          \/ Provisioned \/ Begin \/ Workspace \/ CreateService \/ StartService \/ Drop
          \/ Launched \/ Replace \/ Unrestart \/ Gate \/ InstallDied
          \/ (\E s \in Started : Readiness(s)) \/ Verified
          \/ CleanupOver \/ TornDown

Next == Launch \/ Container \/ Stop \/ \E a \in Actors : Undoing(a)

Spec == Init /\ [][Next]_vars

\* The launch and what undoes it go on: every call to Docker returns, and every
\* wait has a timer.  Nothing is asked of the containers
Fairness == WF_vars(Launch) /\ \A a \in Actors : WF_vars(Undoing(a))

FairSpec == Spec /\ Fairness

----------------------------------------------------------------------------
(* Properties *)

LaunchOver == pc = "over" /\ (stopped => undo["stop"] = "done")

\* When a launch that failed or was stopped has been undone, no container of it
\* runs, whatever was being started, restarted or removed when the stop came;
\* but for one Docker refused to remove, and one it refused to start
NothingKeepsRunning ==
  LaunchOver => \A b \in Ids : boxes[b].state \in {"gone", "created"} \/ b \in refused

\* Services that install one workspace do so one at a time - also after a death
\* in the gate and a restart - unless an install was given up on while it ran
InstallsTakeTurns ==
  Shared /\ ~late =>
    Cardinality({b \in Ids : boxes[b].state = "installing"}) <= 1

\* A container that skips its install mounts a workspace in which that very
\* install has finished, and in which no other container is installing
ReusedIsInstalled ==
  \A b \in Ids :
    boxes[b].reused /\ boxes[b].state \in Live /\ ~stopped =>
      /\ content[boxes[b].vol] = boxes[b].sig
      /\ \A c \in Ids : boxes[c].vol = boxes[b].vol => boxes[c].state # "installing"

\* A database outlives the services that use it: what the order of a cleanup is for
DatabasesLast ==
  \A d \in Range(backing) :
    boxes[d].state = "gone" =>
      \A s \in Services :
        handle[s] # 0 => boxes[handle[s]].state \in {"exited", "gone"} \/ handle[s] \in refused

\* Teardown removes every volume the session made
NoVolumeLeft == LaunchOver => vols = {} \/ refused # {}

\* Every launch comes to an end, however its containers behave
LaunchEnds == <>(pc \in {"serving", "over"})

\* A stop ends with every container of the launch gone
StopReleases ==
  stopped ~> \A b \in Ids : boxes[b].state \in {"gone", "created"} \/ b \in refused

=============================================================================
