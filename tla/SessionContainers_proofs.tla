----------------------- MODULE SessionContainers_proofs -----------------------
(***************************************************************************)
(* What a session has in Docker and on disk, and who is left to remove it: *)
(* one running container, the one its page names, and nothing at the end.  *)
(*                                                                         *)
(* All of it is said of sessions the startup bound has not abandoned: that *)
(* bound does not mark the session, and its pipeline goes on.              *)
(***************************************************************************)
EXTENDS SessionLifecycle_proofs

-----------------------------------------------------------------------------
\* The inductive invariant, in parts

Over(s) == state[s] \in TerminalStates \cup {"CLEANING_UP"}

\* Steps of the pipeline before there is a plan.
Early == {"docker", "clone", "analyse", "plan"}

\* Nothing of the session's has been made.
Bare(s) ==
  kind[s] = "none" /\ launches[s] = 0 /\ handle[s] = 0 /\ ~run[s] /\ ~dbs[s]

\* A container is between its creation and its owner's knowing of it; or it is
\* known, and somebody looks at it.
Launching(s) == pipe[s] \in {"launch", "relaunch"} \/ rst[s] = "launch"
Watching(s) ==
  Serving(s) \/ pipe[s] \in {"ready", "diagnose", "smoke"} \/ rst[s] \in {"ready", "smoke"}

\* A session that ends without having been stopped has no driver, and no teardown
\* runs beside a session that goes on.
Endings(s) ==
  /\ Over(s) /\ ~stopped[s] => NobodyDrives(s)
  /\ (\E e \in Owners : td[s][e] # "idle") => Over(s)

\* Where a project's run must be at hand.
NeedsRun(s) ==
  \/ pipe[s] \in {"provision", "create", "launch", "ready", "diagnose", "repair", "recreate",
                  "relaunch", "smoke", "asking"}
  \/ rst[s] # "idle"
  \/ Serving(s)

\* What the session has, by where it is.
Planned(s) ==
  /\ pipe[s] \in Early => Bare(s)
  /\ pipe[s] = "docker" => ~clone[s]
  /\ pipe[s] \notin Early \cup {"idle"} => kind[s] # "none"
  /\ pipe[s] \in {"recreate", "relaunch", "undo"} \/ rst[s] # "idle" => kind[s] = "project"
  /\ state[s] = NoSession => Bare(s) /\ ~clone[s] /\ ~stopped[s]
  /\ state[s] = "AWAITING_INPUT" =>
       IF asked[s] = "choice" THEN Bare(s)
       ELSE kind[s] # "none" /\ handle[s] = 0 /\ ~run[s] /\ (dbs[s] => kind[s] = "single")
  /\ kind[s] = "none" => handle[s] = 0 /\ ~dbs[s]
  /\ run[s] => kind[s] = "project"
  /\ ~stopped[s] /\ kind[s] = "project" /\ NeedsRun(s) => run[s]
  /\ dbs[s] /\ kind[s] = "project" => run[s] \/ pipe[s] = "undo"

\* A teardown waits for what a session of its kind has.
Waits(s) ==
  \A e \in Owners : /\ td[s][e] = "run" => kind[s] = "project"
                    /\ td[s][e] \in {"handle", "backing"} => kind[s] = "single"

\* A running container is the newest one, and somebody knows of it.
Placed(s) ==
  \A n \in Boxes : box[s][n] = "live" =>
    /\ n = launches[s]
    /\ Launching(s) \/ (Watching(s) /\ n = Held(s) /\ ~Over(s))

\* What somebody looks at, or is about to name, runs.
Running(s) ==
  ~stopped[s] =>
    /\ Watching(s) => handle[s] # 0 /\ box[s][handle[s]] = "live"
    /\ Launching(s) => launches[s] # 0 /\ box[s][launches[s]] = "live"

\* A container that is being removed has somebody who waits for it.
Swept(s) ==
  /\ \A n \in Boxes : box[s][n] = "sweeping" => \E e \in Owners : tgt[s][e] = n
  /\ \A e \in Owners : tgt[s][e] # 0 =>
       \/ td[s][e] \in {"run", "handle"}
       \/ e = "pipeline" /\ pipe[s] \in {"repair", "asking", "undo", "drop"}
       \/ e = "restart" /\ rst[s] \in {"cleaning", "drop", "throw"}

\* Whatever a session that is over still has, a teardown is on its way to it; the
\* clone of a choice resolved without a package is the exception.
Given(s) ==
  Over(s) =>
    /\ dbs[s] /\ kind[s] = "single" => \E e \in Owners : td[s][e] \in {"handle", "backing"}
    /\ run[s] => \E e \in Owners : td[s][e] = "run"
    /\ clone[s] => \/ \E e \in Owners : td[s][e] # "idle"
                   \/ ~stopped[s] /\ kind[s] = "none" /\ asked[s] = "choice"

BoxInv(s) ==
  /\ Endings(s) /\ Planned(s) /\ Waits(s)
  /\ Placed(s) /\ Running(s) /\ Swept(s) /\ Given(s)

BoxesInv == \A s \in Sessions : Sound(s) => BoxInv(s)

-----------------------------------------------------------------------------
\* The pieces of the actions, session by session

\* Chain e's removal is over, and it goes on to container n.
SweptBy(s, e, n) ==
  /\ \A m \in Boxes : box'[s][m] = "live" <=> box[s][m] = "live" /\ m # tgt[s][e] /\ m # n
  /\ \A m \in Boxes : box'[s][m] = "sweeping" =>
       m = tgt'[s][e] \/ (box[s][m] = "sweeping" /\ m # tgt[s][e])
  /\ tgt'[s][e] \in {0, n}
  /\ \A f \in Owners \ {e} : tgt'[s][f] = tgt[s][f]

\* Chain e begins a teardown.
TornBy(s, e) ==
  /\ td'[s][e] = IF run'[s] THEN "run"
                 ELSE IF Held(s)' # 0 THEN "handle" ELSE AfterContainers(s)'
  /\ \A f \in Owners \ {e} : td'[s][f] = td[s][f]
  /\ SweptBy(s, e, Held(s)')

\* Chain e does no more than sweep container n.
GoesBy(s, e, n) == td'[s] = td[s] /\ SweptBy(s, e, n)

\* No container is touched.
Untouched(s) == td'[s] = td[s] /\ tgt'[s] = tgt[s] /\ box'[s] = box[s]

\* Sweeping, session by session.
LEMMA SweepAt ==
  ASSUME TypeOK, NEW s \in Sessions, NEW e \in Owners, NEW n, Sweep(s, e, n)
  PROVE  /\ SweptBy(s, e, n)
         /\ \A r \in Sessions \ {s} : box'[r] = box[r] /\ tgt'[r] = tgt[r]
<1> DEFINE b == [m \in Boxes |->
                   IF m = tgt[s][e] THEN "gone"
                   ELSE IF m = n /\ box[s][m] = "live" THEN "sweeping" ELSE box[s][m]]
           t == IF \E m \in Boxes : m = n /\ box[s][m] = "live" THEN n ELSE 0
<1>1. box' = [box EXCEPT ![s] = b] /\ tgt' = [tgt EXCEPT ![s][e] = t]
  BY DEF Sweep
<1>2. /\ box'[s] = b /\ \A r \in Sessions \ {s} : box'[r] = box[r]
  <2> HIDE DEF b
  <2> QED BY <1>1 DEF TypeOK
<1>3. /\ tgt'[s][e] = t /\ \A f \in Owners \ {e} : tgt'[s][f] = tgt[s][f]
      /\ \A r \in Sessions \ {s} : tgt'[r] = tgt[r]
  <2> HIDE DEF t
  <2> QED BY <1>1 DEF TypeOK
<1> QED BY <1>2, <1>3 DEF SweptBy

\* A teardown's first step, session by session.
LEMMA TearAt ==
  ASSUME TypeOK, NEW s \in Sessions, NEW e \in Owners, BeginTeardown(s, e)
  PROVE  /\ TornBy(s, e)
         /\ \A r \in Sessions \ {s} : box'[r] = box[r] /\ tgt'[r] = tgt[r] /\ td'[r] = td[r]
<1>1. Sweep(s, e, Held(s)')
  BY DEF BeginTeardown
<1>2. td'[s][e] = IF run'[s] THEN "run"
                  ELSE IF Held(s)' # 0 THEN "handle" ELSE AfterContainers(s)'
  BY DEF TypeOK, BeginTeardown
<1> QED BY <1>1, <1>2, SweepAt, BeginTeardownDrives DEF TornBy

\* A new container, session by session.
LEMMA NewBoxAt ==
  ASSUME TypeOK, NEW s \in Sessions, NewBox(s)
  PROVE  /\ launches'[s] = launches[s] + 1 /\ launches'[s] \in Boxes
         /\ \A m \in Boxes : box'[s][m] = IF m = launches'[s] THEN "live" ELSE box[s][m]
         /\ \A r \in Sessions \ {s} : box'[r] = box[r] /\ launches'[r] = launches[r]
<1>1. launches'[s] = launches[s] + 1 /\ \A r \in Sessions \ {s} : launches'[r] = launches[r]
  BY DEF TypeOK, NewBox
<1>2. launches[s] + 1 \in Boxes
  BY ConstantsAssumption DEF TypeOK, NewBox, Boxes
<1> QED BY <1>1, <1>2 DEF TypeOK, NewBox

-----------------------------------------------------------------------------
\* A teardown keeps the invariant

\* The types of one session's state.
LEMMA TypesAt ==
  ASSUME TypeOK, NEW s \in Sessions
  PROVE  /\ state[s] \in ExecutionState \cup {NoSession}
         /\ stopped[s] \in BOOLEAN /\ abandoned[s] \in BOOLEAN
         /\ pipe[s] \in PipeSteps /\ rst[s] \in RestartSteps
         /\ kind[s] \in {"none", "single", "project"}
         /\ asked[s] \in {"none", "choice", "env", "crash"}
         /\ launches[s] \in Nat /\ handle[s] \in Nat
         /\ run[s] \in BOOLEAN /\ dbs[s] \in BOOLEAN /\ clone[s] \in BOOLEAN
         /\ \A n \in Boxes : n # 0 /\ box[s][n] \in BoxStates
         /\ \A e \in Owners : td[s][e] \in TeardownSteps /\ tgt[s][e] \in Nat
  BY ConstantsAssumption DEF TypeOK, Boxes

\* Chain e begins a teardown of a session that is over: what is not being launched is
\* being removed then, and what is left of the session is left to the teardown.
LEMMA TearKeeps ==
  ASSUME TypeOK, TypeOK', NEW s \in Sessions, NEW e \in Owners, BoxInv(s),
         TornBy(s, e), Over(s)', ~stopped'[s] => NobodyDrives(s)', Planned(s)',
         kind'[s] = kind[s],
         pipe'[s] = pipe[s] \/ e = "pipeline", rst'[s] = rst[s] \/ e = "restart",
         \A n \in Boxes : box[s][n] = "live" /\ n # Held(s)' =>
           n = launches'[s] /\ Launching(s)'
  PROVE  BoxInv(s)'
<1>0. /\ Endings(s)' /\ ~Serving(s)'
  BY DEF Endings, Over, Serving, ServingStates, TerminalStates
<1>1. Waits(s)'
  <2>1. /\ kind'[s] \in {"none", "single", "project"}
        /\ Held(s)' # 0 => kind'[s] # "none"
    BY TypesAt DEF Planned, Held, TypeOK
  <2>2. /\ td'[s][e] = "run" => kind'[s] = "project"
        /\ td'[s][e] \in {"handle", "backing"} => kind'[s] = "single"
    BY <2>1 DEF TornBy, AfterContainers, Planned, Held
  <2>3. \A f \in Owners \ {e} : /\ td'[s][f] = "run" => kind'[s] = "project"
                                /\ td'[s][f] \in {"handle", "backing"} => kind'[s] = "single"
    BY DEF TornBy, BoxInv, Waits
  <2> QED BY <2>2, <2>3 DEF Waits
<1>2. Placed(s)'
  BY DEF TornBy, SweptBy, Placed
<1>3. Running(s)'
  BY <1>0 DEF Running, NobodyDrives, Watching, Launching
<1>4. Swept(s)'
  <2>1. ASSUME NEW m \in Boxes, box'[s][m] = "sweeping" PROVE \E f \in Owners : tgt'[s][f] = m
    <3>1. CASE m = tgt'[s][e]
      BY <3>1
    <3>2. CASE box[s][m] = "sweeping" /\ m # tgt[s][e]
      BY <3>2 DEF BoxInv, Swept, TornBy, SweptBy
    <3> QED BY <2>1, <3>1, <3>2 DEF TornBy, SweptBy
  <2>2. tgt'[s][e] # 0 => td'[s][e] \in {"run", "handle"}
    BY DEF TornBy, SweptBy
  <2>3. ASSUME NEW f \in Owners \ {e}, tgt'[s][f] # 0
        PROVE  \/ td'[s][f] \in {"run", "handle"}
               \/ f = "pipeline" /\ pipe'[s] \in {"repair", "asking", "undo", "drop"}
               \/ f = "restart" /\ rst'[s] \in {"cleaning", "drop", "throw"}
    BY <2>3 DEF BoxInv, Swept, TornBy, SweptBy
  <2> QED BY <2>1, <2>2, <2>3 DEF Swept
<1>5. Given(s)'
  <2>1. td'[s][e] # "idle"
    BY DEF TornBy, AfterContainers
  <2>2. run'[s] => td'[s][e] = "run"
    BY DEF TornBy
  <2>3. dbs'[s] /\ kind'[s] = "single" => td'[s][e] \in {"handle", "backing"}
    BY DEF TornBy, AfterContainers, Planned
  <2> QED BY <2>1, <2>2, <2>3 DEF Given
<1> QED BY <1>0, <1>1, <1>2, <1>3, <1>4, <1>5 DEF BoxInv

-----------------------------------------------------------------------------
\* A step of a driver keeps the invariant

\* Where a driver leaves the container it sweeps.
Sweeps(s, e) ==
  \/ e = "pipeline" /\ pipe'[s] \in {"repair", "asking", "undo", "drop"}
  \/ e = "restart" /\ rst'[s] \in {"cleaning", "drop", "throw"}

\* A driver goes on, sweeping container n or none: no container it leaves running is
\* lost sight of, and a session that is over gains nothing nobody will remove.
LEMMA GoesKeeps ==
  ASSUME TypeOK, TypeOK', NEW s \in Sessions, NEW e \in {"pipeline", "restart"}, NEW n,
         BoxInv(s), GoesBy(s, e, n), Endings(s)', Planned(s)', Running(s)',
         kind'[s] = kind[s] \/ kind[s] = "none", stopped'[s] = stopped[s],
         pipe'[s] = pipe[s] \/ e = "pipeline", rst'[s] = rst[s] \/ e = "restart",
         n = 0 \/ Sweeps(s, e),
         \A m \in Boxes : box[s][m] = "live" /\ m # n =>
           m = launches'[s] /\ (Launching(s)' \/ (Watching(s)' /\ m = Held(s)' /\ ~Over(s)')),
         Over(s)' =>
           \/ ~clone'[s] /\ ~dbs'[s] /\ ~run'[s]
           \/ /\ Over(s) /\ stopped[s] /\ (run'[s] => run[s]) /\ (clone'[s] => clone[s])
              /\ dbs'[s] /\ kind'[s] = "single" => dbs[s] /\ kind[s] = "single"
  PROVE  BoxInv(s)'
<1>1. Waits(s)'
  BY DEF BoxInv, Waits, GoesBy
<1>2. Placed(s)'
  BY DEF GoesBy, SweptBy, Placed
<1>3. Swept(s)'
  <2>1. ASSUME NEW m \in Boxes, box'[s][m] = "sweeping" PROVE \E f \in Owners : tgt'[s][f] = m
    <3>1. e \in Owners
      BY DEF Owners
    <3>2. CASE m = tgt'[s][e]
      BY <3>1, <3>2
    <3>3. CASE box[s][m] = "sweeping" /\ m # tgt[s][e]
      BY <3>3 DEF BoxInv, Swept, GoesBy, SweptBy
    <3> QED BY <2>1, <3>2, <3>3 DEF GoesBy, SweptBy
  <2>2. tgt'[s][e] # 0 => Sweeps(s, e)
    BY DEF GoesBy, SweptBy
  <2>3. ASSUME NEW f \in Owners \ {e}, tgt'[s][f] # 0
        PROVE  \/ td'[s][f] \in {"run", "handle"}
               \/ f = "pipeline" /\ pipe'[s] \in {"repair", "asking", "undo", "drop"}
               \/ f = "restart" /\ rst'[s] \in {"cleaning", "drop", "throw"}
    BY <2>3 DEF BoxInv, Swept, GoesBy, SweptBy
  <2> QED BY <2>1, <2>2, <2>3 DEF Swept, Sweeps
<1>4. Given(s)'
  BY DEF Given, BoxInv, GoesBy
<1> QED BY <1>1, <1>2, <1>3, <1>4 DEF BoxInv

\* What a driver's step finds.  Where the session has been stopped it is over, and
\* else nothing of it is being torn down.
LEMMA DrivingAt ==
  ASSUME TypeOK, NEW s \in Sessions, DriverInv(s), BoxInv(s), ~abandoned[s],
         pipe[s] # "idle" \/ rst[s] # "idle"
  PROVE  /\ pipe[s] = "idle" \/ rst[s] = "idle"
         /\ ~Serving(s) /\ state[s] \notin {"AWAITING_INPUT", NoSession}
         /\ stopped[s] => Over(s) /\ state[s] \in EndingStates
         /\ ~stopped[s] => ~Over(s) /\ \A e \in Owners : td[s][e] = "idle"
         /\ \A m \in Boxes : box[s][m] = "live" =>
              m = launches[s] /\ (Launching(s) \/ (m = Held(s) /\ Watching(s) /\ ~stopped[s]))
  BY StateFacts DEF DriverInv, NobodyDrives, BoxInv, Endings, Over, Serving, Placed, TypeOK

\* A driver that removes nothing finds nothing left of an earlier removal.
LEMMA NothingSwept ==
  ASSUME TypeOK, NEW s \in Sessions, DriverInv(s), BoxInv(s), ~abandoned[s], ~stopped[s],
         ~Over(s)
  PROVE  /\ pipe[s] \notin {"repair", "asking", "undo", "drop"} => tgt[s]["pipeline"] = 0
         /\ rst[s] \notin {"cleaning", "drop", "throw"} => tgt[s]["restart"] = 0
<1>1. "pipeline" \in Owners /\ "restart" \in Owners
  BY DEF Owners
<1>2. \A e \in Owners : td[s][e] = "idle"
  BY DEF BoxInv, Endings
<1> QED BY <1>1, <1>2 DEF BoxInv, Swept

\* The pieces of the pipeline's actions, session by session.
LEMMA PipeAt ==
  ASSUME TypeOK, NEW s \in Sessions
  PROVE  /\ \A st \in ExecutionState : EndPipeline(s, st) =>
              pipe'[s] = "idle" /\ state'[s] = StateAfter(s, st) /\ TornBy(s, "pipeline")
         /\ Bail(s) => pipe'[s] = "idle" /\ state'[s] = state[s] /\ TornBy(s, "pipeline")
         /\ \A st \in ExecutionState, step \in PipeSteps : Advance(s, st, step) =>
              pipe'[s] = step /\ state'[s] = StateAfter(s, st) /\ GoesBy(s, "pipeline", 0)
         /\ \A n \in 0..MaxLaunches, step \in PipeSteps : Remove(s, n, step) =>
              pipe'[s] = step /\ state'[s] = state[s] /\ GoesBy(s, "pipeline", n)
         /\ \A q \in {"choice", "env", "crash"} : AwaitInput(s, q) =>
              /\ pipe'[s] = "idle" /\ state'[s] = StateAfter(s, "AWAITING_INPUT")
              /\ asked'[s] = q /\ GoesBy(s, "pipeline", 0)
         /\ Repair(s) =>
              /\ pipe'[s] = "repair" /\ state'[s] = StateAfter(s, "REPAIRING")
              /\ GoesBy(s, "pipeline", Held(s))
<1>0. "pipeline" \in Owners /\ {"AWAITING_INPUT", "REPAIRING"} \subseteq ExecutionState
  BY DEF Owners, ExecutionState
<1> USE SetStateDrives DEF GoesBy
<1>1. ASSUME NEW st \in ExecutionState, EndPipeline(s, st)
      PROVE  pipe'[s] = "idle" /\ state'[s] = StateAfter(s, st) /\ TornBy(s, "pipeline")
  BY <1>0, <1>1, TearAt DEF EndPipeline, TypeOK
<1>2. ASSUME Bail(s)
      PROVE  pipe'[s] = "idle" /\ state'[s] = state[s] /\ TornBy(s, "pipeline")
  BY <1>0, <1>2, TearAt DEF Bail, TypeOK
<1>3. ASSUME NEW st \in ExecutionState, NEW step \in PipeSteps, Advance(s, st, step)
      PROVE  pipe'[s] = step /\ state'[s] = StateAfter(s, st) /\ GoesBy(s, "pipeline", 0)
  BY <1>0, <1>3, SweepAt DEF Advance, TypeOK
<1>4. ASSUME NEW n \in 0..MaxLaunches, NEW step \in PipeSteps, Remove(s, n, step)
      PROVE  pipe'[s] = step /\ state'[s] = state[s] /\ GoesBy(s, "pipeline", n)
  BY <1>0, <1>4, SweepAt DEF Remove, TypeOK
<1>5. ASSUME NEW q \in {"choice", "env", "crash"}, AwaitInput(s, q)
      PROVE  /\ pipe'[s] = "idle" /\ state'[s] = StateAfter(s, "AWAITING_INPUT")
             /\ asked'[s] = q /\ GoesBy(s, "pipeline", 0)
  BY <1>0, <1>5, SweepAt DEF AwaitInput, TypeOK
<1>6. ASSUME Repair(s)
      PROVE  /\ pipe'[s] = "repair" /\ state'[s] = StateAfter(s, "REPAIRING")
             /\ GoesBy(s, "pipeline", Held(s))
  BY <1>0, <1>6, SweepAt DEF Repair, TypeOK
<1> QED BY <1>1, <1>2, <1>3, <1>4, <1>5, <1>6

\* A driver gives up, or finishes: it tears down what it has.
LEMMA FinishKeeps ==
  ASSUME TypeOK, TypeOK', NEW s \in Sessions, NEW e \in {"pipeline", "restart"},
         NEW st \in {"FAILED", "COMPLETED"}, DriverInv(s), BoxInv(s), ~abandoned[s],
         pipe[s] # "idle" \/ rst[s] # "idle", NobodyDrives(s)',
         pipe'[s] = pipe[s] \/ e = "pipeline", rst'[s] = rst[s] \/ e = "restart",
         kind'[s] = kind[s], stopped'[s] = stopped[s], TornBy(s, e),
         state'[s] = StateAfter(s, st) \/ (stopped[s] /\ state'[s] = state[s]),
         run'[s] => run[s], dbs'[s] /\ kind[s] = "project" => run'[s],
         kind[s] = "none" => handle'[s] = 0 /\ ~dbs'[s],
         \A n \in Boxes : box[s][n] = "live" => n = Held(s)'
  PROVE  BoxInv(s)'
<1>1. Over(s)' /\ ~Serving(s)' /\ state'[s] \notin {"AWAITING_INPUT", NoSession}
  BY DrivingAt, StateFacts DEF Over, Serving, StateAfter
<1>2. Planned(s)'
  BY <1>1 DEF Planned, BoxInv, Early, NeedsRun, NobodyDrives
<1>3. e \in Owners
  BY DEF Owners
<1> QED BY <1>1, <1>2, <1>3, TearKeeps

\* What is left alone by every step of the pipeline.
LEMMA PipelineLeaves ==
  ASSUME NEW s \in Sessions, Pipeline(s)
  PROVE  stopped' = stopped /\ abandoned' = abandoned /\ rst' = rst
  BY DEF Pipeline, others, DockerReady, CloneDone, AnalyseDone, PlanDone, Validated,
         Provisioned, CreateContainer, Launched, Undone, Dropped, ReadyDone, Diagnosed,
         Asked, Repaired, Recreate, Relaunched, SmokeDone

\* Until there is a plan nothing is made but the clone.
LEMMA EarlyKeeps ==
  ASSUME TypeOK, TypeOK', NEW s \in Sessions, DriverInv(s), BoxInv(s), ~abandoned[s],
         DockerReady(s) \/ CloneDone(s) \/ AnalyseDone(s) \/ PlanDone(s)
  PROVE  BoxInv(s)'
<1> DEFINE Goal == BoxInv(s)'
<1> SUFFICES Goal
  OBVIOUS
<1>1. /\ pipe[s] \in Early /\ pipe[s] # "idle" /\ rst[s] = "idle"
      /\ rst' = rst /\ stopped' = stopped /\ abandoned' = abandoned
      /\ launches' = launches /\ handle' = handle /\ run' = run /\ dbs' = dbs
  BY DEF Early, DriverInv, DockerReady, CloneDone, AnalyseDone, PlanDone, others, held
<1>2. Bare(s) /\ \A n \in Boxes : n # 0 /\ box[s][n] # "live"
  BY <1>1, TypesAt DEF BoxInv, Planned, Placed, Bare
<1>3. /\ stopped[s] => Over(s) /\ state[s] \in EndingStates
      /\ ~Serving(s) /\ state[s] # NoSession /\ state[s] # "AWAITING_INPUT"
      /\ ~stopped[s] => ~Over(s) /\ \A e \in Owners : td[s][e] = "idle"
  BY <1>1, DrivingAt
<1>4. ASSUME NEW st \in {"FAILED"}, pipe'[s] = "idle", TornBy(s, "pipeline"), kind' = kind,
             state'[s] = StateAfter(s, st) \/ (stopped[s] /\ state'[s] = state[s])
      PROVE  Goal
  BY <1>1, <1>2, <1>4, FinishKeeps DEF Bare, NobodyDrives
<1>5. ASSUME NEW step \in {"idle", "clone", "analyse", "plan", "validate"}, pipe'[s] = step,
             GoesBy(s, "pipeline", 0),
             kind' = kind \/ (kind'[s] # "none" /\ step \in {"idle", "validate"}),
             step = "validate" => kind'[s] # "none",
             stopped[s] => state'[s] = state[s] /\ (clone'[s] => clone[s]),
             ~stopped[s] =>
               \/ state'[s] \in {"CLONING", "ANALYZING", "PLANNING", "VALIDATING"}
               \/ /\ state'[s] = "AWAITING_INPUT" /\ step = "idle"
                  /\ asked'[s] = "choice" <=> kind' = kind
               \/ state'[s] = "FAILED" /\ step = "idle" /\ ~clone'[s]
      PROVE  Goal
  <2>1. /\ Over(s)' => stopped[s] \/ (~clone'[s] /\ step = "idle")
        /\ ~Serving(s)' /\ state'[s] # NoSession
        /\ state'[s] = "AWAITING_INPUT" => step = "idle"
    BY <1>1, <1>3, <1>5, StateFacts DEF Over, Serving
  <2>2. Endings(s)'
    BY <1>1, <1>3, <1>5, <2>1 DEF Endings, NobodyDrives, Over, GoesBy
  <2>3. Planned(s)'
    BY <1>1, <1>2, <1>3, <1>5, <2>1 DEF Planned, Bare, Early, NeedsRun
  <2>4. Running(s)'
    BY <1>1, <1>5, <2>1 DEF Running, Watching, Launching
  <2> QED BY <1>1, <1>2, <1>3, <1>5, <2>1, <2>2, <2>3, <2>4, GoesKeeps DEF Bare
<1> HIDE DEF Goal
<1>6. CASE DockerReady(s)
  <2>1. clone' = clone /\ pipe[s] = "docker" /\ ~clone[s]
    BY <1>6 DEF DockerReady, held, BoxInv, Planned
  <2>2. CASE EndPipeline(s, "FAILED") /\ kind' = kind
    BY <1>4, <2>2, Constants, PipeAt
  <2>3. CASE Advance(s, "CLONING", "clone") /\ kind' = kind
    <3>1. pipe'[s] = "clone" /\ state'[s] = StateAfter(s, "CLONING") /\ GoesBy(s, "pipeline", 0)
      BY <2>3, Constants, PipeAt
    <3> QED BY <1>5, <2>1, <2>3, <3>1, StateFacts DEF StateAfter
  <2>4. CASE stopped[s] /\ Bail(s) /\ kind' = kind
    BY <1>4, <2>4, PipeAt
  <2>5. CASE ~stopped[s] /\ Advance(s, "ANALYZING", "analyse") /\ kind' = kind
    <3>1. pipe'[s] = "analyse" /\ state'[s] = StateAfter(s, "ANALYZING") /\ GoesBy(s, "pipeline", 0)
      BY <2>5, Constants, PipeAt
    <3> QED BY <1>5, <2>1, <2>5, <3>1 DEF StateAfter
  <2>6. CASE ~stopped[s] /\ Advance(s, "FAILED", "idle") /\ kind' = kind
    <3>1. pipe'[s] = "idle" /\ state'[s] = StateAfter(s, "FAILED") /\ GoesBy(s, "pipeline", 0)
      BY <2>6, Constants, PipeAt
    <3> QED BY <1>5, <2>1, <2>6, <3>1 DEF StateAfter
  <2>7. CASE kind' = [kind EXCEPT ![s] = "single"] /\ Advance(s, "VALIDATING", "validate")
    <3>1. pipe'[s] = "validate" /\ state'[s] = StateAfter(s, "VALIDATING") /\ GoesBy(s, "pipeline", 0)
      BY <2>7, Constants, PipeAt
    <3>2. kind'[s] = "single"
      BY <2>7 DEF TypeOK
    <3> QED BY <1>5, <2>1, <3>1, <3>2, StateFacts DEF StateAfter
  <2> QED BY <1>6, <2>2, <2>3, <2>4, <2>5, <2>6, <2>7 DEF DockerReady
<1>7. CASE CloneDone(s)
  <2>1. CASE clone' = [clone EXCEPT ![s] = TRUE] /\ stopped[s] /\ Bail(s)
    BY <1>4, <1>7, <2>1, PipeAt DEF CloneDone
  <2>2. CASE clone' = [clone EXCEPT ![s] = TRUE] /\ ~stopped[s] /\ Advance(s, "ANALYZING", "analyse")
    <3>1. pipe'[s] = "analyse" /\ state'[s] = StateAfter(s, "ANALYZING") /\ GoesBy(s, "pipeline", 0)
      BY <2>2, Constants, PipeAt
    <3> QED BY <1>5, <1>7, <2>2, <3>1 DEF CloneDone, StateAfter
  <2>3. CASE EndPipeline(s, "FAILED")
    BY <1>4, <1>7, <2>3, Constants, PipeAt DEF CloneDone
  <2> QED BY <1>7, <2>1, <2>2, <2>3 DEF CloneDone
<1>8. CASE AnalyseDone(s)
  <2>1. kind' = kind /\ clone' = clone
    BY <1>8 DEF AnalyseDone, held
  <2>2. CASE Advance(s, "PLANNING", "plan")
    <3>1. pipe'[s] = "plan" /\ state'[s] = StateAfter(s, "PLANNING") /\ GoesBy(s, "pipeline", 0)
      BY <2>2, Constants, PipeAt
    <3> QED BY <1>5, <2>1, <3>1, StateFacts DEF StateAfter
  <2>3. CASE EndPipeline(s, "FAILED")
    BY <1>4, <2>1, <2>3, Constants, PipeAt
  <2> QED BY <1>8, <2>2, <2>3 DEF AnalyseDone
<1>9. CASE PlanDone(s)
  <2>1. clone' = clone
    BY <1>9 DEF PlanDone, held
  <2>2. CASE EndPipeline(s, "FAILED") /\ kind' = kind
    BY <1>4, <2>2, Constants, PipeAt
  <2>3. CASE AwaitInput(s, "choice") /\ kind' = kind
    <3>1. /\ pipe'[s] = "idle" /\ state'[s] = StateAfter(s, "AWAITING_INPUT")
          /\ asked'[s] = "choice" /\ GoesBy(s, "pipeline", 0)
      BY <2>3, PipeAt
    <3> QED BY <1>5, <2>1, <2>3, <3>1, StateFacts DEF StateAfter
  <2>4. ASSUME NEW k \in Kinds, kind' = [kind EXCEPT ![s] = k] PROVE kind'[s] # "none" /\ kind' # kind
    BY <1>2, <2>4, ConstantsAssumption DEF TypeOK, Bare
  <2>5. ASSUME NEW k \in Kinds, kind' = [kind EXCEPT ![s] = k], AwaitInput(s, "env") PROVE Goal
    <3>1. /\ pipe'[s] = "idle" /\ state'[s] = StateAfter(s, "AWAITING_INPUT")
          /\ asked'[s] = "env" /\ GoesBy(s, "pipeline", 0)
      BY <2>5, PipeAt
    <3> QED BY <1>5, <2>1, <2>4, <2>5, <3>1, StateFacts DEF StateAfter
  <2>6. ASSUME NEW k \in Kinds, kind' = [kind EXCEPT ![s] = k], Advance(s, "VALIDATING", "validate")
        PROVE  Goal
    <3>1. pipe'[s] = "validate" /\ state'[s] = StateAfter(s, "VALIDATING") /\ GoesBy(s, "pipeline", 0)
      BY <2>6, Constants, PipeAt
    <3> QED BY <1>5, <2>1, <2>4, <2>6, <3>1, StateFacts DEF StateAfter
  <2> QED BY <1>9, <2>2, <2>3, <2>5, <2>6 DEF PlanDone
<1> QED BY <1>6, <1>7, <1>8, <1>9 DEF Goal

\* A driver creates a container: nothing else of the session's runs.
LEMMA NewBoxKeeps ==
  ASSUME TypeOK, TypeOK', NEW s \in Sessions, NEW e \in {"pipeline", "restart"},
         DriverInv(s), BoxInv(s), ~abandoned[s], NewBox(s),
         \/ /\ e = "pipeline" /\ rst' = rst
            /\ \/ pipe[s] = "create" /\ pipe'[s] = "launch"
               \/ pipe[s] = "recreate" /\ pipe'[s] = "relaunch"
         \/ e = "restart" /\ pipe' = pipe /\ rst[s] = "create" /\ rst'[s] = "launch",
         UNCHANGED <<state, stopped, kind, asked, handle, run, dbs, clone, td, tgt>>
  PROVE  BoxInv(s)'
<1>1. /\ ~Serving(s) /\ state[s] \notin {"AWAITING_INPUT", NoSession}
      /\ ~stopped[s] => ~Over(s)
      /\ \A m \in Boxes : box[s][m] # "live"
  BY DrivingAt DEF Launching, Watching, DriverInv
<1>2. /\ launches'[s] \in Boxes /\ launches'[s] # 0
      /\ \A m \in Boxes : box'[s][m] = IF m = launches'[s] THEN "live" ELSE box[s][m]
  BY NewBoxAt DEF Boxes
<1>3. Endings(s)' /\ Waits(s)' /\ Given(s)'
  BY <1>1 DEF BoxInv, Endings, Waits, Given, Over
<1>4. Planned(s)'
  BY <1>1 DEF BoxInv, Planned, Bare, NeedsRun, Early, Serving
<1>5. Placed(s)' /\ Running(s)'
  BY <1>1, <1>2 DEF Placed, Running, Launching, Watching, Serving, DriverInv
<1>6. Swept(s)'
  BY <1>2 DEF BoxInv, Swept
<1> QED BY <1>3, <1>4, <1>5, <1>6 DEF BoxInv

\* The pipeline goes on with a plan.
LEMMA LateGoes ==
  ASSUME TypeOK, TypeOK', NEW s \in Sessions, DriverInv(s), BoxInv(s), ~abandoned[s],
         pipe[s] \notin Early \cup {"idle"}, rst' = rst, stopped' = stopped, kind' = kind,
         clone' = clone, launches' = launches,
         pipe'[s] \in PipeSteps \ (Early \cup {"idle"}),
         NEW n, GoesBy(s, "pipeline", n), n = 0 \/ Sweeps(s, "pipeline"),
         \/ state'[s] = state[s]
         \/ \E st \in {"VALIDATING", "STARTING", "WAITING_FOR_READY", "REPAIRING"} :
              state'[s] = StateAfter(s, st),
         pipe'[s] \in {"recreate", "relaunch", "undo"} => kind[s] = "project",
         run'[s] => kind[s] = "project",
         ~stopped[s] /\ kind[s] = "project" /\ NeedsRun(s)' => run'[s],
         stopped[s] => (run'[s] => run[s]),
         stopped[s] => (dbs'[s] /\ kind[s] = "single" => dbs[s]),
         dbs'[s] /\ kind[s] = "project" => run'[s] \/ pipe'[s] = "undo",
         \A m \in Boxes : box[s][m] = "live" /\ m # n =>
           m = launches[s] /\ (Launching(s)' \/ (Watching(s)' /\ m = Held(s)' /\ ~stopped[s])),
         Running(s)'
  PROVE  BoxInv(s)'
<1>1. rst[s] = "idle" /\ kind[s] # "none"
  BY DEF DriverInv, BoxInv, Planned, Early
<1>2. /\ ~Serving(s) /\ state[s] \notin {"AWAITING_INPUT", NoSession}
      /\ stopped[s] => Over(s) /\ state[s] \in EndingStates
      /\ ~stopped[s] => ~Over(s) /\ \A e \in Owners : td[s][e] = "idle"
  BY DrivingAt DEF Early
<1>3. /\ stopped[s] => state'[s] = state[s]
      /\ ~stopped[s] => ~Over(s)'
      /\ ~Serving(s)' /\ state'[s] \notin {"AWAITING_INPUT", NoSession}
  BY <1>2, StateFacts DEF StateAfter, Over, Serving
<1>4. Endings(s)'
  BY <1>2, <1>3 DEF Endings, GoesBy, Over
<1>5. Planned(s)'
  BY <1>1, <1>3 DEF Planned, Early
<1>6. Over(s)' => stopped[s] /\ Over(s)
  BY <1>2, <1>3
<1> QED BY <1>3, <1>4, <1>5, <1>6, GoesKeeps

\* Provisioning and starting.
LEMMA StartKeeps ==
  ASSUME TypeOK, TypeOK', NEW s \in Sessions, DriverInv(s), BoxInv(s), ~abandoned[s],
         \/ Validated(s) \/ Provisioned(s) \/ CreateContainer(s) \/ Launched(s) \/ Undone(s)
         \/ Dropped(s)
  PROVE  BoxInv(s)'
<1> DEFINE Goal == BoxInv(s)'
<1> SUFFICES Goal
  OBVIOUS
<1>1. /\ pipe[s] \in {"validate", "provision", "create", "launch", "undo", "drop"}
      /\ rst' = rst /\ stopped' = stopped /\ kind' = kind /\ clone' = clone
  BY DEF Validated, Provisioned, CreateContainer, Launched, Undone, Dropped, others, held
<1>2. /\ pipe[s] \notin Early \cup {"idle"} /\ rst[s] = "idle"
      /\ kind[s] \in {"single", "project"}
      /\ ~Serving(s) /\ state[s] \notin {"AWAITING_INPUT", NoSession}
      /\ stopped[s] => Over(s) /\ state[s] \in EndingStates
      /\ ~stopped[s] => ~Over(s) /\ \A e \in Owners : td[s][e] = "idle"
  BY <1>1, DrivingAt, TypesAt DEF Early, DriverInv, BoxInv, Planned
<1>3. /\ run[s] => kind[s] = "project"
      /\ dbs[s] /\ kind[s] = "project" => run[s] \/ pipe[s] = "undo"
      /\ ~stopped[s] /\ kind[s] = "project" /\ pipe[s] \in {"provision", "create", "launch"} => run[s]
      /\ pipe[s] = "undo" => kind[s] = "project"
  BY <1>2 DEF BoxInv, Planned, NeedsRun
<1>4. \A m \in Boxes : box[s][m] = "live" => pipe[s] = "launch" /\ m = launches[s]
  BY <1>1, <1>2 DEF BoxInv, Placed, Launching, Watching
<1>5. ASSUME NEW st \in {"FAILED"}, pipe'[s] = "idle", TornBy(s, "pipeline"),
             state'[s] = StateAfter(s, st) \/ (stopped[s] /\ state'[s] = state[s]),
             run'[s] => run[s], dbs'[s] /\ kind[s] = "project" => run'[s],
             \A n \in Boxes : box[s][n] = "live" => n = Held(s)'
      PROVE  Goal
  BY <1>1, <1>2, <1>5, FinishKeeps DEF NobodyDrives
<1>6. ASSUME NEW n \in 0..MaxLaunches, GoesBy(s, "pipeline", n), launches' = launches,
             pipe'[s] \in {"provision", "create", "ready", "undo", "drop"},
             n = 0 \/ pipe'[s] \in {"undo", "drop"},
             state'[s] = state[s]
               \/ \E st \in {"STARTING", "WAITING_FOR_READY"} : state'[s] = StateAfter(s, st),
             pipe'[s] = "undo" => kind[s] = "project",
             run'[s] => kind[s] = "project",
             ~stopped[s] /\ kind[s] = "project" /\ pipe'[s] \notin {"undo", "drop"} => run'[s],
             stopped[s] => (run'[s] => run[s]),
             stopped[s] => (dbs'[s] /\ kind[s] = "single" => dbs[s]),
             dbs'[s] /\ kind[s] = "project" => run'[s] \/ pipe'[s] = "undo",
             pipe'[s] = "ready" => /\ pipe[s] = "launch" /\ ~stopped[s]
                                   /\ handle'[s] = launches[s],
             pipe[s] # "launch" \/ n = launches[s] \/ pipe'[s] = "ready"
      PROVE  Goal
  <2>1. Sweeps(s, "pipeline") \/ n = 0
    BY <1>6 DEF Sweeps
  <2>2. rst'[s] = "idle" /\ ~Serving(s)'
    BY <1>1, <1>2, <1>6, StateFacts DEF Serving, StateAfter
  <2>3. pipe'[s] = "ready" => /\ handle'[s] # 0 /\ handle'[s] \in Boxes
                              /\ box[s][handle'[s]] = "live" /\ tgt[s]["pipeline"] = 0 /\ n = 0
    <3>1. pipe'[s] = "ready" => launches[s] # 0 /\ box[s][launches[s]] = "live"
      BY <1>6 DEF BoxInv, Running, Launching
    <3>2. launches[s] \in 0..MaxLaunches
      BY DEF TypeOK
    <3>3. launches[s] # 0 => launches[s] \in Boxes
      BY <3>2, ConstantsAssumption DEF Boxes
    <3>4. pipe'[s] = "ready" => tgt[s]["pipeline"] = 0
      BY <1>2, <1>6, NothingSwept
    <3> QED BY <1>6, <3>1, <3>3, <3>4
  <2>4. Running(s)'
    BY <1>6, <2>2, <2>3 DEF Running, Watching, Launching, GoesBy, SweptBy
  <2>5. ~stopped[s] /\ kind[s] = "project" /\ NeedsRun(s)' => run'[s]
    BY <1>6, <2>2 DEF NeedsRun
  <2>6. pipe'[s] = "ready" => Held(s)' = launches[s]
    BY <1>1, <1>6 DEF Held
  <2>7. \A m \in Boxes : box[s][m] = "live" /\ m # n =>
          m = launches[s] /\ (Launching(s)' \/ (Watching(s)' /\ m = Held(s)' /\ ~stopped[s]))
    BY <1>4, <1>6, <2>6 DEF Watching
  <2>8. pipe'[s] \in PipeSteps \ (Early \cup {"idle"})
    BY <1>6 DEF PipeSteps, Early
  <2>9. \/ state'[s] = state[s]
        \/ \E st \in {"VALIDATING", "STARTING", "WAITING_FOR_READY", "REPAIRING"} :
             state'[s] = StateAfter(s, st)
    BY <1>6
  <2> QED BY <1>1, <1>2, <1>6, <2>1, <2>4, <2>5, <2>7, <2>8, <2>9, LateGoes
<1> HIDE DEF Goal
<1>0. /\ "FAILED" \in ExecutionState /\ 0 \in 0..MaxLaunches /\ launches[s] \in 0..MaxLaunches
      /\ {"provision", "create", "ready", "undo", "drop"} \subseteq PipeSteps
      /\ {"STARTING", "WAITING_FOR_READY"} \subseteq ExecutionState
  BY ConstantsAssumption, Constants DEF TypeOK
<1>7. CASE Validated(s)
  <2>1. pipe[s] = "validate" /\ launches' = launches /\ dbs' = dbs /\ handle' = handle
    BY <1>7 DEF Validated
  <2>2. CASE run' = run /\ EndPipeline(s, "FAILED")
    BY <1>0, <1>3, <1>4, <1>5, <2>1, <2>2, PipeAt
  <2>3. CASE run' = run /\ kind[s] = "single" /\ Advance(s, "STARTING", "provision")
    BY <1>0, <1>3, <1>6, <2>1, <2>3, PipeAt
  <2>4. CASE run' = run /\ kind[s] = "project" /\ stopped[s] /\ Bail(s)
    BY <1>0, <1>3, <1>4, <1>5, <2>1, <2>4, PipeAt
  <2>5. CASE /\ kind[s] = "project" /\ ~stopped[s] /\ run' = [run EXCEPT ![s] = TRUE]
             /\ Advance(s, "STARTING", "provision")
    <3>1. run'[s] = TRUE
      BY <2>5 DEF TypeOK
    <3> QED BY <1>0, <1>3, <1>6, <2>1, <2>5, <3>1, PipeAt
  <2> QED BY <1>7, <2>2, <2>3, <2>4, <2>5 DEF Validated
<1>8. CASE Provisioned(s)
  <2>1. pipe[s] = "provision" /\ launches' = launches /\ run' = run /\ handle' = handle
    BY <1>8 DEF Provisioned
  <2>2. CASE ~stopped[s] /\ Remove(s, 0, "create")
    BY <1>0, <1>3, <1>6, <2>1, <2>2, PipeAt
  <2>3. CASE stopped[s] /\ kind[s] = "single" /\ Bail(s)
    BY <1>0, <1>3, <1>4, <1>5, <2>1, <2>3, PipeAt
  <2>4. CASE kind[s] = "project" /\ Undo(s, 0)
    BY <1>0, <1>3, <1>6, <2>1, <2>4, PipeAt DEF Undo
  <2> QED BY <1>8, <2>2, <2>3, <2>4 DEF Provisioned
<1>9. CASE CreateContainer(s)
  <2>1. pipe[s] = "create" /\ dbs' = dbs /\ run' = run /\ handle' = handle
    BY <1>9 DEF CreateContainer
  <2>2. CASE /\ NewBox(s) /\ pipe' = [pipe EXCEPT ![s] = "launch"]
             /\ UNCHANGED <<state, bound, timers, td, tgt>>
    <3>1. pipe'[s] = "launch" /\ asked' = asked
      BY <1>9, <2>2 DEF CreateContainer, TypeOK
    <3> QED BY <1>1, <2>1, <2>2, <3>1, NewBoxKeeps DEF Goal
  <2>3. CASE kind[s] = "single" /\ EndPipeline(s, "FAILED")
    BY <1>0, <1>3, <1>4, <1>5, <2>1, <2>3, PipeAt
  <2>4. CASE kind[s] # "single" /\ Undo(s, 0) /\ UNCHANGED launches
    BY <1>0, <1>2, <1>3, <1>6, <2>1, <2>4, PipeAt DEF Undo
  <2> QED BY <1>9, <2>2, <2>3, <2>4 DEF CreateContainer
<1>10. CASE Launched(s)
  <2>1. pipe[s] = "launch" /\ dbs' = dbs /\ launches' = launches
    BY <1>10 DEF Launched
  <2>2. ASSUME handle' = [handle EXCEPT ![s] = launches[s]],
               run' = [run EXCEPT ![s] = kind[s] = "project" /\ (@ \/ ~stopped[s])]
        PROVE  /\ handle'[s] = launches[s]
               /\ run'[s] <=> kind[s] = "project" /\ (run[s] \/ ~stopped[s])
    <3> DEFINE r == kind[s] = "project" /\ (run[s] \/ ~stopped[s])
    <3>1. run'[s] = r
      <4>1. run' = [run EXCEPT ![s] = r]
        BY <2>2
      <4> HIDE DEF r
      <4> QED BY <4>1 DEF TypeOK
    <3>2. handle'[s] = launches[s]
      BY <2>2 DEF TypeOK
    <3> QED BY <3>1, <3>2
  <2>3. CASE /\ handle' = [handle EXCEPT ![s] = launches[s]]
             /\ run' = [run EXCEPT ![s] = kind[s] = "project" /\ (@ \/ ~stopped[s])]
             /\ ~stopped[s] /\ Advance(s, "WAITING_FOR_READY", "ready")
    BY <1>0, <1>3, <1>6, <2>1, <2>2, <2>3, PipeAt
  <2>4. CASE /\ handle' = [handle EXCEPT ![s] = launches[s]]
             /\ run' = [run EXCEPT ![s] = kind[s] = "project" /\ (@ \/ ~stopped[s])]
             /\ stopped[s] /\ kind[s] = "single" /\ Bail(s)
    <3>1. Held(s)' = launches[s]
      BY <1>1, <2>2, <2>4 DEF Held
    <3> QED BY <1>0, <1>3, <1>4, <1>5, <2>1, <2>2, <2>4, <3>1, PipeAt
  <2>5. CASE /\ handle' = [handle EXCEPT ![s] = launches[s]]
             /\ run' = [run EXCEPT ![s] = kind[s] = "project" /\ (@ \/ ~stopped[s])]
             /\ stopped[s] /\ kind[s] = "project" /\ Undo(s, launches[s])
    BY <1>0, <1>3, <1>6, <2>1, <2>2, <2>5, PipeAt DEF Undo
  <2>6. CASE /\ UNCHANGED <<handle, run>>
             /\ Remove(s, launches[s], IF kind[s] = "single" THEN "drop" ELSE "undo")
    BY <1>0, <1>2, <1>3, <1>6, <2>1, <2>6, PipeAt
  <2> QED BY <1>10, <2>3, <2>4, <2>5, <2>6 DEF Launched
<1>11. CASE Undone(s)
  <2>1. /\ pipe[s] = "undo" /\ run' = run /\ ~dbs'[s] /\ EndPipeline(s, "FAILED")
    BY <1>11 DEF Undone, TypeOK
  <2> QED BY <1>0, <1>4, <1>5, <2>1, PipeAt
<1>12. CASE Dropped(s)
  <2>1. pipe[s] = "drop" /\ run' = run /\ dbs' = dbs /\ EndPipeline(s, "FAILED")
    BY <1>12 DEF Dropped, held
  <2> QED BY <1>0, <1>3, <1>4, <1>5, <2>1, PipeAt
<1> QED BY <1>7, <1>8, <1>9, <1>10, <1>11, <1>12 DEF Goal

\* A driver that has watched the container finishes, and the session serves; or a stop
\* came, and there is nothing to serve.
LEMMA ServeKeeps ==
  ASSUME TypeOK, TypeOK', NEW s \in Sessions, NEW st \in ServingStates,
         DriverInv(s), BoxInv(s), ~abandoned[s],
         pipe[s] \in {"diagnose", "smoke"} \/ rst[s] \in {"ready", "smoke"},
         NobodyDrives(s)', state'[s] = StateAfter(s, st), Untouched(s),
         UNCHANGED <<stopped, kind, asked, launches, handle, run, dbs, clone>>
  PROVE  BoxInv(s)'
<1>1. /\ stopped[s] => Over(s) /\ state[s] \in EndingStates
      /\ ~stopped[s] => ~Over(s) /\ \A e \in Owners : td[s][e] = "idle"
      /\ pipe[s] = "idle" \/ rst[s] = "idle"
      /\ Watching(s) /\ ~Launching(s)
      /\ state[s] \notin {"AWAITING_INPUT", NoSession}
  BY DrivingAt DEF Watching, Launching
<1>2. /\ stopped[s] => state'[s] = state[s]
      /\ ~stopped[s] => Serving(s)' /\ ~Over(s)'
  BY <1>1, StateFacts DEF StateAfter, Serving, Over
<1>3. state'[s] \notin {"AWAITING_INPUT", NoSession}
  BY <1>1, <1>2, StateFacts DEF Serving
<1>4. Endings(s)' /\ Waits(s)'
  BY <1>1, <1>2 DEF BoxInv, Endings, Waits, Over, Untouched
<1>5. Planned(s)'
  <2>1. /\ kind[s] # "none"
        /\ ~stopped[s] /\ kind[s] = "project" => run[s]
        /\ dbs[s] /\ kind[s] = "project" => run[s]
        /\ run[s] => kind[s] = "project"
    BY <1>1 DEF BoxInv, Planned, NeedsRun, Early
  <2> QED BY <1>3, <2>1 DEF Planned, NobodyDrives, Early
<1>6. Placed(s)'
  <2>1. Held(s)' = Held(s)
    BY DEF Held
  <2>2. \A m \in Boxes : box[s][m] = "live" => m = launches[s] /\ m = Held(s) /\ ~stopped[s]
    BY <1>1 DEF BoxInv, Placed
  <2> QED BY <1>2, <2>1, <2>2 DEF Placed, Watching, Untouched
<1>7. Running(s)'
  BY <1>1, <1>2 DEF BoxInv, Running, Watching, Launching, NobodyDrives, Untouched
<1>8. Swept(s)'
  BY <1>1 DEF BoxInv, Swept, Untouched
<1>9. Given(s)'
  BY <1>1, <1>2 DEF BoxInv, Given, Over, Untouched
<1> QED BY <1>4, <1>5, <1>6, <1>7, <1>8, <1>9 DEF BoxInv

\* Readiness, questions and repairs.
LEMMA ReadyKeeps ==
  ASSUME TypeOK, TypeOK', NEW s \in Sessions, DriverInv(s), BoxInv(s), ~abandoned[s],
         \/ ReadyDone(s) \/ Diagnosed(s) \/ Asked(s) \/ Repaired(s) \/ Recreate(s)
         \/ Relaunched(s) \/ SmokeDone(s)
  PROVE  BoxInv(s)'
<1> DEFINE Goal == BoxInv(s)'
<1> SUFFICES Goal
  OBVIOUS
<1>1. /\ pipe[s] \in {"ready", "diagnose", "asking", "repair", "recreate", "relaunch", "smoke"}
      /\ rst' = rst /\ stopped' = stopped /\ kind' = kind /\ clone' = clone
  BY DEF ReadyDone, Diagnosed, Asked, Repaired, Recreate, Relaunched, SmokeDone, others, held
<1>2. /\ pipe[s] \notin Early \cup {"idle"} /\ rst[s] = "idle"
      /\ kind[s] \in {"single", "project"}
      /\ ~Serving(s) /\ state[s] \notin {"AWAITING_INPUT", NoSession}
      /\ stopped[s] => Over(s) /\ state[s] \in EndingStates
      /\ ~stopped[s] => ~Over(s) /\ \A e \in Owners : td[s][e] = "idle"
  BY <1>1, DrivingAt, TypesAt DEF Early, DriverInv, BoxInv, Planned
<1>3. /\ run[s] => kind[s] = "project"
      /\ dbs[s] /\ kind[s] = "project" => run[s]
      /\ ~stopped[s] /\ kind[s] = "project" => run[s]
      /\ pipe[s] \in {"recreate", "relaunch"} => kind[s] = "project"
  BY <1>1, <1>2 DEF BoxInv, Planned, NeedsRun
<1>4. \A m \in Boxes : box[s][m] = "live" =>
        /\ m = launches[s] /\ pipe[s] \in {"ready", "diagnose", "smoke", "relaunch"}
        /\ pipe[s] # "relaunch" => m = Held(s) /\ ~stopped[s]
  BY <1>1, <1>2 DEF BoxInv, Placed, Launching, Watching
<1>5. ASSUME NEW st \in {"FAILED", "COMPLETED"}, pipe'[s] = "idle", TornBy(s, "pipeline"),
             state'[s] = StateAfter(s, st), run' = run, dbs' = dbs,
             pipe[s] # "relaunch", pipe[s] \in {"repair", "recreate"} \/ handle' = handle
      PROVE  Goal
  <2>1. \A n \in Boxes : box[s][n] = "live" => n = Held(s)'
    BY <1>1, <1>4, <1>5 DEF Held
  <2> QED BY <1>1, <1>2, <1>3, <1>5, <2>1, FinishKeeps DEF NobodyDrives
<1>6. ASSUME NEW n, GoesBy(s, "pipeline", n), launches' = launches, run' = run, dbs' = dbs,
             pipe'[s] \in {"validate", "ready", "diagnose", "smoke", "asking", "repair",
                           "recreate", "drop"},
             n = 0 \/ pipe'[s] \in {"asking", "repair", "drop"},
             state'[s] = state[s]
               \/ \E st \in {"VALIDATING", "WAITING_FOR_READY", "REPAIRING"} :
                    state'[s] = StateAfter(s, st),
             pipe'[s] = "recreate" => kind[s] = "project",
             pipe'[s] \in {"diagnose", "smoke"} => pipe[s] = "ready" /\ handle' = handle,
             pipe'[s] = "ready" => /\ pipe[s] = "relaunch" /\ ~stopped[s]
                                   /\ handle'[s] = launches[s],
             pipe[s] \in {"relaunch"} => pipe'[s] = "ready" \/ n = launches[s],
             pipe'[s] \in {"asking", "repair"} => n = Held(s) /\ pipe[s] = "diagnose",
             pipe'[s] = "drop" => pipe[s] = "relaunch",
             pipe'[s] \in {"recreate", "validate"} => pipe[s] = "repair"
      PROVE  Goal
  <2>1. Sweeps(s, "pipeline") \/ n = 0
    BY <1>6 DEF Sweeps
  <2>2. rst'[s] = "idle" /\ ~Serving(s)'
    BY <1>1, <1>2, <1>6, StateFacts DEF Serving, StateAfter
  <2>3. ~stopped[s] /\ pipe'[s] \in {"ready", "diagnose", "smoke"} =>
          /\ handle'[s] # 0 /\ handle'[s] \in Boxes
          /\ box[s][handle'[s]] = "live" /\ tgt[s]["pipeline"] = 0 /\ n = 0
    <3>1. /\ ~stopped[s] /\ pipe[s] = "relaunch" => launches[s] # 0 /\ box[s][launches[s]] = "live"
          /\ ~stopped[s] /\ pipe[s] = "ready" => handle[s] # 0 /\ box[s][handle[s]] = "live"
      BY DEF BoxInv, Running, Launching, Watching
    <3>2. launches[s] \in 0..MaxLaunches /\ handle[s] \in 0..MaxLaunches
      BY DEF TypeOK
    <3>3. \A m \in 0..MaxLaunches : m # 0 => m \in Boxes
      BY ConstantsAssumption DEF Boxes
    <3>4. ~stopped[s] /\ pipe'[s] \in {"ready", "diagnose", "smoke"} => tgt[s]["pipeline"] = 0
      BY <1>2, <1>6, NothingSwept
    <3> QED BY <1>6, <3>1, <3>2, <3>3, <3>4
  <2>4. Running(s)'
    BY <1>1, <1>6, <2>2, <2>3 DEF Running, Watching, Launching, GoesBy, SweptBy
  <2>5. ~stopped[s] /\ kind[s] = "project" /\ NeedsRun(s)' => run'[s]
    BY <1>3, <1>6
  <2>6. /\ pipe'[s] = "ready" => Held(s)' = launches[s]
        /\ pipe'[s] \in {"diagnose", "smoke"} => Held(s)' = Held(s)
    BY <1>1, <1>3, <1>6 DEF Held
  <2>7. \A m \in Boxes : box[s][m] = "live" /\ m # n =>
          m = launches[s] /\ (Launching(s)' \/ (Watching(s)' /\ m = Held(s)' /\ ~stopped[s]))
    BY <1>4, <1>6, <2>6 DEF Watching
  <2>8. pipe'[s] \in PipeSteps \ (Early \cup {"idle"})
    BY <1>6 DEF PipeSteps, Early
  <2>9. \/ state'[s] = state[s]
        \/ \E st \in {"VALIDATING", "STARTING", "WAITING_FOR_READY", "REPAIRING"} :
             state'[s] = StateAfter(s, st)
    BY <1>6
  <2> QED BY <1>1, <1>2, <1>3, <1>6, <2>1, <2>4, <2>5, <2>7, <2>8, <2>9, LateGoes
<1> HIDE DEF Goal
<1>0. /\ {"FAILED", "COMPLETED"} \subseteq ExecutionState
      /\ 0 \in 0..MaxLaunches /\ launches[s] \in 0..MaxLaunches /\ Held(s) \in 0..MaxLaunches
      /\ {"validate", "ready", "diagnose", "smoke", "asking", "repair", "recreate", "drop"}
           \subseteq PipeSteps
      /\ {"VALIDATING", "WAITING_FOR_READY", "REPAIRING"} \subseteq ExecutionState
  BY ConstantsAssumption, Constants, HeldType DEF TypeOK
<1>7. CASE ReadyDone(s)
  <2>1. /\ pipe[s] = "ready" /\ launches' = launches /\ dbs' = dbs /\ handle' = handle
        /\ run' = run
    BY <1>7 DEF ReadyDone, held
  <2>2. CASE Remove(s, 0, "smoke") \/ Remove(s, 0, "diagnose")
    BY <1>0, <1>6, <2>1, <2>2, PipeAt
  <2>3. CASE EndPipeline(s, "FAILED") \/ EndPipeline(s, "COMPLETED")
    BY <1>0, <1>5, <2>1, <2>3, PipeAt
  <2> QED BY <1>7, <2>2, <2>3 DEF ReadyDone
<1>8. CASE Diagnosed(s)
  <2>1. /\ pipe[s] = "diagnose" /\ launches' = launches /\ dbs' = dbs /\ handle' = handle
        /\ run' = run /\ asked' = asked
    BY <1>8 DEF Diagnosed, held
  <2>2. CASE EndPipeline(s, "FAILED")
    BY <1>0, <1>5, <2>1, <2>2, PipeAt
  <2>3. CASE Remove(s, Held(s), "asking")
    BY <1>0, <1>6, <2>1, <2>3, PipeAt
  <2>4. CASE Repair(s)
    BY <1>0, <1>6, <2>1, <2>4, PipeAt
  <2>5. CASE /\ SetState(s, "PARTIALLY_READY") /\ pipe' = [pipe EXCEPT ![s] = "idle"]
             /\ UNCHANGED <<box, td, tgt>>
    <3>1. /\ "PARTIALLY_READY" \in ServingStates
          /\ state'[s] = StateAfter(s, "PARTIALLY_READY") /\ NobodyDrives(s)'
      BY <1>1, <1>2, <2>5, Constants, SetStateDrives DEF ServingStates, NobodyDrives, TypeOK
    <3> QED BY <1>1, <2>1, <2>5, <3>1, ServeKeeps DEF Untouched, Goal
  <2> QED BY <1>8, <2>2, <2>3, <2>4, <2>5 DEF Diagnosed
<1>9. CASE Asked(s)
  <2>1. /\ pipe[s] = "asking" /\ launches' = launches /\ handle'[s] = 0 /\ ~run'[s]
        /\ dbs'[s] => dbs[s] /\ kind[s] = "single"
    BY <1>9 DEF Asked, TypeOK
  <2>2. /\ pipe'[s] = "idle" /\ state'[s] = StateAfter(s, "AWAITING_INPUT")
        /\ asked'[s] = "crash" /\ GoesBy(s, "pipeline", 0)
    BY <1>9, PipeAt DEF Asked
  <2>3. /\ stopped[s] => state'[s] = state[s]
        /\ ~stopped[s] => state'[s] = "AWAITING_INPUT" /\ ~Over(s)'
        /\ ~Serving(s)' /\ state'[s] # NoSession
    BY <1>2, <2>2, StateFacts DEF StateAfter, Over, Serving
  <2>4. Endings(s)'
    BY <1>1, <1>2, <2>2, <2>3 DEF Endings, NobodyDrives, GoesBy, Over
  <2>5. Planned(s)'
    BY <1>1, <1>2, <2>1, <2>2, <2>3 DEF Planned, Early, NeedsRun
  <2>6. Running(s)'
    BY <1>1, <1>2, <2>2, <2>3 DEF Running, Watching, Launching
  <2> QED BY <1>1, <1>2, <1>4, <2>1, <2>2, <2>3, <2>4, <2>5, <2>6, GoesKeeps DEF Goal
<1>10. CASE Repaired(s)
  <2>1. pipe[s] = "repair" /\ launches' = launches /\ dbs' = dbs /\ run' = run
    BY <1>10 DEF Repaired
  <2>2. CASE Advance(s, "VALIDATING", "validate")
    BY <1>0, <1>6, <2>1, <2>2, PipeAt
  <2>3. CASE EndPipeline(s, "FAILED")
    BY <1>0, <1>5, <2>1, <2>3, PipeAt
  <2>4. CASE kind[s] = "project" /\ Remove(s, 0, "recreate")
    BY <1>0, <1>6, <2>1, <2>4, PipeAt
  <2> QED BY <1>10, <2>2, <2>3, <2>4 DEF Repaired
<1>11. CASE Recreate(s)
  <2>1. /\ pipe[s] = "recreate" /\ dbs' = dbs /\ run' = run /\ handle' = handle
        /\ asked' = asked
    BY <1>11 DEF Recreate
  <2>2. CASE /\ NewBox(s) /\ pipe' = [pipe EXCEPT ![s] = "relaunch"]
             /\ UNCHANGED <<state, bound, timers, td, tgt>>
    <3>1. pipe'[s] = "relaunch"
      BY <2>2 DEF TypeOK
    <3> QED BY <1>1, <2>1, <2>2, <3>1, NewBoxKeeps DEF Goal
  <2>3. CASE EndPipeline(s, "FAILED")
    BY <1>0, <1>5, <2>1, <2>3, PipeAt
  <2> QED BY <1>11, <2>2, <2>3 DEF Recreate
<1>12. CASE Relaunched(s)
  <2>1. pipe[s] = "relaunch" /\ dbs' = dbs /\ run' = run /\ launches' = launches
    BY <1>12 DEF Relaunched
  <2>2. CASE Remove(s, launches[s], "drop")
    BY <1>0, <1>6, <2>1, <2>2, PipeAt
  <2>3. CASE /\ handle' = [handle EXCEPT ![s] = launches[s]] /\ ~stopped[s]
             /\ Advance(s, "WAITING_FOR_READY", "ready")
    <3>1. handle'[s] = launches[s]
      BY <2>3 DEF TypeOK
    <3> QED BY <1>0, <1>6, <2>1, <2>3, <3>1, PipeAt
  <2> QED BY <1>12, <2>2, <2>3 DEF Relaunched
<1>13. CASE SmokeDone(s)
  <2>1. /\ pipe[s] = "smoke" /\ UNCHANGED <<asked, launches, handle, run, dbs, box, td, tgt>>
    BY <1>13 DEF SmokeDone, held
  <2>2. PICK st \in ServingStates : SetState(s, st)
    BY <1>13 DEF SmokeDone
  <2>3. state'[s] = StateAfter(s, st) /\ NobodyDrives(s)'
    BY <1>1, <1>2, <1>13, <2>2, Constants, SetStateDrives DEF SmokeDone, NobodyDrives, TypeOK
  <2> QED BY <1>1, <2>1, <2>3, ServeKeeps DEF Untouched, Goal
<1> QED BY <1>7, <1>8, <1>9, <1>10, <1>11, <1>12, <1>13 DEF Goal

\* The pieces of a restart's actions, session by session.
LEMMA RestAt ==
  ASSUME TypeOK, NEW s \in Sessions
  PROVE  /\ \A n \in 0..MaxLaunches, step \in RestartSteps : RestartGoes(s, step, n) =>
              rst'[s] = step /\ GoesBy(s, "restart", n)
         /\ RestartFails(s) =>
              rst'[s] = "idle" /\ state'[s] = StateAfter(s, "FAILED") /\ TornBy(s, "restart")
         /\ \A st \in ServingStates : RestartServes(s, st) =>
              rst'[s] = "idle" /\ state'[s] = StateAfter(s, st) /\ Untouched(s)
<1>0. "restart" \in Owners /\ "FAILED" \in ExecutionState /\ ServingStates \subseteq ExecutionState
  BY Constants
<1>1. ASSUME NEW n \in 0..MaxLaunches, NEW step \in RestartSteps, RestartGoes(s, step, n)
      PROVE  rst'[s] = step /\ GoesBy(s, "restart", n)
  BY <1>0, <1>1, SweepAt DEF RestartGoes, GoesBy, TypeOK
<1>2. ASSUME RestartFails(s)
      PROVE  rst'[s] = "idle" /\ state'[s] = StateAfter(s, "FAILED") /\ TornBy(s, "restart")
  BY <1>0, <1>2, SetStateDrives, TearAt DEF RestartFails, TypeOK
<1>3. ASSUME NEW st \in ServingStates, RestartServes(s, st)
      PROVE  rst'[s] = "idle" /\ state'[s] = StateAfter(s, st) /\ Untouched(s)
  BY <1>0, <1>3, SetStateDrives DEF RestartServes, Untouched, TypeOK
<1> QED BY <1>1, <1>2, <1>3

\* A restart under way.
LEMMA RestartingKeeps ==
  ASSUME TypeOK, TypeOK', NEW s \in Sessions, DriverInv(s), BoxInv(s), ~abandoned[s],
         Restarting(s)
  PROVE  BoxInv(s)'
<1> DEFINE Goal == BoxInv(s)'
<1> SUFFICES Goal
  OBVIOUS
<1>1. /\ rst[s] \in {"cleaning", "create", "launch", "drop", "throw", "ready", "smoke"}
      /\ pipe' = pipe /\ stopped' = stopped /\ kind' = kind /\ clone' = clone
      /\ asked' = asked /\ run' = run /\ dbs' = dbs
  BY DEF Restarting, RestartCleaned, RestartCreate, RestartLaunched, RestartDropped,
         RestartReady, RestartSmoked, others, held
<1>2. /\ pipe[s] = "idle" /\ rst[s] # "idle"
      /\ kind[s] = "project"
      /\ ~Serving(s) /\ state[s] \notin {"AWAITING_INPUT", NoSession}
      /\ stopped[s] => Over(s) /\ state[s] \in EndingStates
      /\ ~stopped[s] => ~Over(s) /\ \A e \in Owners : td[s][e] = "idle"
  BY <1>1, DrivingAt DEF DriverInv, BoxInv, Planned
<1>3. /\ dbs[s] => run[s]
      /\ ~stopped[s] => run[s]
  BY <1>1, <1>2 DEF BoxInv, Planned, NeedsRun
<1>4. \A m \in Boxes : box[s][m] = "live" =>
        /\ m = launches[s] /\ rst[s] \in {"ready", "smoke", "launch"}
        /\ rst[s] # "launch" => m = Held(s) /\ ~stopped[s]
  BY <1>1, <1>2 DEF BoxInv, Placed, Launching, Watching
<1>5. ASSUME rst'[s] = "idle", TornBy(s, "restart"), state'[s] = StateAfter(s, "FAILED"),
             rst[s] # "launch", handle' = handle
      PROVE  Goal
  <2>1. \A n \in Boxes : box[s][n] = "live" => n = Held(s)'
    BY <1>1, <1>4, <1>5 DEF Held
  <2> QED BY <1>1, <1>2, <1>3, <1>5, <2>1, FinishKeeps DEF NobodyDrives
<1>6. ASSUME NEW n, GoesBy(s, "restart", n), launches' = launches,
             rst'[s] \in {"idle", "create", "drop", "throw", "ready", "smoke"},
             n = 0 \/ rst'[s] \in {"drop", "throw"},
             \/ state'[s] = state[s]
             \/ state'[s] = StateAfter(s, "WAITING_FOR_READY"),
             rst'[s] = "idle" => stopped[s] \/ rst[s] = "drop",
             rst'[s] = "smoke" => rst[s] = "ready" /\ handle' = handle,
             rst'[s] = "ready" => rst[s] = "launch" /\ ~stopped[s] /\ handle'[s] = launches[s],
             rst[s] = "launch" => rst'[s] = "ready" \/ n = launches[s],
             rst'[s] \in {"create", "drop", "throw"} => rst[s] \notin {"ready", "smoke"}
      PROVE  Goal
  <2>1. Sweeps(s, "restart") \/ n = 0
    BY <1>6 DEF Sweeps
  <2>2. /\ stopped[s] => state'[s] = state[s]
        /\ ~stopped[s] => ~Over(s)'
        /\ ~Serving(s)' /\ state'[s] \notin {"AWAITING_INPUT", NoSession}
    BY <1>2, <1>6, StateFacts DEF StateAfter, Over, Serving
  <2>3. ~stopped[s] /\ rst'[s] \in {"ready", "smoke"} =>
          /\ handle'[s] # 0 /\ handle'[s] \in Boxes
          /\ box[s][handle'[s]] = "live" /\ tgt[s]["restart"] = 0 /\ n = 0
    <3>1. /\ ~stopped[s] /\ rst[s] = "launch" => launches[s] # 0 /\ box[s][launches[s]] = "live"
          /\ ~stopped[s] /\ rst[s] = "ready" => handle[s] # 0 /\ box[s][handle[s]] = "live"
      BY DEF BoxInv, Running, Launching, Watching
    <3>2. launches[s] \in 0..MaxLaunches /\ handle[s] \in 0..MaxLaunches
      BY DEF TypeOK
    <3>3. \A m \in 0..MaxLaunches : m # 0 => m \in Boxes
      BY ConstantsAssumption DEF Boxes
    <3>4. ~stopped[s] /\ rst'[s] \in {"ready", "smoke"} => tgt[s]["restart"] = 0
      BY <1>2, <1>6, NothingSwept
    <3> QED BY <1>6, <3>1, <3>2, <3>3, <3>4
  <2>4. Running(s)'
    BY <1>1, <1>2, <1>6, <2>2, <2>3 DEF Running, Watching, Launching, GoesBy, SweptBy
  <2>5. /\ rst'[s] = "ready" => Held(s)' = launches[s]
        /\ rst'[s] = "smoke" => Held(s)' = Held(s)
    BY <1>1, <1>3, <1>6 DEF Held
  <2>6. \A m \in Boxes : box[s][m] = "live" /\ m # n =>
          m = launches'[s] /\ (Launching(s)' \/ (Watching(s)' /\ m = Held(s)' /\ ~Over(s)'))
    BY <1>1, <1>4, <1>6, <2>2, <2>5 DEF Watching
  <2>7. Endings(s)'
    BY <1>1, <1>2, <1>6, <2>2 DEF Endings, GoesBy, Over
  <2>8. Planned(s)'
    BY <1>1, <1>2, <1>3, <2>2 DEF Planned, Early
  <2>9. Over(s)' => stopped[s] /\ Over(s)
    BY <1>2, <2>2
  <2> QED BY <1>1, <1>2, <1>6, <2>1, <2>4, <2>6, <2>7, <2>8, <2>9, GoesKeeps
<1> HIDE DEF Goal
<1>0. /\ 0 \in 0..MaxLaunches /\ launches[s] \in 0..MaxLaunches
      /\ {"idle", "create", "drop", "throw", "ready", "smoke"} \subseteq RestartSteps
      /\ "WAITING_FOR_READY" \in ExecutionState /\ "PARTIALLY_READY" \in ServingStates
  BY ConstantsAssumption, Constants DEF TypeOK, RestartSteps, ServingStates
<1>7. CASE RestartCleaned(s)
  <2>1. rst[s] = "cleaning" /\ RestartGoes(s, "create", 0) /\ UNCHANGED <<state, launches>>
    BY <1>7 DEF RestartCleaned, held
  <2> QED BY <1>0, <1>6, <2>1, RestAt
<1>8. CASE RestartCreate(s)
  <2>1. rst[s] = "create" /\ handle' = handle
    BY <1>8 DEF RestartCreate
  <2>2. CASE /\ NewBox(s) /\ rst' = [rst EXCEPT ![s] = "launch"]
             /\ UNCHANGED <<state, bound, timers, td, tgt>>
    <3>1. rst'[s] = "launch"
      BY <2>2 DEF TypeOK
    <3> QED BY <1>1, <2>1, <2>2, <3>1, NewBoxKeeps DEF Goal
  <2>3. CASE RestartFails(s)
    BY <1>5, <2>1, <2>3, RestAt
  <2> QED BY <1>8, <2>2, <2>3 DEF RestartCreate
<1>9. CASE RestartLaunched(s)
  <2>1. rst[s] = "launch" /\ launches' = launches
    BY <1>9 DEF RestartLaunched
  <2>2. CASE stopped[s] /\ RestartGoes(s, "drop", launches[s]) /\ UNCHANGED state
    BY <1>0, <1>6, <2>1, <2>2, RestAt
  <2>3. CASE ~stopped[s] /\ ~run[s]
    BY <1>3, <2>3
  <2>4. CASE /\ handle' = [handle EXCEPT ![s] = launches[s]]
             /\ ~stopped[s] /\ RestartGoes(s, "ready", 0) /\ SetState(s, "WAITING_FOR_READY")
    <3>1. handle'[s] = launches[s] /\ state'[s] = StateAfter(s, "WAITING_FOR_READY")
      BY <1>0, <2>4, SetStateDrives DEF TypeOK
    <3> QED BY <1>0, <1>6, <2>1, <2>4, <3>1, RestAt
  <2>5. CASE RestartGoes(s, "throw", launches[s]) /\ UNCHANGED state
    BY <1>0, <1>6, <2>1, <2>5, RestAt
  <2> QED BY <1>9, <2>2, <2>3, <2>4, <2>5 DEF RestartLaunched
<1>10. CASE RestartDropped(s)
  <2>1. /\ rst[s] \in {"drop", "throw"} /\ handle' = handle /\ launches' = launches
    BY <1>10 DEF RestartDropped, held
  <2>2. CASE RestartFails(s)
    BY <1>5, <2>1, <2>2, RestAt
  <2>3. CASE rst[s] = "drop" /\ RestartGoes(s, "idle", 0) /\ UNCHANGED state
    BY <1>0, <1>6, <2>1, <2>3, RestAt
  <2> QED BY <1>10, <2>1, <2>2, <2>3 DEF RestartDropped
<1>11. CASE RestartReady(s)
  <2>1. rst[s] = "ready" /\ handle' = handle /\ launches' = launches
    BY <1>11 DEF RestartReady, held
  <2>2. CASE (stopped[s] \/ ~run[s]) /\ RestartGoes(s, "idle", 0) /\ UNCHANGED state
    BY <1>0, <1>3, <1>6, <2>1, <2>2, RestAt
  <2>3. CASE RestartGoes(s, "smoke", 0) /\ UNCHANGED state
    BY <1>0, <1>6, <2>1, <2>3, RestAt
  <2>4. CASE RestartServes(s, "PARTIALLY_READY")
    <3>1. /\ NobodyDrives(s)' /\ Untouched(s)
          /\ state'[s] = StateAfter(s, "PARTIALLY_READY")
      BY <1>0, <1>1, <1>2, <2>4, RestAt DEF NobodyDrives
    <3> QED BY <1>0, <1>1, <2>1, <3>1, ServeKeeps DEF Goal
  <2>5. CASE RestartFails(s)
    BY <1>5, <2>1, <2>5, RestAt
  <2> QED BY <1>11, <2>2, <2>3, <2>4, <2>5 DEF RestartReady
<1>12. CASE RestartSmoked(s)
  <2>1. rst[s] = "smoke" /\ handle' = handle /\ launches' = launches
    BY <1>12 DEF RestartSmoked, held
  <2>2. PICK st \in ServingStates : RestartServes(s, st)
    BY <1>12 DEF RestartSmoked
  <2>3. NobodyDrives(s)' /\ Untouched(s) /\ state'[s] = StateAfter(s, st)
    BY <1>1, <1>2, <2>2, RestAt DEF NobodyDrives
  <2> QED BY <1>1, <2>1, <2>3, ServeKeeps DEF Goal
<1> QED BY <1>7, <1>8, <1>9, <1>10, <1>11, <1>12 DEF Goal, Restarting

-----------------------------------------------------------------------------
\* Answers, endings, the watch and the teardowns keep the invariant

\* Somebody outside ends the session.
LEMMA EndingKeeps ==
  ASSUME TypeOK, TypeOK', NEW s \in Sessions, NEW e \in Callers, DriverInv(s), BoxInv(s),
         ~abandoned[s], Active(s), TornBy(s, e), state'[s] = "CLEANING_UP",
         stopped'[s] \/ (~stopped[s] /\ NobodyDrives(s)),
         UNCHANGED <<pipe, rst, kind, asked, launches, handle, run, dbs, clone>>
  PROVE  BoxInv(s)'
<1>1. e \in Owners
  BY DEF Owners
<1>2. Over(s)' /\ (~stopped'[s] => NobodyDrives(s)')
  BY DEF Over, NobodyDrives
<1>3. Held(s)' = Held(s)
  BY DEF Held
<1>4. \A n \in Boxes : box[s][n] = "live" /\ n # Held(s)' => n = launches'[s] /\ Launching(s)'
  BY <1>3 DEF BoxInv, Placed, Launching
<1>5. Planned(s)'
  BY StateFacts DEF BoxInv, Planned, Bare, NeedsRun, Serving, NobodyDrives
<1> QED BY <1>1, <1>2, <1>4, <1>5, TearKeeps

\* A teardown that goes on, for a session that is over.
LEMMA TeardownKeeps ==
  ASSUME TypeOK, TypeOK', NEW s \in Sessions, NEW e \in Owners, DriverInv(s), BoxInv(s),
         ~abandoned[s], Teardown(s, e)
  PROVE  BoxInv(s)'
<1> DEFINE Goal == BoxInv(s)'
<1> SUFFICES Goal
  OBVIOUS
<1>1. /\ UNCHANGED <<stopped, pipe, rst, kind, asked, launches, handle>>
      /\ td[s][e] # "idle" /\ \A f \in Owners \ {e} : td'[s][f] = td[s][f]
  BY DEF Teardown, ContainersGone, BackingGone, Released, others, TypeOK
<1>2. /\ Over(s) /\ ~Serving(s) /\ state[s] \notin {"AWAITING_INPUT", NoSession}
      /\ ~stopped[s] => NobodyDrives(s)
      /\ kind[s] \in {"none", "single", "project"}
  BY <1>1, StateFacts, TypesAt DEF BoxInv, Endings, Over, Serving
<1>3. ASSUME Over(s)', SweptBy(s, e, 0) \/ (tgt'[s] = tgt[s] /\ box'[s] = box[s]),
             SweptBy(s, e, 0) \/ td[s][e] \notin {"run", "handle"},
             dbs'[s] => dbs[s], run'[s] => run[s], clone'[s] => clone[s],
             dbs'[s] /\ kind[s] = "project" => run'[s] \/ pipe[s] = "undo",
             dbs'[s] /\ kind[s] = "single" /\ td[s][e] \in {"handle", "backing"} =>
               td'[s][e] = "backing",
             run'[s] => td[s][e] # "run",
             clone'[s] => td'[s][e] # "idle",
             td'[s][e] \in {"backing", "release", "idle"},
             td'[s][e] = "backing" => kind[s] = "single"
      PROVE  Goal
  <2>1. ~Serving(s)' /\ state'[s] \notin {"AWAITING_INPUT", NoSession}
    BY <1>3, StateFacts DEF Over, Serving
  <2>2. Endings(s)'
    BY <1>1, <1>2, <1>3 DEF Endings, NobodyDrives
  <2>3. Planned(s)'
    BY <1>1, <1>2, <1>3, <2>1 DEF BoxInv, Planned, Bare, NeedsRun, NobodyDrives
  <2>4. Waits(s)'
    BY <1>1, <1>3 DEF BoxInv, Waits
  <2>5. Placed(s)'
    BY <1>1, <1>2, <1>3 DEF BoxInv, Placed, Launching, SweptBy
  <2>6. Running(s)'
    BY <1>1, <1>2, <2>1 DEF Running, Watching, Launching, NobodyDrives
  <2>7. Swept(s)'
    <3>1. ASSUME NEW m \in Boxes, box'[s][m] = "sweeping" PROVE \E f \in Owners : tgt'[s][f] = m
      <4>1. CASE tgt'[s] = tgt[s] /\ box'[s] = box[s]
        BY <3>1, <4>1 DEF BoxInv, Swept
      <4>2. CASE SweptBy(s, e, 0)
        <5>1. CASE m = tgt'[s][e]
          BY <5>1
        <5>2. CASE box[s][m] = "sweeping" /\ m # tgt[s][e]
          BY <4>2, <5>2 DEF BoxInv, Swept, SweptBy
        <5> QED BY <3>1, <4>2, <5>1, <5>2 DEF SweptBy
      <4> QED BY <1>3, <4>1, <4>2
    <3>2. ASSUME NEW f \in Owners, tgt'[s][f] # 0
          PROVE  \/ td'[s][f] \in {"run", "handle"}
                 \/ f = "pipeline" /\ pipe'[s] \in {"repair", "asking", "undo", "drop"}
                 \/ f = "restart" /\ rst'[s] \in {"cleaning", "drop", "throw"}
      BY <1>1, <1>3, <3>2 DEF BoxInv, Swept, SweptBy
    <3> QED BY <3>1, <3>2 DEF Swept
  <2>8. Given(s)'
    <3>1. dbs'[s] /\ kind'[s] = "single" => \E f \in Owners : td'[s][f] \in {"handle", "backing"}
      BY <1>1, <1>2, <1>3 DEF BoxInv, Given
    <3>2. run'[s] => \E f \in Owners : td'[s][f] = "run"
      BY <1>1, <1>2, <1>3 DEF BoxInv, Given
    <3>3. clone'[s] => \E f \in Owners : td'[s][f] # "idle"
      BY <1>3
    <3> QED BY <3>1, <3>2, <3>3 DEF Given
  <2> QED BY <2>2, <2>3, <2>4, <2>5, <2>6, <2>7, <2>8 DEF BoxInv
<1> HIDE DEF Goal
<1>4. CASE ContainersGone(s, e)
  <2>1. /\ td[s][e] \in {"run", "handle"} /\ ~run'[s]
        /\ td'[s][e] = AfterContainers(s) /\ SweptBy(s, e, 0)
        /\ state' = state /\ clone' = clone
    BY <1>4, SweepAt DEF ContainersGone, TypeOK
  <2>2. dbs'[s] <=> dbs[s] /\ td[s][e] # "run"
    <3> DEFINE d == dbs[s] /\ td[s][e] # "run"
    <3>1. dbs' = [dbs EXCEPT ![s] = d]
      BY <1>4 DEF ContainersGone
    <3> HIDE DEF d
    <3>2. dbs'[s] = d
      BY <3>1 DEF TypeOK
    <3> QED BY <3>2 DEF d
  <2>3. td[s][e] = "handle" => kind[s] = "single"
    BY DEF BoxInv, Waits
  <2> QED BY <1>2, <1>3, <2>1, <2>2, <2>3 DEF AfterContainers, Over
<1>5. CASE BackingGone(s, e)
  <2>1. /\ td[s][e] = "backing" /\ td'[s][e] = "release" /\ ~dbs'[s]
        /\ UNCHANGED <<state, clone, run, tgt, box>>
    BY <1>5 DEF BackingGone, TypeOK
  <2> QED BY <1>2, <1>3, <2>1 DEF Over
<1>6. CASE Released(s, e)
  <2>1. /\ td[s][e] = "release" /\ td'[s][e] = "idle" /\ ~clone'[s]
        /\ UNCHANGED <<dbs, run, tgt, box>>
    BY <1>6 DEF Released, TypeOK
  <2>2. Over(s)'
    <3>1. ASSUME e \in Callers, NEW st \in FinalStates(e), SetState(s, st) PROVE Over(s)'
      <4>1. st \in TerminalStates /\ st \in ExecutionState
        BY <3>1, StateFacts, Constants DEF FinalStates
      <4> QED BY <1>2, <3>1, <4>1, SetStateDrives DEF Over, StateAfter
    <3> QED BY <1>2, <1>6, <3>1 DEF Released, Over
  <2>3. dbs[s] /\ kind[s] = "project" => run[s] \/ pipe[s] = "undo"
    BY DEF BoxInv, Planned
  <2> QED BY <1>3, <2>1, <2>2, <2>3
<1> QED BY <1>4, <1>5, <1>6 DEF Goal, Teardown

\* A step that changes nothing the invariant reads, but for a state of serving.
LEMMA QuietKeeps ==
  ASSUME NEW s \in Sessions, BoxInv(s), Untouched(s),
         state'[s] = state[s] \/ (Serving(s) /\ Serving(s)'),
         UNCHANGED <<stopped, pipe, rst, kind, asked, launches, handle, run, dbs, clone>>
  PROVE  BoxInv(s)'
<1>1. /\ Serving(s)' <=> Serving(s)
      /\ Over(s)' <=> Over(s)
      /\ state'[s] \in {"AWAITING_INPUT", NoSession} => state'[s] = state[s]
      /\ Held(s)' = Held(s)
  BY StateFacts DEF Serving, Over, Held
<1>2. Endings(s)' /\ Waits(s)' /\ Given(s)'
  BY <1>1 DEF BoxInv, Endings, Waits, Given, NobodyDrives, Untouched
<1>3. Planned(s)'
  BY <1>1 DEF BoxInv, Planned, Bare, NeedsRun
<1>4. Placed(s)' /\ Running(s)' /\ Swept(s)'
  BY <1>1 DEF BoxInv, Placed, Running, Swept, Watching, Launching, Untouched
<1> QED BY <1>2, <1>3, <1>4 DEF BoxInv

\* A session is created.
LEMMA CreateKeeps ==
  ASSUME TypeOK, TypeOK', NEW s \in Sessions, DriverInv(s), BoxInv(s), NextId(s), Create(s)
  PROVE  BoxInv(s)'
<1>1. state[s] = NoSession
  BY DEF NextId, Sessions
<1>2. /\ state'[s] = "QUEUED" /\ pipe'[s] = "docker" /\ Untouched(s)
      /\ UNCHANGED <<stopped, rst, kind, asked, launches, handle, run, dbs, clone>>
  BY DEF Create, Untouched, TypeOK
<1>3. /\ ~Over(s) /\ ~Over(s)' /\ ~Serving(s) /\ ~Serving(s)'
      /\ pipe[s] = "idle" /\ rst[s] = "idle"
  BY <1>1, <1>2, StateFacts DEF Over, Serving, DriverInv, NobodyDrives
<1>4. Bare(s) /\ ~clone[s]
  BY <1>1 DEF BoxInv, Planned
<1>5. Endings(s)' /\ Waits(s)' /\ Given(s)'
  BY <1>2, <1>3 DEF BoxInv, Endings, Waits, Given, Untouched
<1>6. Planned(s)'
  BY <1>2, <1>3, <1>4, StateFacts DEF Planned, Bare, Early, NeedsRun
<1>7. Placed(s)' /\ Running(s)'
  BY <1>2, <1>3 DEF BoxInv, Placed, Running, Watching, Launching, Untouched
<1>8. Swept(s)'
  BY <1>2, <1>3 DEF BoxInv, Swept, Untouched
<1> QED BY <1>5, <1>6, <1>7, <1>8 DEF BoxInv

\* A question is answered.
LEMMA ResolveKeeps ==
  ASSUME TypeOK, TypeOK', NEW s \in Sessions, DriverInv(s), BoxInv(s), ~abandoned[s],
         Resolve(s)
  PROVE  BoxInv(s)'
<1>1. /\ state[s] = "AWAITING_INPUT" /\ Untouched(s)
      /\ UNCHANGED <<stopped, rst, kind, launches, handle, run, dbs, clone>>
  BY DEF Resolve, others, held, Untouched
<1>2. /\ ~stopped[s] /\ ~Over(s) /\ ~Serving(s) /\ pipe[s] = "idle" /\ rst[s] = "idle"
      /\ \A e \in Owners : td[s][e] = "idle"
  BY <1>1, StateFacts DEF DriverInv, NobodyDrives, BoxInv, Endings, Over, Serving
<1>3. IF asked[s] = "choice" THEN Bare(s)
      ELSE kind[s] # "none" /\ handle[s] = 0 /\ ~run[s] /\ (dbs[s] => kind[s] = "single")
  BY <1>1 DEF BoxInv, Planned
<1>4. \/ /\ asked[s] = "choice" /\ state'[s] = "ANALYZING" /\ pipe'[s] = "analyse"
      \/ /\ asked[s] = "choice" /\ state'[s] = "FAILED" /\ pipe'[s] = "idle"
         /\ asked'[s] = "choice"
      \/ /\ asked[s] # "choice" /\ state'[s] = "VALIDATING" /\ pipe'[s] = "validate"
  <2>1. SetState(s, "FAILED") => state'[s] = "FAILED"
    BY <1>2, Constants, SetStateDrives DEF StateAfter
  <2> QED BY <1>2, <2>1 DEF Resolve, TypeOK
<1>5. ~Serving(s)' /\ state'[s] \notin {"AWAITING_INPUT", NoSession}
  BY <1>4, StateFacts DEF Serving
<1>6. Endings(s)' /\ Waits(s)'
  BY <1>1, <1>2, <1>4 DEF Endings, Waits, NobodyDrives, Untouched, Over, TerminalStates
<1>7. Planned(s)'
  BY <1>1, <1>2, <1>3, <1>4, <1>5 DEF Planned, Bare, Early, NeedsRun
<1>8. Placed(s)' /\ Running(s)'
  BY <1>1, <1>2, <1>4, <1>5 DEF BoxInv, Placed, Running, Watching, Launching, Untouched
<1>9. Swept(s)'
  BY <1>1, <1>2 DEF BoxInv, Swept, Untouched
<1>10. Given(s)'
  BY <1>1, <1>2, <1>3, <1>4, StateFacts DEF Given, Bare, Over
<1> QED BY <1>6, <1>7, <1>8, <1>9, <1>10 DEF BoxInv

\* A person restarts the services of a project that serves.
LEMMA RestartKeeps ==
  ASSUME TypeOK, TypeOK', NEW s \in Sessions, DriverInv(s), BoxInv(s), ~abandoned[s],
         Restart(s)
  PROVE  BoxInv(s)'
<1>1. /\ Serving(s) /\ run[s] /\ rst'[s] = "cleaning"
      /\ UNCHANGED <<stopped, pipe, kind, asked, launches, handle, run, dbs, clone>>
  BY DEF Restart, others, held, TypeOK
<1>2. /\ ~stopped[s] /\ ~Over(s) /\ pipe[s] = "idle" /\ rst[s] = "idle"
      /\ \A e \in Owners : td[s][e] = "idle"
  BY <1>1, StateFacts DEF DriverInv, NobodyDrives, BoxInv, Endings, Over, Serving
<1>3. GoesBy(s, "restart", Held(s))
  <2>1. "restart" \in Owners
    BY DEF Owners
  <2> QED BY <2>1, SweepAt DEF Restart, GoesBy
<1>4. state'[s] = "STARTING"
  BY <1>2, Constants, SetStateDrives DEF Restart, StateAfter
<1>5. ~Over(s)' /\ ~Serving(s)' /\ state'[s] \notin {"AWAITING_INPUT", NoSession}
  BY <1>4, StateFacts DEF Over, Serving
<1>6. Endings(s)'
  BY <1>2, <1>3, <1>5 DEF Endings, GoesBy
<1>7. Planned(s)'
  BY <1>1, <1>2, <1>5 DEF BoxInv, Planned, Bare, Early
<1>8. Running(s)'
  BY <1>1, <1>2, <1>5 DEF Running, Watching, Launching
<1>9. \A m \in Boxes : box[s][m] = "live" => m = Held(s)
  BY <1>2 DEF BoxInv, Placed, Launching
<1>10. Sweeps(s, "restart")
  BY <1>1 DEF Sweeps
<1> QED BY <1>1, <1>3, <1>5, <1>6, <1>7, <1>8, <1>9, <1>10, GoesKeeps

\* The clocks and the watch.
LEMMA ClocksKeep ==
  ASSUME TypeOK, TypeOK', NEW s \in Sessions, DriverInv(s), BoxInv(s), ~abandoned[s],
         ~abandoned'[s], Clocks(s)
  PROVE  BoxInv(s)'
<1> USE DEF others, held
<1>0. {"watch", "unanswered", "stop"} \subseteq Callers /\ Callers \subseteq Owners
  BY DEF Callers, Owners
<1>1. CASE StartupBound(s)
  <2>1. CASE Abandon(s)
    BY <2>1 DEF Abandon, TypeOK
  <2>2. CASE UNCHANGED <<state, others, pipe, rst, kind, asked, box, held, timers, probe, td,
                         tgt>>
    BY <2>2, QuietKeeps DEF Untouched
  <2> QED BY <1>1, <2>1, <2>2 DEF StartupBound
<1>2. CASE Unanswered(s)
  <2>1. TornBy(s, "unanswered") /\ state'[s] = "CLEANING_UP"
    BY <1>0, <1>2, TearAt, BeginEndingMoves DEF Unanswered, BeginEnding
  <2>2. state[s] = "AWAITING_INPUT" /\ Active(s) /\ ~stopped[s] /\ NobodyDrives(s)
    BY <1>2, StateFacts DEF Unanswered, Active, DriverInv
  <2>3. UNCHANGED <<stopped, pipe, rst, kind, asked, launches, handle, run, dbs, clone>>
    BY <1>2 DEF Unanswered, BeginEnding
  <2> QED BY <1>0, <2>1, <2>2, <2>3, EndingKeeps
<1>3. CASE LifetimeOver(s)
  <2>1. TornBy(s, "stop") /\ state'[s] = "CLEANING_UP" /\ Active(s) /\ stopped'[s]
    BY <1>0, <1>3, TearAt, BeginEndingMoves DEF LifetimeOver, End, BeginEnding, TypeOK
  <2>2. UNCHANGED <<pipe, rst, kind, asked, launches, handle, run, dbs, clone>>
    BY <1>3 DEF LifetimeOver, End, BeginEnding
  <2> QED BY <1>0, <2>1, <2>2, EndingKeeps
<1>4. CASE Tick(s)
  BY <1>4, QuietKeeps DEF Tick, Untouched
<1>5. CASE Probed(s)
  <2>1. UNCHANGED <<stopped, pipe, rst, kind, asked, launches, handle, run, dbs, clone>>
    BY <1>5 DEF Probed
  <2>2. CASE UNCHANGED <<state, box, td, tgt>>
    BY <2>1, <2>2, QuietKeeps DEF Untouched
  <2>3. CASE Serving(s) /\ SetState(s, "PARTIALLY_READY") /\ UNCHANGED <<box, td, tgt>>
    <3>1. Serving(s)'
      BY <2>3, Constants, SetStateDrives, StateFacts DEF Serving, StateAfter
    <3> QED BY <2>1, <2>3, <3>1, QuietKeeps DEF Untouched
  <2>4. CASE Serving(s) /\ SetState(s, "CLEANING_UP") /\ BeginTeardown(s, "watch")
    <3>1. state'[s] = "CLEANING_UP"
      BY <2>4, Constants, SetStateDrives, StateFacts DEF StateAfter
    <3>2. TornBy(s, "watch")
      BY <1>0, <2>4, TearAt
    <3>3. Active(s) /\ ~stopped[s] /\ NobodyDrives(s)
      BY <2>4, StateFacts DEF Serving, Active, DriverInv
    <3> QED BY <1>0, <2>1, <3>1, <3>2, <3>3, EndingKeeps
  <2> QED BY <1>5, <2>2, <2>3, <2>4 DEF Probed
<1> QED BY <1>1, <1>2, <1>3, <1>4, <1>5 DEF Clocks

\* What people do.
LEMMA PeopleKeep ==
  ASSUME TypeOK, TypeOK', NEW s \in Sessions, DriverInv(s), BoxInv(s), ~abandoned[s],
         People(s) \/ ReplaceLaunch(s)
  PROVE  BoxInv(s)'
<1> USE DEF others, held
<1>0. {"stop", "cancel", "replace"} \subseteq Callers /\ Callers \subseteq Owners
  BY DEF Callers, Owners
<1>1. CASE Launch(s) \/ ReplaceLaunch(s)
  BY <1>1, CreateKeeps DEF Launch, ReplaceLaunch
<1>2. CASE ReplaceCancel(s)
  <2>1. TornBy(s, "replace") /\ state'[s] = "CLEANING_UP" /\ Active(s) /\ stopped'[s]
    BY <1>0, <1>2, TearAt, BeginEndingMoves DEF ReplaceCancel, BeginEnding, ActiveSessions, TypeOK
  <2>2. UNCHANGED <<pipe, rst, kind, asked, launches, handle, run, dbs, clone>>
    BY <1>2 DEF ReplaceCancel, BeginEnding
  <2> QED BY <1>0, <2>1, <2>2, EndingKeeps
<1>3. CASE Resolve(s)
  BY <1>3, ResolveKeeps
<1>4. CASE Touch(s)
  BY <1>4, QuietKeeps DEF Touch, Untouched
<1>5. CASE Restart(s)
  BY <1>5, RestartKeeps
<1>6. CASE \E e \in Enders : End(s, e)
  <2>1. PICK e \in Enders : End(s, e)
    BY <1>6
  <2>2. e \in Callers /\ e \in Owners
    BY <1>0, ConstantsAssumption
  <2>3. TornBy(s, e) /\ state'[s] = "CLEANING_UP" /\ Active(s) /\ stopped'[s]
    BY <2>1, <2>2, TearAt, BeginEndingMoves DEF End, BeginEnding, TypeOK
  <2>4. UNCHANGED <<pipe, rst, kind, asked, launches, handle, run, dbs, clone>>
    BY <2>1 DEF End, BeginEnding
  <2> QED BY <2>2, <2>3, <2>4, EndingKeeps
<1> QED BY <1>1, <1>2, <1>3, <1>4, <1>5, <1>6 DEF People

-----------------------------------------------------------------------------
\* A step of one session is no step of another

Kept(r) ==
  /\ state'[r] = state[r] /\ stopped'[r] = stopped[r] /\ abandoned'[r] = abandoned[r]
  /\ pipe'[r] = pipe[r] /\ rst'[r] = rst[r] /\ kind'[r] = kind[r] /\ asked'[r] = asked[r]
  /\ launches'[r] = launches[r] /\ handle'[r] = handle[r] /\ run'[r] = run[r]
  /\ dbs'[r] = dbs[r] /\ clone'[r] = clone[r]
  /\ td'[r] = td[r] /\ tgt'[r] = tgt[r] /\ box'[r] = box[r]

\* Where nothing the invariant reads changes, it holds on.
LEMMA KeptInv ==
  ASSUME NEW r \in Sessions, Kept(r)
  PROVE  BoxInv(r) => BoxInv(r)'
  BY DEF Kept, BoxInv, Endings, Planned, Waits, Placed, Running, Swept, Given, Bare, NeedsRun,
         Watching, Launching, Over, Serving, Held, NobodyDrives

\* The shared pieces write one session's containers.
LEMMA PiecesFrame ==
  ASSUME TypeOK, NEW s \in Sessions, NEW r \in Sessions \ {s}
  PROVE  /\ \A st \in ExecutionState : SetState(s, st) => state'[r] = state[r]
         /\ \A e \in Owners : BeginTeardown(s, e) =>
              box'[r] = box[r] /\ tgt'[r] = tgt[r] /\ td'[r] = td[r]
         /\ \A e \in Owners : \A n : Sweep(s, e, n) => box'[r] = box[r] /\ tgt'[r] = tgt[r]
         /\ NewBox(s) => box'[r] = box[r] /\ launches'[r] = launches[r]
  BY SetStateDrives, TearAt, SweepAt, NewBoxAt

\* What a step of the pipeline may write beside its own place and its containers.
PieceKept(r) ==
  /\ state'[r] = state[r] /\ pipe'[r] = pipe[r]
  /\ box'[r] = box[r] /\ tgt'[r] = tgt[r] /\ td'[r] = td[r]

\* A piece of the pipeline concerns its own session only.
LEMMA PipePiecesFrame ==
  ASSUME TypeOK, NEW s \in Sessions, NEW r \in Sessions \ {s}
  PROVE  /\ \A st \in ExecutionState : EndPipeline(s, st) => PieceKept(r)
         /\ Bail(s) => PieceKept(r)
         /\ \A st \in ExecutionState : \A step : Advance(s, st, step) => PieceKept(r)
         /\ \A n, step : Remove(s, n, step) => PieceKept(r)
         /\ \A q : AwaitInput(s, q) => PieceKept(r) /\ asked'[r] = asked[r]
         /\ Repair(s) => PieceKept(r)
<1> USE PiecesFrame, Constants DEF PieceKept, TypeOK
<1>0. "pipeline" \in Owners /\ {"AWAITING_INPUT", "REPAIRING"} \subseteq ExecutionState
  OBVIOUS
<1>1. \A st \in ExecutionState : EndPipeline(s, st) => PieceKept(r)
  BY <1>0 DEF EndPipeline
<1>2. Bail(s) => PieceKept(r)
  BY <1>0 DEF Bail
<1>3. \A st \in ExecutionState : \A step : Advance(s, st, step) => PieceKept(r)
  BY <1>0 DEF Advance
<1>4. \A n, step : Remove(s, n, step) => PieceKept(r)
  BY <1>0 DEF Remove
<1>5. \A q : AwaitInput(s, q) => PieceKept(r) /\ asked'[r] = asked[r]
  BY <1>0 DEF AwaitInput
<1>6. Repair(s) => PieceKept(r)
  BY <1>0 DEF Repair
<1> QED BY <1>1, <1>2, <1>3, <1>4, <1>5, <1>6

\* A step of a pipeline concerns its own session only.
LEMMA PipelineFrame ==
  ASSUME TypeOK, NEW s \in Sessions, NEW r \in Sessions \ {s}, Pipeline(s)
  PROVE  Kept(r)
<1> USE PipePiecesFrame, PiecesFrame, Constants DEF Kept, PieceKept, others, held, TypeOK
<1>1. CASE DockerReady(s)
  BY <1>1 DEF DockerReady
<1>2. CASE CloneDone(s)
  BY <1>2 DEF CloneDone
<1>3. CASE AnalyseDone(s)
  BY <1>3 DEF AnalyseDone
<1>4. CASE PlanDone(s)
  BY <1>4 DEF PlanDone
<1>5. CASE Validated(s)
  BY <1>5 DEF Validated
<1>6. CASE Provisioned(s)
  BY <1>6 DEF Provisioned, Undo
<1>7. CASE CreateContainer(s)
  BY <1>7 DEF CreateContainer, Undo
<1>8. CASE Launched(s)
  BY <1>8 DEF Launched, Undo
<1>9. CASE Undone(s)
  BY <1>9 DEF Undone
<1>10. CASE Dropped(s)
  BY <1>10 DEF Dropped
<1>11. CASE ReadyDone(s)
  BY <1>11 DEF ReadyDone
<1>12. CASE Diagnosed(s)
  BY <1>12 DEF Diagnosed
<1>13. CASE Asked(s)
  BY <1>13 DEF Asked
<1>14. CASE Repaired(s)
  BY <1>14 DEF Repaired
<1>15. CASE Recreate(s)
  BY <1>15 DEF Recreate
<1>16. CASE Relaunched(s)
  BY <1>16 DEF Relaunched
<1>17. CASE SmokeDone(s)
  BY <1>17 DEF SmokeDone
<1> QED BY <1>1, <1>2, <1>3, <1>4, <1>5, <1>6, <1>7, <1>8, <1>9, <1>10,
         <1>11, <1>12, <1>13, <1>14, <1>15, <1>16, <1>17 DEF Pipeline

\* A step of a restart concerns its own session only.
LEMMA RestartingFrame ==
  ASSUME TypeOK, NEW s \in Sessions, NEW r \in Sessions \ {s}, Restarting(s)
  PROVE  Kept(r)
<1> USE PiecesFrame, Constants DEF Kept, others, held, TypeOK
<1>0. "restart" \in Owners
  OBVIOUS
<1>1. /\ \A n, step : RestartGoes(s, step, n) =>
           rst'[r] = rst[r] /\ box'[r] = box[r] /\ tgt'[r] = tgt[r] /\ td'[r] = td[r]
      /\ RestartFails(s) => /\ rst'[r] = rst[r] /\ state'[r] = state[r]
                            /\ box'[r] = box[r] /\ tgt'[r] = tgt[r] /\ td'[r] = td[r]
      /\ \A st \in ServingStates : RestartServes(s, st) =>
           /\ rst'[r] = rst[r] /\ state'[r] = state[r]
           /\ box'[r] = box[r] /\ tgt'[r] = tgt[r] /\ td'[r] = td[r]
  BY <1>0 DEF RestartGoes, RestartFails, RestartServes
<1>2. CASE RestartCleaned(s)
  BY <1>1, <1>2 DEF RestartCleaned
<1>3. CASE RestartCreate(s)
  BY <1>1, <1>3 DEF RestartCreate
<1>4. CASE RestartLaunched(s)
  BY <1>1, <1>4 DEF RestartLaunched
<1>5. CASE RestartDropped(s)
  BY <1>1, <1>5 DEF RestartDropped
<1>6. CASE RestartReady(s)
  BY <1>1, <1>6 DEF RestartReady, ServingStates
<1>7. CASE RestartSmoked(s)
  BY <1>1, <1>7 DEF RestartSmoked
<1> QED BY <1>2, <1>3, <1>4, <1>5, <1>6, <1>7 DEF Restarting

\* The beginning of an ending concerns its own session only.
LEMMA EndingFrame ==
  ASSUME TypeOK, NEW s \in Sessions, NEW r \in Sessions \ {s}, NEW e \in Owners,
         BeginEnding(s, e), stopped'[r] = stopped[r], abandoned'[r] = abandoned[r]
  PROVE  Kept(r)
  BY PiecesFrame, Constants DEF BeginEnding, Kept, held

\* What people, clocks and containers do concerns one session only.
LEMMA OutsideFrame ==
  ASSUME TypeOK, NEW s \in Sessions, NEW r \in Sessions \ {s},
         Clocks(s) \/ People(s) \/ ReplaceLaunch(s)
  PROVE  Kept(r)
<1> USE PiecesFrame, EndingFrame, Constants DEF Kept, others, held, TypeOK
<1>1. CASE StartupBound(s)
  BY <1>1 DEF StartupBound, Abandon
<1>2. CASE Unanswered(s)
  BY <1>2 DEF Unanswered
<1>3. ASSUME NEW e \in {"stop", "cancel"}, End(s, e) PROVE Kept(r)
  BY <1>3 DEF End
<1>4. CASE LifetimeOver(s)
  BY <1>3, <1>4 DEF LifetimeOver
<1>5. CASE Tick(s)
  BY <1>5 DEF Tick
<1>6. CASE Probed(s)
  BY <1>6 DEF Probed
<1>7. CASE Launch(s) \/ ReplaceLaunch(s)
  BY <1>7 DEF Launch, ReplaceLaunch, Create
<1>8. CASE ReplaceCancel(s)
  BY <1>8 DEF ReplaceCancel
<1>9. CASE Resolve(s)
  BY <1>9 DEF Resolve
<1>10. CASE Touch(s)
  BY <1>10 DEF Touch
<1>11. CASE Restart(s)
  <2>1. state'[r] = state[r] /\ box'[r] = box[r] /\ tgt'[r] = tgt[r]
    <3>1. "restart" \in Owners /\ "STARTING" \in ExecutionState
      OBVIOUS
    <3> QED BY <1>11, <3>1 DEF Restart
  <2>2. rst'[r] = rst[r]
    BY <1>11 DEF Restart
  <2> QED BY <1>11, <2>1, <2>2 DEF Restart
<1>12. CASE \E e \in Enders : End(s, e)
  BY <1>3, <1>12, ConstantsAssumption
<1> QED BY <1>1, <1>2, <1>4, <1>5, <1>6, <1>7, <1>8, <1>9, <1>10, <1>11, <1>12
        DEF Clocks, People

\* A step of a teardown concerns its own session only.
LEMMA TeardownFrame ==
  ASSUME TypeOK, NEW s \in Sessions, NEW r \in Sessions \ {s}, NEW e \in Owners,
         Teardown(s, e)
  PROVE  Kept(r)
<1> USE PiecesFrame, Constants DEF Kept, others, TypeOK
<1>1. CASE ContainersGone(s, e)
  BY <1>1 DEF ContainersGone
<1>2. CASE BackingGone(s, e)
  BY <1>2 DEF BackingGone
<1>3. CASE Released(s, e)
  <2>1. e \in Callers => FinalStates(e) \subseteq ExecutionState
    BY DEF FinalStates, Callers
  <2> QED BY <1>3, <2>1 DEF Released
<1> QED BY <1>1, <1>2, <1>3 DEF Teardown

-----------------------------------------------------------------------------
\* The theorems

\* A session abandoned once is abandoned for good.
LEMMA AbandonedStays ==
  ASSUME TypeOK, Next
  PROVE  \A r \in Sessions : abandoned[r] => abandoned'[r]
<1>1. PICK s \in Sessions : Step(s)
  BY NextIsStep
<1>2. abandoned[s] => abandoned'[s]
  BY <1>1 DEF Step, Move, PipeMove, RestMove, CreateMove, RestartMove, ResolveMove,
              PartialMove, EndMove, LapseMove, AbandonMove, ReleaseMove, QuietMove, Marks, TypeOK
<1>3. \A r \in Sessions \ {s} : abandoned'[r] = abandoned[r]
  BY <1>1 DEF Step, Same
<1> QED BY <1>2, <1>3

\* Every step keeps what is held by whom.
LEMMA BoxesStep ==
  ASSUME TypeOK, TypeOK', DriversInv, BoxesInv, Next
  PROVE  BoxesInv'
<1>1. PICK s \in Sessions :
        \/ Pipeline(s) \/ Restarting(s) \/ Clocks(s) \/ People(s) \/ ReplaceLaunch(s)
        \/ \E e \in Owners : Teardown(s, e)
  BY DEF Next
<1>2. \A r \in Sessions \ {s} : Kept(r)
  BY <1>1, PipelineFrame, RestartingFrame, OutsideFrame, TeardownFrame
<1>3. ASSUME ~abandoned'[s] PROVE BoxInv(s)'
  <2>1. ~abandoned[s] /\ BoxInv(s) /\ DriverInv(s)
    BY <1>3, AbandonedStays DEF BoxesInv, Sound, DriversInv
  <2>2. CASE Pipeline(s)
    BY <2>1, <2>2, EarlyKeeps, StartKeeps, ReadyKeeps DEF Pipeline
  <2>3. CASE Restarting(s)
    BY <2>1, <2>3, RestartingKeeps
  <2>4. CASE Clocks(s)
    BY <1>3, <2>1, <2>4, ClocksKeep
  <2>5. CASE People(s) \/ ReplaceLaunch(s)
    BY <2>1, <2>5, PeopleKeep
  <2>6. CASE \E e \in Owners : Teardown(s, e)
    BY <2>1, <2>6, TeardownKeeps
  <2> QED BY <1>1, <2>2, <2>3, <2>4, <2>5, <2>6
<1>4. ASSUME NEW r \in Sessions \ {s}, ~abandoned'[r] PROVE BoxInv(r)'
  <2>1. ~abandoned[r] /\ BoxInv(r)
    BY <1>2, <1>4 DEF Kept, BoxesInv, Sound
  <2> QED BY <1>2, <2>1, KeptInv
<1> QED BY <1>3, <1>4 DEF BoxesInv, Sound

\* Whatever a session has in Docker or on disk has somebody who knows of it, and what
\* a page names runs: the inductive invariant of the teardowns, the repairs and the
\* restarts (SessionManager.ts).
THEOREM BoxesCorrect == Spec => []BoxesInv
<1>1. Init => BoxesInv
  <2> SUFFICES ASSUME Init, NEW s \in Sessions PROVE BoxInv(s)
    BY DEF BoxesInv
  <2>1. /\ state[s] = NoSession /\ ~stopped[s] /\ pipe[s] = "idle" /\ rst[s] = "idle"
        /\ kind[s] = "none" /\ launches[s] = 0 /\ handle[s] = 0
        /\ ~run[s] /\ ~dbs[s] /\ ~clone[s]
        /\ \A n \in Boxes : box[s][n] = "none"
        /\ \A e \in Owners : td[s][e] = "idle" /\ tgt[s][e] = 0
    BY DEF Init
  <2>2. ~Over(s) /\ ~Serving(s) /\ state[s] # "AWAITING_INPUT"
    BY <2>1, StateFacts DEF Over, Serving
  <2> QED BY <2>1, <2>2 DEF BoxInv, Endings, Planned, Waits, Placed, Running, Swept, Given,
             Bare, Early, NeedsRun, Watching, Launching
<1>2. TypeOK /\ TypeOK' /\ DriversInv /\ BoxesInv /\ [Next]_vars => BoxesInv'
  <2>1. ASSUME UNCHANGED vars, BoxesInv PROVE BoxesInv'
    <3>1. \A r \in Sessions : Kept(r)
      BY <2>1 DEF vars, Kept
    <3> QED BY <2>1, <3>1, KeptInv DEF BoxesInv, Sound, Kept
  <2> QED BY <2>1, BoxesStep
<1> QED BY <1>1, <1>2, TypeCorrect, DriversCorrect, PTL DEF Spec

\* Never two running containers of one session (beginRepair, service.restart, restart).
THEOREM ContainersAreAlone == Spec => []OneContainer
<1>1. TypeOK /\ BoxesInv => OneContainer
  <2> SUFFICES ASSUME TypeOK, BoxesInv, NEW s \in Sessions, Sound(s)
               PROVE  Cardinality({n \in Boxes : box[s][n] = "live"}) <= 1
    BY DEF OneContainer
  <2> DEFINE L == {n \in Boxes : box[s][n] = "live"}
  <2>1. L \subseteq {launches[s]}
    BY DEF BoxesInv, BoxInv, Placed
  <2>2. IsFiniteSet({launches[s]}) /\ Cardinality({launches[s]}) = 1
    BY FS_Singleton
  <2>3. Cardinality(L) <= Cardinality({launches[s]})
    BY <2>1, <2>2, FS_Subset
  <2> QED BY <2>2, <2>3
<1> QED BY <1>1, TypeCorrect, BoxesCorrect, PTL

\* What is shown as running is running, and nobody is removing it (declareServing, the
\* liveness watch, setState's guard).
THEOREM ServingIsTrue == Spec => []ServingOwnsContainer
<1>1. DriversInv /\ BoxesInv => ServingOwnsContainer
  <2> SUFFICES ASSUME DriversInv, BoxesInv, NEW s \in Sessions, Serving(s), Sound(s)
               PROVE  /\ Held(s) # 0 /\ box[s][handle[s]] = "live"
                      /\ \A e \in Owners : td[s][e] = "idle"
    BY DEF ServingOwnsContainer
  <2>1. ~stopped[s] /\ ~Over(s)
    BY StateFacts DEF DriversInv, DriverInv, Serving, Over
  <2>2. handle[s] # 0 /\ box[s][handle[s]] = "live"
    BY <2>1 DEF BoxesInv, BoxInv, Running, Watching
  <2>3. kind[s] = "project" => run[s]
    BY <2>1 DEF BoxesInv, BoxInv, Planned, NeedsRun
  <2>4. \A e \in Owners : td[s][e] = "idle"
    BY <2>1 DEF BoxesInv, BoxInv, Endings
  <2> QED BY <2>2, <2>3, <2>4 DEF Held
<1> QED BY <1>1, DriversCorrect, BoxesCorrect, PTL

\* A finished session leaves nothing behind, whichever of its pipeline, its restart and
\* those who ended it was the last to finish (teardown).
THEOREM NothingIsLeft == Spec => []NoLeak
<1>1. TypeOK /\ BoxesInv => NoLeak
  <2> SUFFICES ASSUME TypeOK, BoxesInv, NEW s \in Sessions, Ended(s), Quiet(s), Sound(s)
               PROVE  /\ \A n \in Boxes : box[s][n] \in {"none", "gone"}
                      /\ ~dbs[s] /\ ~run[s]
                      /\ clone[s] => kind[s] = "none" /\ asked[s] = "choice"
    BY DEF NoLeak
  <2>1. /\ BoxInv(s) /\ Over(s) /\ ~Serving(s)
        /\ pipe[s] = "idle" /\ rst[s] = "idle" /\ \A e \in Owners : td[s][e] = "idle"
    BY StateFacts DEF BoxesInv, Ended, Quiet, Over, Serving
  <2>2. \A n \in Boxes : box[s][n] # "live"
    BY <2>1 DEF BoxInv, Placed, Launching, Watching
  <2>3. \A n \in Boxes : box[s][n] # "sweeping"
    BY <2>1, TypesAt DEF BoxInv, Swept
  <2>4. ~run[s] /\ (clone[s] => kind[s] = "none" /\ asked[s] = "choice")
    BY <2>1 DEF BoxInv, Given
  <2>5. ~dbs[s]
    <3>1. kind[s] \in {"none", "single", "project"}
      BY TypesAt
    <3> QED BY <2>1, <2>4, <3>1 DEF BoxInv, Given, Planned
  <2>6. \A n \in Boxes : box[s][n] \in {"none", "gone"}
    BY <2>2, <2>3, TypesAt DEF BoxStates
  <2> QED BY <2>4, <2>5, <2>6
<1> QED BY <1>1, TypeCorrect, BoxesCorrect, PTL

=============================================================================
