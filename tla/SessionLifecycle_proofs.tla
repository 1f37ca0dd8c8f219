------------------------ MODULE SessionLifecycle_proofs ------------------------
(***************************************************************************)
(* Theorems about SessionLifecycle, for any number of sessions, any limit  *)
(* and any bound on containers.                                            *)
(***************************************************************************)
EXTENDS SessionLifecycle, FiniteSetTheorems, TLAPS

-----------------------------------------------------------------------------
\* Typing: one lemma per shared piece, then one per action.

LEMMA SetStateType ==
  ASSUME TypeOK, NEW s \in Sessions, NEW st \in ExecutionState, SetState(s, st)
  PROVE  /\ state' \in [Sessions -> ExecutionState \cup {NoSession}]
         /\ bound' \in [Sessions -> BOOLEAN]
  BY DEF TypeOK, SetState, StateAfter

LEMMA SweepType ==
  ASSUME TypeOK, NEW s \in Sessions, NEW e \in Owners, NEW n \in 0..MaxLaunches,
         Sweep(s, e, n)
  PROVE  /\ box' \in [Sessions -> [Boxes -> BoxStates]]
         /\ tgt' \in [Sessions -> [Owners -> 0..MaxLaunches]]
<1>1. box' \in [Sessions -> [Boxes -> BoxStates]]
  <2> DEFINE b == [m \in Boxes |->
                     IF m = tgt[s][e] THEN "gone"
                     ELSE IF m = n /\ box[s][m] = "live" THEN "sweeping" ELSE box[s][m]]
  <2>1. box' = [box EXCEPT ![s] = b]
    BY DEF Sweep
  <2>2. b \in [Boxes -> BoxStates]
    BY DEF TypeOK, BoxStates
  <2> QED BY <2>1, <2>2 DEF TypeOK
<1>2. tgt' \in [Sessions -> [Owners -> 0..MaxLaunches]]
  <2> DEFINE t == IF \E m \in Boxes : m = n /\ box[s][m] = "live" THEN n ELSE 0
  <2>1. t \in 0..MaxLaunches
    BY ConstantsAssumption
  <2>2. tgt' = [tgt EXCEPT ![s][e] = t]
    BY DEF Sweep
  <2> HIDE DEF t
  <2> QED BY <2>1, <2>2 DEF TypeOK
<1> QED BY <1>1, <1>2

LEMMA HeldType ==
  ASSUME TypeOK, NEW s \in Sessions
  PROVE  Held(s) \in 0..MaxLaunches
  BY ConstantsAssumption DEF TypeOK, Held

LEMMA BeginTeardownType ==
  ASSUME TypeOK, NEW s \in Sessions, NEW e \in Owners, BeginTeardown(s, e),
         handle' \in [Sessions -> 0..MaxLaunches]
  PROVE  /\ timers' \in [Sessions -> SUBSET {"unanswered", "idle", "cap", "tick"}]
         /\ td' \in [Sessions -> [Owners -> TeardownSteps]]
         /\ box' \in [Sessions -> [Boxes -> BoxStates]]
         /\ tgt' \in [Sessions -> [Owners -> 0..MaxLaunches]]
<1>1. Held(s)' \in 0..MaxLaunches
  BY ConstantsAssumption DEF Held
<1>2. Sweep(s, e, Held(s)')
  BY DEF BeginTeardown
<1>3. /\ timers' \in [Sessions -> SUBSET {"unanswered", "idle", "cap", "tick"}]
      /\ td' \in [Sessions -> [Owners -> TeardownSteps]]
  BY DEF TypeOK, BeginTeardown, AfterContainers, TeardownSteps
<1> QED BY <1>1, <1>2, <1>3, SweepType

\* What the pipeline's shared pieces assign.
CoreOK ==
  /\ state \in [Sessions -> ExecutionState \cup {NoSession}]
  /\ pipe \in [Sessions -> PipeSteps]
  /\ box \in [Sessions -> [Boxes -> BoxStates]]
  /\ bound \in [Sessions -> BOOLEAN]
  /\ timers \in [Sessions -> SUBSET {"unanswered", "idle", "cap", "tick"}]
  /\ td \in [Sessions -> [Owners -> TeardownSteps]]
  /\ tgt \in [Sessions -> [Owners -> 0..MaxLaunches]]

LEMMA PiecesType ==
  ASSUME TypeOK, NEW s \in Sessions
  PROVE  /\ \A st \in ExecutionState :
              EndPipeline(s, st) /\ handle' \in [Sessions -> 0..MaxLaunches] => CoreOK'
         /\ Bail(s) /\ handle' \in [Sessions -> 0..MaxLaunches] => CoreOK'
         /\ \A st \in ExecutionState, step \in PipeSteps : Advance(s, st, step) => CoreOK'
         /\ \A n \in 0..MaxLaunches, step \in PipeSteps : Remove(s, n, step) => CoreOK'
         /\ \A q : AwaitInput(s, q) => CoreOK'
<1>0. "pipeline" \in Owners /\ 0 \in 0..MaxLaunches /\ "idle" \in PipeSteps
  BY ConstantsAssumption DEF Owners, PipeSteps
<1>1. ASSUME NEW st \in ExecutionState, EndPipeline(s, st),
             handle' \in [Sessions -> 0..MaxLaunches]
      PROVE  CoreOK'
  BY <1>0, <1>1, SetStateType, BeginTeardownType DEF EndPipeline, CoreOK, TypeOK
<1>2. ASSUME Bail(s), handle' \in [Sessions -> 0..MaxLaunches]
      PROVE  CoreOK'
  BY <1>0, <1>2, BeginTeardownType DEF Bail, CoreOK, TypeOK
<1>3. ASSUME NEW st \in ExecutionState, NEW step \in PipeSteps, Advance(s, st, step)
      PROVE  CoreOK'
  BY <1>0, <1>3, SetStateType, SweepType DEF Advance, CoreOK, TypeOK
<1>4. ASSUME NEW n \in 0..MaxLaunches, NEW step \in PipeSteps, Remove(s, n, step)
      PROVE  CoreOK'
  BY <1>0, <1>4, SweepType DEF Remove, CoreOK, TypeOK
<1>5. ASSUME NEW q, AwaitInput(s, q)
      PROVE  CoreOK'
  <2>1. "AWAITING_INPUT" \in ExecutionState
    BY DEF ExecutionState
  <2>2. timers' \in [Sessions -> SUBSET {"unanswered", "idle", "cap", "tick"}]
    BY <1>5 DEF AwaitInput, TypeOK
  <2> QED BY <1>0, <1>5, <2>1, <2>2, SetStateType, SweepType DEF AwaitInput, CoreOK, TypeOK
<1> QED BY <1>1, <1>2, <1>3, <1>4, <1>5

LEMMA NewBoxType ==
  ASSUME TypeOK, NEW s \in Sessions, NewBox(s)
  PROVE  /\ launches' \in [Sessions -> 0..MaxLaunches]
         /\ box' \in [Sessions -> [Boxes -> BoxStates]]
  BY ConstantsAssumption DEF TypeOK, NewBox, BoxStates, Boxes

LEMMA ArmLifetimeType ==
  ASSUME TypeOK, NEW s \in Sessions, ArmLifetime(s)
  PROVE  /\ timers' \in [Sessions -> SUBSET {"unanswered", "idle", "cap", "tick"}]
         /\ probe' \in [Sessions -> BOOLEAN]
  BY DEF TypeOK, ArmLifetime

\* The values the actions use.
LEMMA Constants ==
  /\ {"QUEUED", "CLONING", "ANALYZING", "PLANNING", "VALIDATING", "AWAITING_INPUT",
      "STARTING", "WAITING_FOR_READY", "READY", "PARTIALLY_READY", "FAILED", "REPAIRING",
      "CLEANING_UP", "COMPLETED", "CANCELLED"} \subseteq ExecutionState
  /\ PipeSteps =
       {"idle", "docker", "clone", "analyse", "plan", "validate", "provision", "create",
        "launch", "recreate", "relaunch", "drop", "undo", "ready", "diagnose", "asking",
        "repair", "smoke"}
  /\ {"pipeline", "restart", "stop", "cancel", "replace", "abandon", "unanswered",
      "watch"} = Owners
  /\ ServingStates \subseteq ExecutionState
  BY DEF ExecutionState, PipeSteps, Owners, Callers, ServingStates

LEMMA PipelineType ==
  ASSUME TypeOK, NEW s \in Sessions, Pipeline(s)
  PROVE  TypeOK'
<1> USE ConstantsAssumption, Constants, PiecesType
<1>1. CASE DockerReady(s)
  <2>1. handle' \in [Sessions -> 0..MaxLaunches]
    BY <1>1 DEF DockerReady, held, TypeOK
  <2>2. CoreOK'
    BY <1>1, <2>1 DEF DockerReady, held, CoreOK, TypeOK
  <2> QED BY <1>1, <2>1, <2>2 DEF DockerReady, CoreOK, TypeOK, others, held
<1>2. CASE CloneDone(s)
  <2>1. handle' \in [Sessions -> 0..MaxLaunches]
    BY <1>2 DEF CloneDone, TypeOK
  <2>2. CoreOK'
    BY <1>2, <2>1 DEF CloneDone, CoreOK, TypeOK
  <2> QED BY <1>2, <2>1, <2>2 DEF CloneDone, CoreOK, TypeOK, others
<1>3. CASE AnalyseDone(s)
  <2>1. handle' \in [Sessions -> 0..MaxLaunches]
    BY <1>3 DEF AnalyseDone, held, TypeOK
  <2>2. CoreOK'
    BY <1>3, <2>1 DEF AnalyseDone, held, CoreOK, TypeOK
  <2> QED BY <1>3, <2>1, <2>2 DEF AnalyseDone, CoreOK, TypeOK, others, held
<1>4. CASE PlanDone(s)
  <2>1. handle' \in [Sessions -> 0..MaxLaunches]
    BY <1>4 DEF PlanDone, held, TypeOK
  <2>2. CoreOK'
    BY <1>4, <2>1 DEF PlanDone
  <2>3. kind' \in [Sessions -> {"none", "single", "project"}]
    <3>1. kind' = kind \/ \E k \in Kinds : kind' = [kind EXCEPT ![s] = k]
      BY <1>4 DEF PlanDone
    <3>2. ASSUME NEW k \in Kinds, kind' = [kind EXCEPT ![s] = k]
          PROVE  kind' \in [Sessions -> {"none", "single", "project"}]
      <4>1. k \in {"none", "single", "project"}
        BY ConstantsAssumption
      <4> QED BY <3>2, <4>1 DEF TypeOK
    <3> QED BY <3>1, <3>2 DEF TypeOK
  <2>4. asked' \in [Sessions -> {"none", "choice", "env", "crash"}]
    <3>1. \/ asked' = asked
          \/ \E q \in {"choice", "env"} : asked' = [asked EXCEPT ![s] = q]
      BY <1>4 DEF PlanDone, AwaitInput
    <3> QED BY <3>1 DEF TypeOK
  <2> QED BY <1>4, <2>2, <2>3, <2>4 DEF PlanDone, CoreOK, TypeOK, others, held
<1>5. CASE Validated(s)
  <2>1. handle' \in [Sessions -> 0..MaxLaunches]
    BY <1>5 DEF Validated, TypeOK
  <2>2. CoreOK'
    BY <1>5, <2>1 DEF Validated, CoreOK, TypeOK
  <2> QED BY <1>5, <2>1, <2>2 DEF Validated, CoreOK, TypeOK, others
<1>6. CASE Provisioned(s)
  <2>1. handle' \in [Sessions -> 0..MaxLaunches]
    BY <1>6 DEF Provisioned, TypeOK
  <2>2. CoreOK'
    BY <1>6, <2>1 DEF Provisioned, Undo, CoreOK, TypeOK
  <2> QED BY <1>6, <2>1, <2>2 DEF Provisioned, CoreOK, TypeOK, others
<1>7. CASE CreateContainer(s)
  <2>1. handle' \in [Sessions -> 0..MaxLaunches] /\ "launch" \in PipeSteps
    BY <1>7 DEF CreateContainer, TypeOK
  <2>2. CASE NewBox(s) /\ pipe' = [pipe EXCEPT ![s] = "launch"]
             /\ UNCHANGED <<state, bound, timers, td, tgt>>
    BY <1>7, <2>1, <2>2, NewBoxType DEF CreateContainer, TypeOK, others
  <2>3. CASE (EndPipeline(s, "FAILED") \/ Undo(s, 0)) /\ UNCHANGED launches
    <3>1. CoreOK'
      BY <2>1, <2>3 DEF Undo
    <3> QED BY <1>7, <2>3, <3>1 DEF CreateContainer, CoreOK, TypeOK, others
  <2> QED BY <1>7, <2>2, <2>3 DEF CreateContainer
<1>8. CASE Launched(s)
  <2>1. handle' \in [Sessions -> 0..MaxLaunches]
    BY <1>8 DEF Launched, TypeOK
  <2>2. CoreOK'
    BY <1>8, <2>1 DEF Launched, Undo, CoreOK, TypeOK
  <2> QED BY <1>8, <2>1, <2>2 DEF Launched, CoreOK, TypeOK, others
<1>9. CASE Undone(s)
  <2>1. handle' \in [Sessions -> 0..MaxLaunches]
    BY <1>9 DEF Undone, TypeOK
  <2>2. CoreOK'
    BY <1>9, <2>1 DEF Undone, CoreOK, TypeOK
  <2> QED BY <1>9, <2>1, <2>2 DEF Undone, CoreOK, TypeOK, others
<1>10. CASE Dropped(s)
  <2>1. handle' \in [Sessions -> 0..MaxLaunches]
    BY <1>10 DEF Dropped, held, TypeOK
  <2>2. CoreOK'
    BY <1>10, <2>1 DEF Dropped, held, CoreOK, TypeOK
  <2> QED BY <1>10, <2>1, <2>2 DEF Dropped, CoreOK, TypeOK, others, held
<1>11. CASE ReadyDone(s)
  <2>1. handle' \in [Sessions -> 0..MaxLaunches]
    BY <1>11 DEF ReadyDone, held, TypeOK
  <2>2. CoreOK'
    BY <1>11, <2>1 DEF ReadyDone, held, CoreOK, TypeOK
  <2> QED BY <1>11, <2>1, <2>2 DEF ReadyDone, CoreOK, TypeOK, others, held
<1>12. CASE Diagnosed(s)
  <2>1. handle' \in [Sessions -> 0..MaxLaunches]
    BY <1>12 DEF Diagnosed, held, TypeOK
  <2>2. CoreOK'
    BY <1>12, <2>1, ArmLifetimeType, SetStateType, SweepType, HeldType DEF Diagnosed, MayRelaunch, Repair, held, CoreOK, TypeOK
  <2> QED BY <1>12, <2>1, <2>2, ArmLifetimeType, SetStateType, SweepType, HeldType DEF Diagnosed, CoreOK, TypeOK, others, held
<1>13. CASE Asked(s)
  <2>1. CoreOK'
    BY <1>13 DEF Asked
  <2>2. /\ handle' \in [Sessions -> 0..MaxLaunches]
        /\ run' \in [Sessions -> BOOLEAN]
        /\ dbs' \in [Sessions -> BOOLEAN]
    BY <1>13 DEF Asked, TypeOK
  <2>3. asked' \in [Sessions -> {"none", "choice", "env", "crash"}]
    BY <1>13 DEF Asked, AwaitInput, TypeOK
  <2> QED BY <1>13, <2>1, <2>2, <2>3 DEF Asked, CoreOK, TypeOK, others
<1>14. CASE Repaired(s)
  <2>1. handle' \in [Sessions -> 0..MaxLaunches]
    BY <1>14 DEF Repaired, TypeOK
  <2>2. CoreOK'
    BY <1>14, <2>1 DEF Repaired, CoreOK, TypeOK
  <2> QED BY <1>14, <2>1, <2>2 DEF Repaired, CoreOK, TypeOK, others
<1>15. CASE Recreate(s)
  <2>1. handle' \in [Sessions -> 0..MaxLaunches]
    BY <1>15 DEF Recreate, TypeOK
  <2>2. CoreOK'
    BY <1>15, <2>1, NewBoxType DEF Recreate, CoreOK, TypeOK
  <2> QED BY <1>15, <2>1, <2>2, NewBoxType DEF Recreate, CoreOK, TypeOK, others
<1>16. CASE Relaunched(s)
  <2>1. handle' \in [Sessions -> 0..MaxLaunches]
    BY <1>16 DEF Relaunched, TypeOK
  <2>2. CoreOK'
    BY <1>16, <2>1 DEF Relaunched, CoreOK, TypeOK
  <2> QED BY <1>16, <2>1, <2>2 DEF Relaunched, CoreOK, TypeOK, others
<1>17. CASE SmokeDone(s)
  <2>1. handle' \in [Sessions -> 0..MaxLaunches]
    BY <1>17 DEF SmokeDone, held, TypeOK
  <2>2. CoreOK'
    BY <1>17, <2>1, ArmLifetimeType, SetStateType DEF SmokeDone, held, CoreOK, TypeOK
  <2> QED BY <1>17, <2>1, <2>2, ArmLifetimeType, SetStateType DEF SmokeDone, CoreOK, TypeOK, others, held
<1> QED BY <1>1, <1>2, <1>3, <1>4, <1>5, <1>6, <1>7, <1>8, <1>9, <1>10,
         <1>11, <1>12, <1>13, <1>14, <1>15, <1>16, <1>17 DEF Pipeline

\* What a restart's shared pieces assign.
LEMMA RestartPiecesType ==
  ASSUME TypeOK, NEW s \in Sessions
  PROVE  /\ \A n \in 0..MaxLaunches, step \in RestartSteps : RestartGoes(s, step, n) =>
              /\ rst' \in [Sessions -> RestartSteps]
              /\ timers' = timers /\ td' = td
              /\ box' \in [Sessions -> [Boxes -> BoxStates]]
              /\ tgt' \in [Sessions -> [Owners -> 0..MaxLaunches]]
         /\ RestartFails(s) /\ handle' \in [Sessions -> 0..MaxLaunches] /\ pipe' = pipe =>
              CoreOK' /\ rst' \in [Sessions -> RestartSteps]
         /\ \A st \in ServingStates : RestartServes(s, st) /\ pipe' = pipe =>
              /\ CoreOK'
              /\ rst' \in [Sessions -> RestartSteps]
              /\ probe' \in [Sessions -> BOOLEAN]
<1>0. "restart" \in Owners /\ "idle" \in RestartSteps /\ "FAILED" \in ExecutionState
  BY Constants DEF RestartSteps
<1>1. ASSUME NEW n \in 0..MaxLaunches, NEW step \in RestartSteps, RestartGoes(s, step, n)
      PROVE  /\ rst' \in [Sessions -> RestartSteps]
             /\ timers' = timers /\ td' = td
             /\ box' \in [Sessions -> [Boxes -> BoxStates]]
             /\ tgt' \in [Sessions -> [Owners -> 0..MaxLaunches]]
  BY <1>0, <1>1, SweepType DEF RestartGoes, TypeOK
<1>2. ASSUME RestartFails(s), handle' \in [Sessions -> 0..MaxLaunches], pipe' = pipe
      PROVE  CoreOK' /\ rst' \in [Sessions -> RestartSteps]
  BY <1>0, <1>2, SetStateType, BeginTeardownType DEF RestartFails, CoreOK, TypeOK
<1>3. ASSUME NEW st \in ServingStates, RestartServes(s, st), pipe' = pipe
      PROVE  /\ CoreOK'
             /\ rst' \in [Sessions -> RestartSteps]
             /\ probe' \in [Sessions -> BOOLEAN]
  BY <1>0, <1>3, Constants, SetStateType, ArmLifetimeType DEF RestartServes, CoreOK, TypeOK
<1> QED BY <1>1, <1>2, <1>3

LEMMA RestartingType ==
  ASSUME TypeOK, NEW s \in Sessions, Restarting(s)
  PROVE  TypeOK'
<1> USE ConstantsAssumption, Constants, RestartPiecesType
<1>0. /\ RestartSteps = {"idle", "cleaning", "create", "launch", "drop", "throw", "ready",
                         "smoke"}
      /\ 0 \in 0..MaxLaunches /\ launches[s] \in 0..MaxLaunches
  BY DEF RestartSteps, TypeOK
<1>1. CASE RestartCleaned(s)
  BY <1>0, <1>1 DEF RestartCleaned, TypeOK, others, held
<1>2. CASE RestartCreate(s)
  <2>1. handle' \in [Sessions -> 0..MaxLaunches] /\ pipe' = pipe
    BY <1>2 DEF RestartCreate, TypeOK
  <2>2. CASE NewBox(s) /\ rst' = [rst EXCEPT ![s] = "launch"]
             /\ UNCHANGED <<state, bound, timers, td, tgt>>
    BY <1>0, <1>2, <2>2, NewBoxType DEF RestartCreate, TypeOK, others
  <2>3. CASE UNCHANGED launches /\ RestartFails(s)
    <3>1. CoreOK' /\ rst' \in [Sessions -> RestartSteps]
      BY <2>1, <2>3
    <3> QED BY <1>2, <2>3, <3>1 DEF RestartCreate, CoreOK, TypeOK, others
  <2> QED BY <1>2, <2>2, <2>3 DEF RestartCreate
<1>3. CASE RestartLaunched(s)
  <2>1. handle' \in [Sessions -> 0..MaxLaunches]
    BY <1>0, <1>3 DEF RestartLaunched, TypeOK
  <2>2. /\ rst' \in [Sessions -> RestartSteps]
        /\ timers' = timers /\ td' = td
        /\ box' \in [Sessions -> [Boxes -> BoxStates]]
        /\ tgt' \in [Sessions -> [Owners -> 0..MaxLaunches]]
    BY <1>0, <1>3 DEF RestartLaunched
  <2>3. /\ state' \in [Sessions -> ExecutionState \cup {NoSession}]
        /\ bound' \in [Sessions -> BOOLEAN]
    BY <1>3, SetStateType DEF RestartLaunched, TypeOK
  <2> QED BY <1>3, <2>1, <2>2, <2>3 DEF RestartLaunched, TypeOK, others
<1>4. CASE RestartDropped(s)
  <2>1. handle' = handle /\ pipe' = pipe /\ handle' \in [Sessions -> 0..MaxLaunches]
    BY <1>4 DEF RestartDropped, held, TypeOK
  <2>2. CASE RestartFails(s)
    <3>1. CoreOK' /\ rst' \in [Sessions -> RestartSteps]
      BY <2>1, <2>2
    <3> QED BY <1>4, <3>1 DEF RestartDropped, CoreOK, TypeOK, others, held
  <2>3. CASE RestartGoes(s, "idle", 0) /\ UNCHANGED <<state, bound>>
    BY <1>0, <1>4, <2>3 DEF RestartDropped, TypeOK, others, held
  <2> QED BY <1>4, <2>2, <2>3 DEF RestartDropped
<1>5. CASE RestartReady(s)
  <2>1. handle' = handle /\ pipe' = pipe /\ handle' \in [Sessions -> 0..MaxLaunches]
    BY <1>5 DEF RestartReady, held, TypeOK
  <2>2. CASE \E step \in {"idle", "smoke"} :
               RestartGoes(s, step, 0) /\ UNCHANGED <<state, bound, probe>>
    BY <1>0, <1>5, <2>2 DEF RestartReady, TypeOK, others, held
  <2>3. CASE RestartServes(s, "PARTIALLY_READY")
    <3>1. CoreOK' /\ rst' \in [Sessions -> RestartSteps] /\ probe' \in [Sessions -> BOOLEAN]
      BY <2>1, <2>3 DEF ServingStates
    <3> QED BY <1>5, <3>1 DEF RestartReady, CoreOK, TypeOK, others, held
  <2>4. CASE UNCHANGED probe /\ RestartFails(s)
    <3>1. CoreOK' /\ rst' \in [Sessions -> RestartSteps]
      BY <2>1, <2>4
    <3> QED BY <1>5, <2>4, <3>1 DEF RestartReady, CoreOK, TypeOK, others, held
  <2> QED BY <1>5, <2>2, <2>3, <2>4 DEF RestartReady
<1>6. CASE RestartSmoked(s)
  <2>1. pipe' = pipe
    BY <1>6 DEF RestartSmoked
  <2>2. CoreOK' /\ rst' \in [Sessions -> RestartSteps] /\ probe' \in [Sessions -> BOOLEAN]
    BY <1>6, <2>1 DEF RestartSmoked
  <2> QED BY <1>6, <2>2 DEF RestartSmoked, CoreOK, TypeOK, others, held
<1> QED BY <1>1, <1>2, <1>3, <1>4, <1>5, <1>6 DEF Restarting

LEMMA TeardownType ==
  ASSUME TypeOK, NEW s \in Sessions, NEW e \in Owners, Teardown(s, e)
  PROVE  TypeOK'
<1>0. 0 \in 0..MaxLaunches /\ {"backing", "release", "idle"} \subseteq TeardownSteps
  BY ConstantsAssumption DEF TeardownSteps
<1>1. CASE ContainersGone(s, e)
  <2>1. td' \in [Sessions -> [Owners -> TeardownSteps]]
    BY <1>0, <1>1 DEF ContainersGone, AfterContainers, TypeOK
  <2>2. run' \in [Sessions -> BOOLEAN] /\ dbs' \in [Sessions -> BOOLEAN]
    BY <1>1 DEF ContainersGone, TypeOK
  <2> QED BY <1>0, <1>1, <2>1, <2>2, SweepType DEF ContainersGone, TypeOK, others
<1>2. CASE BackingGone(s, e)
  BY <1>0, <1>2 DEF BackingGone, TypeOK, others
<1>3. CASE Released(s, e)
  <2>1. /\ state' \in [Sessions -> ExecutionState \cup {NoSession}]
        /\ bound' \in [Sessions -> BOOLEAN]
    <3>1. ASSUME e \in Callers, NEW st \in FinalStates(e), SetState(s, st)
          PROVE  /\ state' \in [Sessions -> ExecutionState \cup {NoSession}]
                 /\ bound' \in [Sessions -> BOOLEAN]
      <4>1. st \in ExecutionState
        BY <3>1, Constants DEF FinalStates, Callers
      <4> QED BY <3>1, <4>1, SetStateType
    <3> QED BY <1>3, <3>1 DEF Released, TypeOK
  <2> QED BY <1>0, <1>3, <2>1 DEF Released, TypeOK, others
<1> QED BY <1>1, <1>2, <1>3 DEF Teardown

LEMMA BeginEndingType ==
  ASSUME TypeOK, NEW s \in Sessions, NEW e \in Owners, BeginEnding(s, e)
  PROVE  /\ CoreOK'
         /\ UNCHANGED <<pipe, rst, kind, asked, held, probe>>
<1>1. handle' \in [Sessions -> 0..MaxLaunches] /\ pipe' = pipe
  BY DEF BeginEnding, held, TypeOK
<1>2. "CLEANING_UP" \in ExecutionState
  BY DEF ExecutionState
<1> QED BY <1>1, <1>2, SetStateType, BeginTeardownType DEF BeginEnding, CoreOK, TypeOK

LEMMA EndType ==
  ASSUME TypeOK, NEW s \in Sessions, NEW e \in Owners, End(s, e)
  PROVE  TypeOK'
<1>1. CoreOK' /\ UNCHANGED <<pipe, rst, kind, asked, held, probe>>
  BY BeginEndingType DEF End
<1> QED BY <1>1 DEF End, CoreOK, TypeOK, held

LEMMA ClocksType ==
  ASSUME TypeOK, NEW s \in Sessions, Clocks(s)
  PROVE  TypeOK'
<1> USE Constants
<1>1. CASE StartupBound(s)
  <2>1. CASE UNCHANGED <<state, others, pipe, rst, kind, asked, box, held, timers, probe, td,
                         tgt>> /\ bound' = [bound EXCEPT ![s] = FALSE]
    BY <2>1 DEF TypeOK, others, held
  <2>2. CASE Abandon(s)
    <3>1. handle' \in [Sessions -> 0..MaxLaunches] /\ pipe' = pipe
      BY <2>2 DEF Abandon, held, TypeOK
    <3>2. CoreOK'
      BY <2>2, <3>1, BeginTeardownType DEF Abandon, CoreOK, TypeOK
    <3> QED BY <2>2, <3>2 DEF Abandon, CoreOK, TypeOK, held
  <2> QED BY <1>1, <2>1, <2>2 DEF StartupBound
<1>2. CASE Unanswered(s)
  <2>1. CoreOK' /\ UNCHANGED <<pipe, rst, kind, asked, held, probe>>
    BY <1>2, BeginEndingType DEF Unanswered
  <2> QED BY <1>2, <2>1 DEF Unanswered, CoreOK, TypeOK, held, others
<1>3. CASE LifetimeOver(s)
  BY <1>3, EndType DEF LifetimeOver
<1>4. CASE Tick(s)
  <2>1. probe' \in [Sessions -> BOOLEAN]
    BY <1>4 DEF Tick, Serving, TypeOK
  <2> QED BY <1>4, <2>1 DEF Tick, TypeOK, others, held
<1>5. CASE Probed(s)
  <2>1. handle' \in [Sessions -> 0..MaxLaunches] /\ pipe' = pipe
    BY <1>5 DEF Probed, held, TypeOK
  <2>2. CASE BeginTeardown(s, "watch") /\ SetState(s, "CLEANING_UP")
    <3>1. CoreOK'
      BY <2>1, <2>2, SetStateType, BeginTeardownType DEF CoreOK, TypeOK
    <3> QED BY <1>5, <3>1 DEF Probed, CoreOK, TypeOK, others, held
  <2>3. CASE UNCHANGED <<box, td, tgt>>
    <3>1. /\ state' \in [Sessions -> ExecutionState \cup {NoSession}]
          /\ bound' \in [Sessions -> BOOLEAN]
      BY <1>5, <2>3, SetStateType DEF Probed, TypeOK
    <3>2. timers' \in [Sessions -> SUBSET {"unanswered", "idle", "cap", "tick"}]
      <4>1. \/ timers' = timers
            \/ timers' = [timers EXCEPT ![s] = @ \cup {"tick"}]
            \/ timers' = [timers EXCEPT ![s] = {}]
        BY <1>5 DEF Probed, BeginTeardown
      <4> DEFINE T == SUBSET {"unanswered", "idle", "cap", "tick"}
      <4>2. timers \in [Sessions -> T] /\ {} \in T /\ \A t \in T : t \cup {"tick"} \in T
        BY DEF TypeOK
      <4> HIDE DEF T
      <4>3. timers' \in [Sessions -> T]
        BY <4>1, <4>2
      <4> QED BY <4>3 DEF T
    <3> QED BY <1>5, <2>3, <3>1, <3>2 DEF Probed, TypeOK, others, held
  <2> QED BY <1>5, <2>2, <2>3 DEF Probed
<1> QED BY <1>1, <1>2, <1>3, <1>4, <1>5 DEF Clocks

LEMMA CreateType ==
  ASSUME TypeOK, NEW s \in Sessions, Create(s), replacing' \in BOOLEAN
  PROVE  TypeOK'
  BY Constants DEF Create, TypeOK

LEMMA PeopleType ==
  ASSUME TypeOK, NEW s \in Sessions, People(s)
  PROVE  TypeOK'
<1> USE Constants
<1>1. CASE Launch(s)
  BY <1>1, CreateType DEF Launch, TypeOK
<1>2. CASE ReplaceCancel(s)
  <2>1. CoreOK' /\ UNCHANGED <<pipe, rst, kind, asked, held, probe>>
    BY <1>2, BeginEndingType DEF ReplaceCancel
  <2> QED BY <1>2, <2>1 DEF ReplaceCancel, CoreOK, TypeOK, held
<1>3. CASE Resolve(s)
  <2>1. /\ state' \in [Sessions -> ExecutionState \cup {NoSession}]
        /\ bound' \in [Sessions -> BOOLEAN]
    <3>1. CASE SetState(s, "FAILED")
      BY <3>1, SetStateType
    <3>2. CASE \E st \in {"ANALYZING", "VALIDATING"}, b \in BOOLEAN :
                 /\ state' = [state EXCEPT ![s] = st]
                 /\ bound' = [bound EXCEPT ![s] = b]
      BY <3>2 DEF TypeOK
    <3>3. CASE state' = [state EXCEPT ![s] = "ANALYZING"] /\ bound' = bound
      BY <3>3 DEF TypeOK
    <3>4. (bound[s] \/ asked[s] = "crash") \in BOOLEAN
      OBVIOUS
    <3> QED BY <1>3, <3>1, <3>2, <3>3, <3>4 DEF Resolve
  <2>2. /\ asked' \in [Sessions -> {"none", "choice", "env", "crash"}]
        /\ pipe' \in [Sessions -> PipeSteps]
    BY <1>3 DEF Resolve, TypeOK
  <2> QED BY <1>3, <2>1, <2>2 DEF Resolve, TypeOK, others, held
<1>4. CASE Touch(s)
  BY <1>4, ArmLifetimeType DEF Touch, TypeOK, others, held
<1>5. CASE Restart(s)
  <2>1. /\ box' \in [Sessions -> [Boxes -> BoxStates]]
        /\ tgt' \in [Sessions -> [Owners -> 0..MaxLaunches]]
    BY <1>5, HeldType, SweepType DEF Restart
  <2>2. rst' \in [Sessions -> RestartSteps]
    BY <1>5 DEF Restart, TypeOK, RestartSteps
  <2> QED BY <1>5, <2>1, <2>2, SetStateType DEF Restart, TypeOK, others, held
<1>6. CASE \E e \in Enders : End(s, e)
  BY <1>6, ConstantsAssumption, EndType
<1> QED BY <1>1, <1>2, <1>3, <1>4, <1>5, <1>6 DEF People

\* Every variable keeps its type, for any number of sessions, any limit and any
\* bound on containers.
THEOREM TypeCorrect == Spec => []TypeOK
<1>1. Init => TypeOK
  <2>1. 0 \in 0..MaxLaunches
    BY ConstantsAssumption
  <2>2. "idle" \in PipeSteps \cap RestartSteps \cap TeardownSteps /\ "none" \in BoxStates
    BY DEF PipeSteps, RestartSteps, TeardownSteps, BoxStates
  <2> SUFFICES ASSUME Init PROVE TypeOK
    OBVIOUS
  <2>3. /\ timers \in [Sessions -> SUBSET {"unanswered", "idle", "cap", "tick"}]
        /\ td \in [Sessions -> [Owners -> TeardownSteps]]
        /\ tgt \in [Sessions -> [Owners -> 0..MaxLaunches]]
        /\ box \in [Sessions -> [Boxes -> BoxStates]]
    BY <2>1, <2>2 DEF Init
  <2>4. /\ state \in [Sessions -> ExecutionState \cup {NoSession}]
        /\ pipe \in [Sessions -> PipeSteps]
        /\ rst \in [Sessions -> RestartSteps]
        /\ launches \in [Sessions -> 0..MaxLaunches]
        /\ handle \in [Sessions -> 0..MaxLaunches]
    BY <2>1, <2>2 DEF Init
  <2> QED BY <2>3, <2>4 DEF Init, TypeOK
<1>2. TypeOK /\ [Next]_vars => TypeOK'
  <2> SUFFICES ASSUME TypeOK, [Next]_vars PROVE TypeOK'
    OBVIOUS
  <2>1. CASE UNCHANGED vars
    BY <2>1 DEF vars, TypeOK
  <2>2. ASSUME NEW s \in Sessions, ReplaceLaunch(s) PROVE TypeOK'
    BY <2>2, CreateType DEF ReplaceLaunch
  <2> QED BY <2>1, <2>2, PipelineType, RestartingType, ClocksType, PeopleType, TeardownType
          DEF Next
<1> QED BY <1>1, <1>2, PTL DEF Spec

-----------------------------------------------------------------------------
(* Who may move a session, and what becomes of its run slot.  Each action  *)
(* is reduced to one of a few moves of the session it is about; the driver *)
(* invariant, the slot limit and the refinement of SlotLease are proved of *)
(* the moves.                                                              *)

\* Moves, as far as the driver invariant tells them apart

\* Nothing it reads changes for r.
Same(r) ==
  /\ state'[r] = state[r] /\ stopped'[r] = stopped[r] /\ abandoned'[r] = abandoned[r]
  /\ pipe'[r] = pipe[r] /\ rst'[r] = rst[r]
  /\ td'[r] = td[r]

\* No caller outside E begins a teardown of s.
NewCallers(s, E) ==
  \A e \in Callers : td'[s][e] # "idle" => td[s][e] # "idle" \/ e \in E

\* What is left alone by everybody but the one who ends s or drives it.
Marks(s)   == stopped'[s] = stopped[s] /\ abandoned'[s] = abandoned[s]
Drivers(s) == pipe'[s] = pipe[s] /\ rst'[s] = rst[s]

\* A driver sets st: nothing when somebody ended the session.
DriverSets(s) ==
  \/ state'[s] = state[s]
  \/ \E st \in ExecutionState \ {"CLEANING_UP"} : state'[s] = StateAfter(s, st)

\* States a driver reaches only by finishing.
Resting == ServingStates \cup TerminalStates \cup {"AWAITING_INPUT"}

PipeMove(s) ==
  /\ pipe[s] # "idle"
  /\ Marks(s) /\ rst'[s] = rst[s] /\ NewCallers(s, {}) /\ DriverSets(s)
  /\ state'[s] # state[s] /\ state'[s] \in Resting => pipe'[s] = "idle"

RestMove(s) ==
  /\ rst[s] # "idle"
  /\ Marks(s) /\ pipe'[s] = pipe[s] /\ NewCallers(s, {}) /\ DriverSets(s)
  /\ state'[s] # state[s] /\ state'[s] \in Resting => rst'[s] = "idle"

CreateMove(s) ==
  /\ state[s] = NoSession /\ state'[s] = "QUEUED"
  /\ Marks(s) /\ rst'[s] = rst[s] /\ NewCallers(s, {})

RestartMove(s) ==
  /\ Serving(s)
  /\ state'[s] = StateAfter(s, "STARTING")
  /\ Marks(s) /\ pipe'[s] = pipe[s] /\ NewCallers(s, {})

ResolveMove(s) ==
  /\ state[s] = "AWAITING_INPUT"
  /\ Marks(s) /\ rst'[s] = rst[s] /\ NewCallers(s, {})
  /\ \/ state'[s] \in {"ANALYZING", "VALIDATING"}
     \/ state'[s] = StateAfter(s, "FAILED") /\ pipe'[s] = pipe[s]

PartialMove(s) ==
  /\ Serving(s)
  /\ state'[s] = StateAfter(s, "PARTIALLY_READY")
  /\ Marks(s) /\ Drivers(s) /\ NewCallers(s, {})

EndMove(s) ==
  /\ Active(s)
  /\ stopped'[s] = TRUE /\ abandoned'[s] = abandoned[s]
  /\ state'[s] = "CLEANING_UP"
  /\ Drivers(s) /\ NewCallers(s, {"stop", "cancel", "replace"})

LapseMove(s) ==
  /\ state[s] \in ServingStates \cup {"AWAITING_INPUT"}
  /\ state'[s] = "CLEANING_UP"
  /\ Marks(s) /\ Drivers(s) /\ NewCallers(s, {"watch", "unanswered"})

AbandonMove(s) ==
  /\ Active(s)
  /\ stopped'[s] = stopped[s] /\ abandoned'[s] = TRUE
  /\ state'[s] = "CLEANING_UP"
  /\ Drivers(s) /\ NewCallers(s, {"abandon"})

ReleaseMove(s) ==
  /\ Marks(s) /\ Drivers(s) /\ NewCallers(s, {})
  /\ \E e \in Callers : td[s][e] # "idle" /\ \E st \in FinalStates(e) :
       state'[s] = StateAfter(s, st)

QuietMove(s) ==
  /\ state'[s] = state[s]
  /\ Marks(s) /\ Drivers(s) /\ NewCallers(s, {})

Move(s) ==
  \/ PipeMove(s) \/ RestMove(s) \/ RestartMove(s) \/ ResolveMove(s) \/ PartialMove(s)
  \/ EndMove(s) \/ LapseMove(s) \/ AbandonMove(s) \/ ReleaseMove(s) \/ QuietMove(s)

\* What every action does: one session moves, or is created, and no other.
Step(s) ==
  /\ Move(s) \/ (CreateMove(s) /\ Cardinality(ActiveSessions) < Limit)
  /\ \A r \in Sessions \ {s} : Same(r)

-----------------------------------------------------------------------------
\* The moves keep the driver invariant

\* The states the moves tell apart are different states.
LEMMA StateFacts ==
  /\ EndingStates = {"CLEANING_UP", "CANCELLED", "COMPLETED"}
  /\ TerminalStates = {"COMPLETED", "CANCELLED", "FAILED"}
  /\ ServingStates = {"READY", "PARTIALLY_READY"}
  /\ NoSession = "NO_SESSION" /\ NoSession \notin ExecutionState
  /\ Callers = {"stop", "cancel", "replace", "abandon", "unanswered", "watch"}
  BY DEF EndingStates, TerminalStates, ServingStates, NoSession, ExecutionState, Callers

\* A move or a creation keeps the driver invariant of the session it is about.
LEMMA MoveKeepsInv ==
  ASSUME NEW s \in Sessions, TypeOK, DriverInv(s), Move(s) \/ CreateMove(s)
  PROVE  DriverInv(s)'
<1> USE StateFacts DEF DriverInv, NobodyDrives, StateAfter, Marks, Drivers, NewCallers
<1>1. CASE PipeMove(s)
  BY <1>1 DEF PipeMove, DriverSets, Resting
<1>2. CASE RestMove(s)
  BY <1>2 DEF RestMove, DriverSets, Resting
<1>3. CASE CreateMove(s)
  BY <1>3 DEF CreateMove
<1>4. CASE RestartMove(s)
  BY <1>4 DEF RestartMove, Serving
<1>5. CASE ResolveMove(s)
  BY <1>5 DEF ResolveMove
<1>6. CASE PartialMove(s)
  BY <1>6 DEF PartialMove, Serving
<1>7. CASE EndMove(s)
  BY <1>7 DEF EndMove
<1>8. CASE LapseMove(s)
  BY <1>8 DEF LapseMove
<1>9. CASE AbandonMove(s)
  BY <1>9 DEF AbandonMove
<1>10. CASE ReleaseMove(s)
  BY <1>10 DEF ReleaseMove, FinalStates
<1>11. CASE QuietMove(s)
  BY <1>11 DEF QuietMove
<1> QED BY <1>1, <1>2, <1>3, <1>4, <1>5, <1>6, <1>7, <1>8, <1>9, <1>10, <1>11 DEF Move

\* A step of one session keeps the driver invariant of all.
LEMMA StepKeepsInv ==
  ASSUME NEW s \in Sessions, TypeOK, DriversInv, Step(s)
  PROVE  DriversInv'
<1>1. DriverInv(s)'
  BY MoveKeepsInv DEF Step, DriversInv
<1>2. ASSUME NEW r \in Sessions \ {s} PROVE DriverInv(r)'
  <2>1. Same(r) /\ DriverInv(r)
    BY DEF Step, DriversInv
  <2> QED BY <2>1 DEF Same, DriverInv, NobodyDrives
<1> QED BY <1>1, <1>2 DEF DriversInv

-----------------------------------------------------------------------------
\* Every action is such a step

\* What a step of a driver assigns: its own place (pipe or rst; d, then d2), the
\* session's state, and the step of a teardown it awaits itself.
Drives(s, d, d2) ==
  /\ d2[s] = "idle" \/ state'[s] = state[s] \/ state'[s] \notin Resting
  /\ \A r \in Sessions \ {s} : d2[r] = d[r] /\ state'[r] = state[r] /\ td'[r] = td[r]
  /\ DriverSets(s)
  /\ \A e \in Callers : td'[s][e] = td[s][e]

\* setState moves no other session.
LEMMA SetStateDrives ==
  ASSUME TypeOK, NEW s \in Sessions, NEW st \in ExecutionState, SetState(s, st)
  PROVE  /\ state'[s] = StateAfter(s, st)
         /\ \A r \in Sessions \ {s} : state'[r] = state[r]
  BY DEF TypeOK, SetState

\* A teardown writes its own place and no other.
LEMMA BeginTeardownDrives ==
  ASSUME TypeOK, NEW s \in Sessions, NEW e \in Owners, BeginTeardown(s, e)
  PROVE  /\ \A r \in Sessions \ {s} : td'[r] = td[r]
         /\ \A f \in Owners \ {e} : td'[s][f] = td[s][f]
  BY DEF TypeOK, BeginTeardown

\* The pieces the pipeline's steps are made of.
LEMMA PiecesDrive ==
  ASSUME TypeOK, NEW s \in Sessions
  PROVE  /\ \A st \in ExecutionState \ {"CLEANING_UP"} :
              EndPipeline(s, st) => Drives(s, pipe, pipe')
         /\ Bail(s) => Drives(s, pipe, pipe')
         /\ \A st \in ExecutionState \ {"CLEANING_UP"}, step \in PipeSteps :
              Advance(s, st, step) /\ (st \in Resting => step = "idle") =>
                Drives(s, pipe, pipe')
         /\ \A n, step : Remove(s, n, step) => Drives(s, pipe, pipe')
         /\ \A q : AwaitInput(s, q) => Drives(s, pipe, pipe')
<1>0. "pipeline" \in Owners /\ Callers \subseteq Owners \ {"pipeline"}
  BY DEF Owners, Callers
<1>1. ASSUME NEW st \in ExecutionState \ {"CLEANING_UP"}, EndPipeline(s, st)
      PROVE  Drives(s, pipe, pipe')
  BY <1>0, <1>1, SetStateDrives, BeginTeardownDrives
     DEF EndPipeline, Drives, DriverSets, TypeOK
<1>2. ASSUME Bail(s)
      PROVE  Drives(s, pipe, pipe')
  BY <1>0, <1>2, BeginTeardownDrives DEF Bail, Drives, DriverSets, TypeOK
<1>3. ASSUME NEW st \in ExecutionState \ {"CLEANING_UP"}, NEW step \in PipeSteps,
             Advance(s, st, step), st \in Resting => step = "idle"
      PROVE  Drives(s, pipe, pipe')
  BY <1>0, <1>3, SetStateDrives DEF Advance, Drives, DriverSets, StateAfter, TypeOK
<1>4. ASSUME NEW n, NEW step, Remove(s, n, step)
      PROVE  Drives(s, pipe, pipe')
  BY <1>0, <1>4 DEF Remove, Drives, DriverSets, TypeOK
<1>5. ASSUME NEW q, AwaitInput(s, q)
      PROVE  Drives(s, pipe, pipe')
  <2>1. "AWAITING_INPUT" \in ExecutionState \ {"CLEANING_UP"}
    BY DEF ExecutionState
  <2> QED BY <1>0, <1>5, <2>1, SetStateDrives DEF AwaitInput, Drives, DriverSets, TypeOK
<1> QED BY <1>1, <1>2, <1>3, <1>4, <1>5

\* What the pipeline and a restart may set.
LEMMA WorkingStates ==
  /\ {"CLONING", "ANALYZING", "PLANNING", "VALIDATING", "STARTING", "WAITING_FOR_READY",
      "REPAIRING"} \subseteq ExecutionState \ ({"CLEANING_UP"} \cup Resting)
  /\ {"FAILED", "COMPLETED", "READY", "PARTIALLY_READY"}
       \subseteq ExecutionState \ {"CLEANING_UP"}
  BY DEF ExecutionState, Resting, ServingStates, TerminalStates

\* Every action of the pipeline is a step of its driver.
LEMMA PipelineStep ==
  ASSUME TypeOK, NEW s \in Sessions, Pipeline(s)
  PROVE  Step(s)
<1>1. pipe[s] # "idle" /\ UNCHANGED <<stopped, abandoned, rst>>
  BY DEF Pipeline, others, DockerReady, CloneDone, AnalyseDone, PlanDone, Validated,
         Provisioned, CreateContainer, Launched, Undone, Dropped, ReadyDone, Diagnosed,
         Asked, Repaired, Recreate, Relaunched, SmokeDone
<1>2. Drives(s, pipe, pipe')
  <2> USE PiecesDrive, WorkingStates, Constants
  <2>1. ASSUME NEW step \in PipeSteps, pipe' = [pipe EXCEPT ![s] = step],
               UNCHANGED <<state, td>>
        PROVE  Drives(s, pipe, pipe')
    BY <2>1 DEF Drives, DriverSets, TypeOK
  <2>2. ASSUME NEW st \in ServingStates, SetState(s, st),
               pipe' = [pipe EXCEPT ![s] = "idle"], td' = td
        PROVE  Drives(s, pipe, pipe')
    BY <2>2, SetStateDrives DEF Drives, DriverSets, TypeOK, ServingStates
  <2>3. ASSUME Repair(s)
        PROVE  Drives(s, pipe, pipe')
    BY <2>3, SetStateDrives DEF Repair, Drives, DriverSets, StateAfter, TypeOK
  <2>4. CASE DockerReady(s)
    BY <2>4 DEF DockerReady
  <2>5. CASE CloneDone(s)
    BY <2>5 DEF CloneDone
  <2>6. CASE AnalyseDone(s)
    BY <2>6 DEF AnalyseDone
  <2>7. CASE PlanDone(s)
    BY <2>7 DEF PlanDone
  <2>8. CASE Validated(s)
    BY <2>8 DEF Validated
  <2>9. CASE Provisioned(s)
    BY <2>9 DEF Provisioned, Undo
  <2>10. CASE CreateContainer(s)
    BY <2>1, <2>10 DEF CreateContainer, Undo
  <2>11. CASE Launched(s)
    BY <2>11 DEF Launched, Undo
  <2>12. CASE Undone(s)
    BY <2>12 DEF Undone
  <2>13. CASE Dropped(s)
    BY <2>13 DEF Dropped
  <2>14. CASE ReadyDone(s)
    BY <2>14 DEF ReadyDone
  <2>15. CASE Diagnosed(s)
    BY <2>2, <2>3, <2>15 DEF Diagnosed, ServingStates
  <2>16. CASE Asked(s)
    BY <2>16 DEF Asked
  <2>17. CASE Repaired(s)
    BY <2>17 DEF Repaired
  <2>18. CASE Recreate(s)
    BY <2>1, <2>18 DEF Recreate
  <2>19. CASE Relaunched(s)
    BY <2>19 DEF Relaunched
  <2>20. CASE SmokeDone(s)
    BY <2>2, <2>20 DEF SmokeDone
  <2> QED BY <2>4, <2>5, <2>6, <2>7, <2>8, <2>9, <2>10, <2>11, <2>12, <2>13, <2>14,
           <2>15, <2>16, <2>17, <2>18, <2>19, <2>20 DEF Pipeline
<1> QED BY <1>1, <1>2 DEF Drives, Step, Move, PipeMove, Marks, NewCallers, Same

\* The pieces a restart's steps are made of.
LEMMA RestartPiecesDrive ==
  ASSUME TypeOK, NEW s \in Sessions
  PROVE  /\ \A n, step : RestartGoes(s, step, n) /\ state' = state => Drives(s, rst, rst')
         /\ RestartFails(s) => Drives(s, rst, rst')
         /\ \A st \in ServingStates : RestartServes(s, st) => Drives(s, rst, rst')
<1>0. "restart" \in Owners /\ Callers \subseteq Owners \ {"restart"}
  BY DEF Owners, Callers
<1>1. ASSUME NEW n, NEW step, RestartGoes(s, step, n), state' = state
      PROVE  Drives(s, rst, rst')
  BY <1>0, <1>1 DEF RestartGoes, Drives, DriverSets, TypeOK
<1>2. ASSUME RestartFails(s)
      PROVE  Drives(s, rst, rst')
  BY <1>0, <1>2, WorkingStates, SetStateDrives, BeginTeardownDrives
     DEF RestartFails, Drives, DriverSets, TypeOK
<1>3. ASSUME NEW st \in ServingStates, RestartServes(s, st)
      PROVE  Drives(s, rst, rst')
  BY <1>0, <1>3, WorkingStates, SetStateDrives
     DEF RestartServes, Drives, DriverSets, TypeOK, ServingStates
<1> QED BY <1>1, <1>2, <1>3

\* Every action of a restart under way is a step of its driver.
LEMMA RestartingStep ==
  ASSUME TypeOK, NEW s \in Sessions, Restarting(s)
  PROVE  Step(s)
<1>1. rst[s] # "idle" /\ UNCHANGED <<stopped, abandoned, pipe>>
  BY DEF Restarting, others, RestartCleaned, RestartCreate, RestartLaunched,
         RestartDropped, RestartReady, RestartSmoked
<1>2. Drives(s, rst, rst')
  <2> USE RestartPiecesDrive
  <2>1. CASE RestartCleaned(s)
    BY <2>1 DEF RestartCleaned
  <2>2. CASE RestartCreate(s)
    <3>1. ASSUME rst' = [rst EXCEPT ![s] = "launch"], UNCHANGED <<state, td>>
          PROVE  Drives(s, rst, rst')
      BY <3>1 DEF Drives, DriverSets, TypeOK
    <3> QED BY <2>2, <3>1 DEF RestartCreate
  <2>3. CASE RestartLaunched(s)
    <3>1. ASSUME RestartGoes(s, "ready", 0), SetState(s, "WAITING_FOR_READY")
          PROVE  Drives(s, rst, rst')
      BY <3>1, WorkingStates, SetStateDrives
         DEF RestartGoes, Drives, DriverSets, StateAfter, TypeOK
    <3> QED BY <2>3, <3>1 DEF RestartLaunched
  <2>4. CASE RestartDropped(s)
    BY <2>4 DEF RestartDropped
  <2>5. CASE RestartReady(s)
    BY <2>5 DEF RestartReady, ServingStates
  <2>6. CASE RestartSmoked(s)
    BY <2>6 DEF RestartSmoked
  <2> QED BY <2>1, <2>2, <2>3, <2>4, <2>5, <2>6 DEF Restarting
<1> QED BY <1>1, <1>2 DEF Drives, Step, Move, RestMove, Marks, NewCallers, Same

\* What ending a session from outside does to what the invariant reads.
LEMMA BeginEndingMoves ==
  ASSUME TypeOK, NEW s \in Sessions, NEW e \in Callers, BeginEnding(s, e)
  PROVE  /\ state'[s] = "CLEANING_UP" /\ UNCHANGED <<pipe, rst>>
         /\ \A f \in Callers \ {e} : td'[s][f] = td[s][f]
         /\ \A r \in Sessions \ {s} : state'[r] = state[r] /\ td'[r] = td[r]
<1>1. "CLEANING_UP" \in ExecutionState /\ "CLEANING_UP" \in EndingStates
  BY DEF ExecutionState, EndingStates
<1>2. e \in Owners /\ Callers \subseteq Owners
  BY DEF Owners
<1> QED BY <1>1, <1>2, SetStateDrives, BeginTeardownDrives DEF BeginEnding, StateAfter

\* A stop or a cancel ends the session.
LEMMA EndStep ==
  ASSUME TypeOK, NEW s \in Sessions, NEW e \in {"stop", "cancel"}, End(s, e)
  PROVE  Step(s)
<1>1. e \in Callers
  BY DEF Callers
<1>2. EndMove(s)
  BY <1>1, BeginEndingMoves DEF End, EndMove, Drivers, NewCallers, TypeOK
<1> QED BY <1>1, <1>2, BeginEndingMoves DEF End, Step, Move, Same, TypeOK

\* Every action of the clocks and the liveness watch is a step.
LEMMA ClocksStep ==
  ASSUME TypeOK, NEW s \in Sessions, Clocks(s)
  PROVE  Step(s)
<1> USE DEF Step, Move, Same, Marks, Drivers, NewCallers, others
<1>0. {"watch", "unanswered", "abandon"} \subseteq Callers /\ Callers \subseteq Owners
  BY DEF Callers, Owners
<1>1. CASE StartupBound(s)
  <2>1. CASE UNCHANGED <<state, others, pipe, rst, td>>
    BY <2>1 DEF QuietMove
  <2>2. CASE Abandon(s)
    <3>1. /\ \A f \in Callers \ {"abandon"} : td'[s][f] = td[s][f]
          /\ \A r \in Sessions \ {s} : td'[r] = td[r]
      BY <1>0, <2>2, BeginTeardownDrives DEF Abandon
    <3>2. AbandonMove(s)
      BY <2>2, <3>1 DEF Abandon, AbandonMove, TypeOK
    <3> QED BY <2>2, <3>1, <3>2 DEF Abandon, TypeOK
  <2> QED BY <1>1, <2>1, <2>2 DEF StartupBound
<1>2. CASE Unanswered(s)
  <2>1. LapseMove(s)
    BY <1>0, <1>2, BeginEndingMoves DEF Unanswered, LapseMove
  <2> QED BY <1>0, <1>2, <2>1, BeginEndingMoves DEF Unanswered
<1>3. CASE LifetimeOver(s)
  BY <1>3, EndStep DEF LifetimeOver
<1>4. CASE Tick(s)
  BY <1>4 DEF Tick, QuietMove
<1>5. CASE Probed(s)
  <2>1. UNCHANGED <<others, pipe, rst>>
    BY <1>5 DEF Probed
  <2>2. CASE UNCHANGED <<state, td>>
    BY <2>1, <2>2 DEF QuietMove
  <2>3. CASE Serving(s) /\ SetState(s, "PARTIALLY_READY") /\ UNCHANGED td
    BY <2>1, <2>3, WorkingStates, SetStateDrives DEF PartialMove
  <2>4. CASE Serving(s) /\ SetState(s, "CLEANING_UP") /\ BeginTeardown(s, "watch")
    <3>1. /\ state'[s] = "CLEANING_UP"
          /\ \A r \in Sessions \ {s} : state'[r] = state[r]
      BY <2>4, Constants, SetStateDrives, StateFacts DEF StateAfter
    <3>2. LapseMove(s)
      BY <1>0, <2>1, <2>4, <3>1, BeginTeardownDrives DEF LapseMove, Serving
    <3> QED BY <1>0, <2>1, <2>4, <3>1, <3>2, BeginTeardownDrives
  <2> QED BY <1>5, <2>2, <2>3, <2>4 DEF Probed
<1> QED BY <1>1, <1>2, <1>3, <1>4, <1>5 DEF Clocks

\* A creation, under the limit, is a step.
LEMMA CreateStep ==
  ASSUME TypeOK, NEW s \in Sessions, NextId(s), Cardinality(ActiveSessions) < Limit,
         Create(s)
  PROVE  Step(s)
<1>1. state[s] = NoSession
  BY DEF NextId, Sessions
<1>2. CreateMove(s)
  BY <1>1 DEF Create, CreateMove, Marks, NewCallers, TypeOK
<1> QED BY <1>2 DEF Create, Step, Same, TypeOK

\* Everything people do is a step.
LEMMA PeopleStep ==
  ASSUME TypeOK, NEW s \in Sessions, People(s)
  PROVE  Step(s)
<1> USE DEF Step, Move, Same, Marks, Drivers, NewCallers, others
<1>1. CASE Launch(s)
  BY <1>1, CreateStep DEF Launch
<1>2. CASE ReplaceCancel(s)
  <2>1. "replace" \in Callers
    BY DEF Callers
  <2>2. EndMove(s)
    BY <1>2, <2>1, BeginEndingMoves DEF ReplaceCancel, ActiveSessions, EndMove, TypeOK
  <2> QED BY <1>2, <2>1, <2>2, BeginEndingMoves DEF ReplaceCancel, TypeOK
<1>3. CASE Resolve(s)
  <2>1. /\ \/ state'[s] \in {"ANALYZING", "VALIDATING"}
           \/ state'[s] = StateAfter(s, "FAILED") /\ pipe'[s] = pipe[s]
        /\ \A r \in Sessions \ {s} : state'[r] = state[r] /\ pipe'[r] = pipe[r]
    BY <1>3, WorkingStates, SetStateDrives DEF Resolve, TypeOK
  <2>2. ResolveMove(s)
    BY <1>3, <2>1 DEF Resolve, ResolveMove
  <2> QED BY <1>3, <2>1, <2>2 DEF Resolve
<1>4. CASE Touch(s)
  BY <1>4 DEF Touch, QuietMove
<1>5. CASE Restart(s)
  <2>1. RestartMove(s)
    BY <1>5, WorkingStates, SetStateDrives DEF Restart, RestartMove
  <2> QED BY <1>5, <2>1, WorkingStates, SetStateDrives DEF Restart, TypeOK
<1>6. CASE \E e \in Enders : End(s, e)
  BY <1>6, ConstantsAssumption, EndStep
<1> QED BY <1>1, <1>2, <1>3, <1>4, <1>5, <1>6 DEF People

\* Every step of a teardown is a step.
LEMMA TeardownStep ==
  ASSUME TypeOK, NEW s \in Sessions, NEW e \in Owners, Teardown(s, e)
  PROVE  Step(s)
<1> USE DEF Step, Move, Same, Marks, Drivers, NewCallers, others
<1>1. UNCHANGED <<others, pipe, rst>>
  BY DEF Teardown, ContainersGone, BackingGone, Released
<1>2. /\ \A f \in Owners \ {e} : td'[s][f] = td[s][f]
      /\ \A r \in Sessions \ {s} : td'[r] = td[r]
      /\ td[s][e] # "idle"
  BY DEF Teardown, ContainersGone, BackingGone, Released, TypeOK
<1>3. Callers \subseteq Owners
  BY DEF Owners
<1>4. CASE UNCHANGED state
  BY <1>1, <1>2, <1>3, <1>4 DEF QuietMove
<1>5. CASE e \in Callers /\ \E st \in FinalStates(e) : SetState(s, st)
  <2>1. PICK st \in FinalStates(e) : SetState(s, st)
    BY <1>5
  <2>2. st \in ExecutionState
    BY <1>5, <2>1, Constants DEF FinalStates, Callers
  <2>3. /\ state'[s] = StateAfter(s, st)
        /\ \A r \in Sessions \ {s} : state'[r] = state[r]
    BY <2>1, <2>2, SetStateDrives
  <2>4. ReleaseMove(s)
    BY <1>1, <1>2, <1>3, <1>5, <2>3 DEF ReleaseMove
  <2> QED BY <1>1, <1>2, <2>3, <2>4
<1> QED BY <1>4, <1>5 DEF Teardown, ContainersGone, BackingGone, Released

\* Every action is a step of the session it is about.
LEMMA NextIsStep ==
  ASSUME TypeOK, Next
  PROVE  \E s \in Sessions : Step(s)
<1>1. ASSUME NEW s \in Sessions, ReplaceLaunch(s) PROVE Step(s)
  BY <1>1, CreateStep DEF ReplaceLaunch
<1> QED BY <1>1, PipelineStep, RestartingStep, ClocksStep, PeopleStep, TeardownStep DEF Next

-----------------------------------------------------------------------------
\* The theorems

\* Whoever drives a session, nothing but its own end is left to happen to it
\* once it has ended: the inductive invariant of setState's guard, of the
\* restart's refusal and of the liveness watch's second look.
THEOREM DriversCorrect == Spec => []DriversInv
<1>1. Init => DriversInv
  BY StateFacts DEF Init, DriversInv, DriverInv, NobodyDrives, Owners
<1>2. TypeOK /\ DriversInv /\ [Next]_vars => DriversInv'
  <2>1. ASSUME UNCHANGED vars, DriversInv PROVE DriversInv'
    BY <2>1 DEF vars, DriversInv, DriverInv, NobodyDrives
  <2> QED BY <2>1, NextIsStep, StepKeepsInv
<1> QED BY <1>1, <1>2, TypeCorrect, PTL DEF Spec

\* A session somebody has ended is never seen starting, serving or failing again
\* (setState's guard).
THEOREM StoppedStaysEnding == Spec => []StoppedIsEnding
<1>1. DriversInv => StoppedIsEnding
  BY DEF DriversInv, DriverInv, StoppedIsEnding
<1> QED BY <1>1, DriversCorrect, PTL

\* The pipeline and a restart never drive one session at once (restartRefusal).
THEOREM DriversAreAlone == Spec => []OneDriver
<1>1. DriversInv => OneDriver
  BY DEF DriversInv, DriverInv, OneDriver
<1> QED BY <1>1, DriversCorrect, PTL

-----------------------------------------------------------------------------
\* The run slots

Leases == [s \in Sessions |-> LeaseOf(s)]

\* A move of a session gives its slot back or leaves it; only a creation takes one.
LEMMA MoveOfLease ==
  ASSUME TypeOK, NEW s \in Sessions, DriverInv(s), Move(s)
  PROVE  \/ LeaseOf(s)' = LeaseOf(s)
         \/ LeaseOf(s) = "held" /\ LeaseOf(s)' = "returned"
<1> USE StateFacts
    DEF DriverInv, NobodyDrives, StateAfter, Marks, Drivers, NewCallers, LeaseOf, Active, Sound
<1>1. CASE PipeMove(s)
  BY <1>1 DEF PipeMove, DriverSets
<1>2. CASE RestMove(s)
  BY <1>2 DEF RestMove, DriverSets
<1>3. CASE RestartMove(s)
  BY <1>3 DEF RestartMove, Serving
<1>4. CASE ResolveMove(s)
  BY <1>4 DEF ResolveMove
<1>5. CASE PartialMove(s)
  BY <1>5 DEF PartialMove, Serving
<1>6. CASE EndMove(s)
  BY <1>6 DEF EndMove
<1>7. CASE LapseMove(s)
  BY <1>7 DEF LapseMove
<1>8. CASE AbandonMove(s)
  BY <1>8 DEF AbandonMove
<1>9. CASE ReleaseMove(s)
  BY <1>9 DEF ReleaseMove, FinalStates
<1>10. CASE QuietMove(s)
  BY <1>10 DEF QuietMove
<1> QED BY <1>1, <1>2, <1>3, <1>4, <1>5, <1>6, <1>7, <1>8, <1>9, <1>10 DEF Move

\* SlotLease counts as this module does.
LEMMA SameCount == \A S : Slots!Cardinality(S) = Cardinality(S)
  BY Zenon DEF Slots!Cardinality, Cardinality

\* Those who hold a lease are the active sessions that were not abandoned, and
\* no more than the active ones.
LEMMA HoldersAreActive ==
  /\ Slots!Holders = {s \in ActiveSessions : Sound(s)}
  /\ IsFiniteSet(Slots!Holders)
  /\ Cardinality(Slots!Holders) \in Nat /\ Cardinality(ActiveSessions) \in Nat
  /\ Cardinality(Slots!Holders) <= Cardinality(ActiveSessions)
<1>1. Slots!Holders = {s \in ActiveSessions : Sound(s)}
  BY DEF Slots!Holders, LeaseOf, ActiveSessions, Active
<1>2. IsFiniteSet(Sessions)
  BY ConstantsAssumption, FS_Interval DEF Sessions
<1>3. IsFiniteSet(ActiveSessions)
  BY <1>2, FS_Subset DEF ActiveSessions
<1>4. IsFiniteSet(Slots!Holders)
  BY <1>1, <1>3, FS_Subset
<1> QED BY <1>1, <1>3, <1>4, FS_Subset, FS_CardinalityType

\* A step is a taking or a giving back of one slot, or leaves the slots alone.
LEMMA StepOfLeases ==
  ASSUME TypeOK, DriversInv, NEW s \in Sessions, Step(s)
  PROVE  [Slots!Next]_Leases
<1>1. \A r \in Sessions \ {s} : LeaseOf(r)' = LeaseOf(r)
  BY DEF Step, Same, LeaseOf, Active, Sound
<1>2. Leases' = [Leases EXCEPT ![s] = LeaseOf(s)']
  BY <1>1 DEF Leases
<1>3. CASE Move(s)
  <2>1. \/ LeaseOf(s)' = LeaseOf(s)
        \/ LeaseOf(s) = "held" /\ LeaseOf(s)' = "returned"
    BY <1>3, MoveOfLease DEF DriversInv
  <2>2. CASE LeaseOf(s)' = LeaseOf(s)
    BY <1>2, <2>2 DEF Leases
  <2>3. CASE LeaseOf(s) = "held" /\ LeaseOf(s)' = "returned"
    <3>1. Slots!GiveBack(s)
      BY <1>2, <2>3 DEF Slots!GiveBack, Leases
    <3> QED BY <3>1 DEF Slots!Next
  <2> QED BY <2>1, <2>2, <2>3
<1>4. CASE CreateMove(s) /\ Cardinality(ActiveSessions) < Limit
  <2>1. LeaseOf(s) = "none" /\ LeaseOf(s)' = "held"
    BY <1>4, StateFacts
       DEF CreateMove, DriversInv, DriverInv, Marks, LeaseOf, Active, Sound
  <2>2. Cardinality(Slots!Holders) < Limit
    BY <1>4, HoldersAreActive, ConstantsAssumption
  <2>3. Slots!Take(s)
    BY <1>2, <2>1, <2>2, SameCount DEF Slots!Take, Leases
  <2> QED BY <2>3 DEF Slots!Next
<1> QED BY <1>3, <1>4 DEF Step

\* So is every step of the system.
LEMMA NextOfLeases == TypeOK /\ DriversInv /\ [Next]_vars => [Slots!Next]_Leases
<1>1. ASSUME UNCHANGED vars PROVE Leases' = Leases
  BY <1>1 DEF vars, Leases, LeaseOf, Active, Sound
<1> QED BY <1>1, NextIsStep, StepOfLeases

\* A move of a session that ended leaves it ended.
LEMMA EndedMoves ==
  ASSUME TypeOK, NEW s \in Sessions, DriverInv(s), Ended(s), Sound(s), Move(s)
  PROVE  Ended(s)'
<1> USE StateFacts
    DEF DriverInv, NobodyDrives, StateAfter, Marks, Drivers, NewCallers, Ended, Sound
<1>1. CASE PipeMove(s)
  BY <1>1 DEF PipeMove, DriverSets
<1>2. CASE RestMove(s)
  BY <1>2 DEF RestMove, DriverSets
<1>3. CASE ReleaseMove(s)
  BY <1>3 DEF ReleaseMove, FinalStates
<1>4. CASE QuietMove(s)
  BY <1>4 DEF QuietMove
<1> QED BY <1>1, <1>2, <1>3, <1>4
        DEF Move, RestartMove, ResolveMove, PartialMove, EndMove, LapseMove, AbandonMove,
            Serving, Active

\* Launches, replacements, endings, failures, repairs, restarts and resumptions
\* are takings and givings back of run slots, each slot taken while one is free and
\* given back once: the session manager implements SlotLease.
THEOREM SlotsAreLeased == Spec => LeasesAreKept
<1>1. Init => Slots!Init
  BY DEF Init, Slots!Init, LeaseOf
<1> QED BY <1>1, NextOfLeases, TypeCorrect, DriversCorrect, PTL
        DEF Spec, LeasesAreKept, Slots!Spec, Leases

\* A session that ended never takes a slot again.
THEOREM EndedNeverReturns == Spec => EndedStaysEnded
<1>1. TypeOK /\ DriversInv /\ [Next]_vars =>
        [\A s \in Sessions : Ended(s) /\ Sound(s) => Ended(s)']_vars
  <2> SUFFICES ASSUME TypeOK, DriversInv, Next, NEW s \in Sessions, Ended(s), Sound(s)
               PROVE  Ended(s)'
    OBVIOUS
  <2>1. PICK r \in Sessions : Step(r)
    BY NextIsStep
  <2>2. CASE r # s
    BY <2>1, <2>2 DEF Step, Same, Ended
  <2>3. CASE r = s
    <3>1. ~CreateMove(s)
      BY StateFacts DEF CreateMove, Ended
    <3> QED BY <2>1, <2>3, <3>1, EndedMoves DEF Step, DriversInv
  <2> QED BY <2>2, <2>3
<1> QED BY <1>1, TypeCorrect, DriversCorrect, PTL DEF Spec, EndedStaysEnded

\* No more deployments hold a slot than the limit allows, however launches,
\* replacements and endings interleave (launchNow, makeRoom).
THEOREM SlotsAreLimited == Spec => []SlotLimit
<1> DEFINE H == {s \in ActiveSessions : Sound(s)}
<1>1. Init => SlotLimit
  <2> SUFFICES ASSUME Init PROVE SlotLimit
    OBVIOUS
  <2>1. H = {}
    BY StateFacts DEF Init, ActiveSessions, Active
  <2> QED BY <2>1, FS_EmptySet, ConstantsAssumption DEF SlotLimit
<1>2. SlotLimit /\ [Slots!Next]_Leases => SlotLimit'
  <2> SUFFICES ASSUME SlotLimit, [Slots!Next]_Leases PROVE SlotLimit'
    OBVIOUS
  <2>1. H = Slots!Holders /\ H' = Slots!Holders' /\ IsFiniteSet(H)
        /\ Cardinality(H) \in Nat
    BY HoldersAreActive DEF Slots!Holders, LeaseOf, ActiveSessions, Active
  <2>2. CASE Leases' = Leases
    BY <2>1, <2>2 DEF SlotLimit, Slots!Holders, Leases
  <2>3. ASSUME NEW s \in Sessions, Slots!Take(s) PROVE SlotLimit'
    <3>1. H' = H \cup {s} /\ s \notin H
      BY <2>1, <2>3 DEF Slots!Take, Slots!Holders
    <3>2. Cardinality(H') = Cardinality(H) + 1
      BY <2>1, <3>1, FS_AddElement
    <3>3. Cardinality(H) < Limit
      BY <2>1, <2>3, SameCount DEF Slots!Take
    <3> QED BY <2>1, <3>2, <3>3, ConstantsAssumption DEF SlotLimit
  <2>4. ASSUME NEW s \in Sessions, Slots!GiveBack(s) PROVE SlotLimit'
    <3>1. H' \subseteq H
      BY <2>1, <2>4 DEF Slots!GiveBack, Slots!Holders
    <3>2. Cardinality(H') <= Cardinality(H) /\ Cardinality(H') \in Nat
      BY <2>1, <3>1, FS_Subset, FS_CardinalityType
    <3> QED BY <2>1, <3>2, ConstantsAssumption DEF SlotLimit
  <2> QED BY <2>2, <2>3, <2>4 DEF Slots!Next
<1> QED BY <1>1, <1>2, NextOfLeases, TypeCorrect, DriversCorrect, PTL DEF Spec

=============================================================================
