------------------------ MODULE ProjectLaunch_proofs ------------------------
(***************************************************************************)
(* For any number of services and databases, however often Docker fails,   *)
(* whenever a stop comes and whatever is restarted: a launch that has been *)
(* undone leaves no container running, installs of one workspace take      *)
(* turns, and a container that skips its install mounts a workspace in     *)
(* which that install has finished.                                        *)
(***************************************************************************)
EXTENDS ProjectLaunch, SequenceTheorems, FiniteSetTheorems, TLAPS

Early  == {"databases", "database", "answering", "fallback", "unprovision"}
Phases == Early \cup {"provisioned", "next", "launch", "create", "start", "launched", "replace",
                      "unrestart", "drop", "gate", "died", "ready", "serving", "ending", "over"}
Past   == {"volumes", "network", "unused", "done"}
States == Held \cup {"gone"}

BoxRecords == [state : States, role : {"service", "database"}, of : Nat, vol : Nat, sig : {0} \cup Installs,
               reused : BOOLEAN]

TypeRun ==
  /\ pc \in Phases /\ cur \in 1..NumServices + 1 /\ loop \in BOOLEAN
  /\ heard \in {"nothing", "ok", "failed"} /\ late \in BOOLEAN /\ stopped \in BOOLEAN
  /\ outcome \in [Services -> {"none", "ready", "failed"}]
  /\ want \in [Services -> Installs]

TypeUndo ==
  /\ undo \in [Actors -> {"idle", "cleanup", "teardown"} \cup Past]
  /\ at \in [Actors -> Nat \ {0}]
  /\ busy \in [Actors -> Nat]

TypeNames ==
  /\ pend \in [vol : Nat, reused : BOOLEAN, box : Nat]
  /\ handle \in [Services -> Nat]
  /\ prov \in Seq(Nat) /\ backing \in Seq(Nat)
  /\ cleaned \in SUBSET Nat

TypeBoxes == boxes \in Seq(BoxRecords) /\ TypeNames

TypeDisk ==
  /\ ws \in [Services -> [vol : Nat, installed : {0} \cup Installs]]
  /\ content \in Seq(Nat)

TypeOK == TypeRun /\ TypeUndo /\ TypeBoxes /\ TypeDisk

\* What names a container names one there is.
Bounded ==
  /\ pend.box \in {0} \cup Ids
  /\ \A s \in Services : handle[s] \in {0} \cup Ids
  /\ \A i \in 1..Len(prov) : prov[i] \in Ids
  /\ \A i \in 1..Len(backing) : backing[i] \in Ids
  /\ cleaned \subseteq Ids
  /\ \A a \in Actors : busy[a] \in {0} \cup Ids

\* Services get their containers in order, one round of the loop each.
Rounds ==
  /\ \A s, t \in Services : s < t /\ handle[t] # 0 => handle[s] # 0
  /\ \A s \in Services : s < cur => handle[s] # 0
  /\ pc \in {"launch", "create", "start", "launched", "replace", "gate", "died", "drop",
             "unrestart"} => cur \in Services
  /\ loop => \A t \in Services : t > cur => handle[t] = 0
  /\ pc \in Early \cup {"provisioned", "next"} =>
       loop /\ \A t \in Services : t >= cur => handle[t] = 0
  /\ pc \in {"gate", "died"} => loop
  /\ pc = "ready" => ~loop

\* The container being made is nobody's yet; a restart replaces one that a cleanup has
\* seen to already, or that it sees to itself.
AtHand ==
  /\ pc \in {"replace", "unrestart", "gate", "died"} => handle[cur] # 0
  /\ pc = "unrestart" => handle[cur] = pend.box
  /\ pc \in {"database", "answering", "fallback", "start", "launched", "drop", "unrestart"} =>
       pend.box # 0
  /\ pc \in {"replace", "launch", "create", "start", "launched"} /\ handle[cur] # 0 =>
       handle[cur] \in cleaned
  /\ pc = "drop" => pend.box \in cleaned
  /\ pc \in {"database", "answering", "fallback", "start", "launched"} =>
       /\ pend.box \notin cleaned
       /\ \A s \in Services : handle[s] # pend.box
       /\ \A i \in 1..Len(backing) : backing[i] # pend.box
       /\ \A a \in Actors : busy[a] # pend.box

Filled == Rounds /\ AtHand

-----------------------------------------------------------------------------
\* Types

\* What the operators that Launch's steps share do to the launch's own variables.
LEMMA RunTyped ==
  ASSUME TypeRun, Filled, Next
  PROVE  TypeRun'
<1> USE BoundsAssumption DEF Goto, Abort, Fail, Throw, ThrowToSession, Undo, Phases, Early, runVars
<1>0. NumServices \in Nat /\ cur \in Nat
  BY DEF TypeRun
<1>1. ASSUME NEW b \in Ids, InstallOk(b) \/ InstallFailed(b) PROVE TypeRun'
  BY <1>1 DEF InstallOk, InstallFailed, Marked, TypeRun
<1>2. ASSUME NEW b \in Ids, Starts(b) \/ Dies(b) PROVE TypeRun'
  BY <1>2 DEF Starts, Dies, TypeRun
<1>3. ASSUME NEW a \in Actors, Undoing(a) PROVE TypeRun'
  BY <1>3 DEF Undoing, NextService, NextDatabase, Removed, CleanedUp, ReleaseWorkspaces,
              ReleaseNetwork, RemoveNetwork, TypeRun
<1>4. CASE Stop
  BY <1>4 DEF Stop, TypeRun
<1>5. CASE CreateDatabase \/ StartDatabase \/ DatabaseReady \/ Fallback \/ Unprovision \/ Provisioned
  BY <1>5 DEF CreateDatabase, StartDatabase, DatabaseReady, Fallback, Unprovision, Provisioned, TypeRun
<1>6. CASE Begin \/ Workspace \/ CreateService
  BY <1>6 DEF Begin, Workspace, CreateService, TypeRun
<1>7. CASE StartService \/ Drop \/ Replace \/ Unrestart
  BY <1>7 DEF StartService, Drop, Replace, Unrestart, TypeRun
<1>8. CASE Launched
  <2>1. cur \in Services
    BY <1>8 DEF Launched, Filled, Rounds, AtHand
  <2> QED
    BY <1>0, <1>8, <2>1 DEF Launched, TypeRun, Services
<1>15. ASSUME Proceed, cur \in Services, late' \in BOOLEAN, stopped' = stopped PROVE TypeRun'
  <2>1. cur + 1 \in 1..NumServices + 1
    BY <1>0, <1>15 DEF Services
  <2> QED
    BY <1>15, <2>1 DEF Proceed, TypeRun
<1>9. CASE Gate
  <2>1. cur \in Services /\ late' \in BOOLEAN /\ stopped' = stopped
    BY <1>9 DEF Gate, Filled, Rounds, AtHand, Running, TypeRun
  <2>2. CASE Died \/ Abort
    BY <1>9, <2>1, <2>2 DEF Died, TypeRun
  <2> QED
    BY <1>9, <1>15, <2>1, <2>2 DEF Gate
<1>10. ASSUME NEW s \in Services, NEW sig \in Installs, Restart(s, sig), late' = late, stopped' = stopped
       PROVE  TypeRun'
  BY <1>0, <1>10 DEF Restart, TypeRun, Services
<1>11. CASE InstallDied
  <2>1. cur \in Services
    BY <1>11 DEF InstallDied, Filled, Rounds, AtHand
  <2>2. CASE Restart(cur, want[cur])
    BY <1>10, <1>11, <2>1, <2>2 DEF InstallDied, TypeRun
  <2>3. late' = late /\ late \in BOOLEAN /\ stopped' = stopped
    BY <1>11 DEF InstallDied, TypeRun
  <2>4. CASE UNCHANGED <<cur, heard, outcome, want>> /\ pc' = "ready" /\ loop' = FALSE
    BY <2>3, <2>4 DEF TypeRun
  <2> QED
    BY <1>11, <1>15, <2>1, <2>2, <2>3, <2>4 DEF InstallDied
<1>12. ASSUME NEW s \in Started, Readiness(s) PROVE TypeRun'
  BY <1>12 DEF Readiness, Started, Running, TypeRun
<1>13. CASE Verified
  <2>1. ASSUME NEW s \in Started, NEW sig \in Installs, Restart(s, sig) PROVE TypeRun'
    BY <1>10, <1>13, <2>1 DEF Verified, Started
  <2> QED
    BY <1>13, <2>1 DEF Verified, TypeRun
<1>14. CASE CleanupOver \/ TornDown
  BY <1>14 DEF CleanupOver, TornDown, TypeRun
<1> QED
  BY <1>1, <1>2, <1>3, <1>4, <1>5, <1>6, <1>7, <1>8, <1>9, <1>11, <1>12, <1>13, <1>14
  DEF Next, Launch, Container

\* The cleanups' variables keep their types under a change of one of them.
LEMMA UndoTyped ==
  ASSUME TypeUndo, TypeBoxes, Next
  PROVE  TypeUndo'
<1> USE BoundsAssumption DEF Goto, Abort, Fail, Throw, ThrowToSession, Undo, Past, undoVars, Actors
<1>1. ASSUME NEW b \in Ids, InstallOk(b) \/ InstallFailed(b) \/ Starts(b) \/ Dies(b) PROVE TypeUndo'
  BY <1>1 DEF InstallOk, InstallFailed, Starts, Dies, TypeUndo
<1>2. ASSUME NEW a \in Actors, NextService(a) PROVE TypeUndo'
  <2>1. at[a] \in Services
    BY <1>2 DEF NextService, TypeUndo, Services
  <2>2. handle[at[a]] \in Nat
    BY <2>1 DEF TypeBoxes, TypeNames
  <2> QED
    BY <1>2, <2>2 DEF NextService, TypeUndo
<1>3. ASSUME NEW a \in Actors, NextDatabase(a) PROVE TypeUndo'
  <2>1. BackingAt(a) \in Nat
    BY DEF BackingAt, TypeBoxes, TypeNames, TypeUndo
  <2> QED
    BY <1>3, <2>1 DEF NextDatabase, TypeUndo
<1>4. ASSUME NEW a \in Actors, CleanedUp(a) \/ ReleaseWorkspaces(a) \/ ReleaseNetwork(a)
                               \/ RemoveNetwork(a)
      PROVE  TypeUndo'
  <2>1. CASE CleanedUp(a)
    BY <2>1 DEF CleanedUp, TypeUndo
  <2>2. CASE ReleaseWorkspaces(a) \/ ReleaseNetwork(a) \/ RemoveNetwork(a)
    <3>1. UNCHANGED <<at, busy>> /\ \E h \in Past : undo' = [undo EXCEPT ![a] = h]
      BY <2>2 DEF ReleaseWorkspaces, ReleaseNetwork, RemoveNetwork
    <3> QED
      BY <3>1 DEF TypeUndo
  <2> QED
    BY <1>4, <2>1, <2>2
<1>13. ASSUME NEW a \in Actors, Removed(a) PROVE TypeUndo'
  BY <1>13 DEF Removed, TypeUndo
<1>5. CASE Stop
  BY <1>5 DEF Stop, TypeUndo
<1>6. CASE CreateDatabase \/ StartDatabase \/ DatabaseReady \/ Fallback \/ Provisioned
  <2>1. UNCHANGED undoVars
    BY <1>6 DEF CreateDatabase, StartDatabase, DatabaseReady, Fallback, Provisioned
  <2> QED
    BY <2>1 DEF TypeUndo
<1>14. CASE Unprovision
  BY <1>14 DEF Unprovision, TypeUndo
<1>7. CASE Begin \/ Workspace \/ CreateService
  BY <1>7 DEF Begin, Workspace, CreateService, TypeUndo
<1>8. CASE StartService \/ Drop \/ Replace \/ Unrestart \/ Launched
  BY <1>8 DEF StartService, Drop, Replace, Unrestart, Launched, TypeUndo
<1>9. CASE Gate
  BY <1>9 DEF Gate, Proceed, Died, TypeUndo
<1>10. CASE InstallDied \/ Verified
  BY <1>10 DEF InstallDied, Proceed, Restart, Verified, TypeUndo
<1>11. ASSUME NEW s \in Started, Readiness(s) PROVE TypeUndo'
  BY <1>11 DEF Readiness, TypeUndo
<1>12. CASE CleanupOver \/ TornDown
  BY <1>12 DEF CleanupOver, TornDown, TypeUndo
<1> QED
  BY <1>1, <1>2, <1>3, <1>4, <1>5, <1>6, <1>7, <1>8, <1>9, <1>10, <1>11, <1>12, <1>13,
     <1>14
  DEF Next, Launch, Container, Undoing

-----------------------------------------------------------------------------
\* Containers: one more, or one in another state

Sets(b, s) == boxes' = [boxes EXCEPT ![b].state = s]

\* One container's state changes, and nothing else of it or of the others.
LEMMA SetOne ==
  ASSUME boxes \in Seq(BoxRecords), NEW b \in Ids, NEW s \in States, Sets(b, s)
  PROVE  /\ boxes' \in Seq(BoxRecords) /\ Len(boxes') = Len(boxes)
         /\ boxes'[b].state = s
         /\ \A c \in Ids : c # b => boxes'[c] = boxes[c]
         /\ \A c \in Ids : /\ boxes'[c].role = boxes[c].role /\ boxes'[c].vol = boxes[c].vol
                           /\ boxes'[c].sig = boxes[c].sig /\ boxes'[c].reused = boxes[c].reused
                           /\ boxes'[c].of = boxes[c].of
<1> DEFINE x == [boxes[b] EXCEPT !.state = s]
<1>1. boxes[b] \in BoxRecords
  BY DEF Ids
<1>2. x \in BoxRecords
  BY <1>1 DEF BoxRecords
<1>3. /\ x.state = s /\ x.role = boxes[b].role /\ x.vol = boxes[b].vol /\ x.sig = boxes[b].sig
      /\ x.reused = boxes[b].reused /\ x.of = boxes[b].of
  BY <1>1 DEF BoxRecords
<1>4. boxes' = [boxes EXCEPT ![b] = x]
  BY DEF Sets
<1> HIDE DEF x
<1>5. boxes' \in Seq(BoxRecords) /\ Len(boxes') = Len(boxes)
  BY <1>2, <1>4 DEF Ids
<1>6. boxes'[b] = x /\ \A c \in Ids : c # b => boxes'[c] = boxes[c]
  BY <1>4 DEF Ids
<1> QED
  BY <1>3, <1>5, <1>6

\* A container more leaves the others where they are.
LEMMA AddOne ==
  ASSUME boxes \in Seq(BoxRecords), NEW x \in BoxRecords, boxes' = Append(boxes, x)
  PROVE  /\ boxes' \in Seq(BoxRecords) /\ Len(boxes') = Len(boxes) + 1
         /\ boxes'[Len(boxes) + 1] = x
         /\ \A c \in Ids : boxes'[c] = boxes[c]
<1>1. boxes' \in Seq(BoxRecords) /\ Len(boxes') = Len(boxes) + 1
  OBVIOUS
<1>2. boxes'[Len(boxes) + 1] = x /\ \A c \in Ids : boxes'[c] = boxes[c]
  BY DEF Ids
<1> QED
  BY <1>1, <1>2

\* The launch starts this container, or hears whether it answers.
Starting(b) == pc \in {"database", "answering", "start"} /\ pc' # pc /\ b = pend.box

\* The states a container changes by itself, and those it comes to.
Themselves == {"reusing", "installing", "installed", "up", "dying", "exited"}
Later == {"installed", "up", "dying", "exited"}

\* What the launch makes of a container it starts.
Begun(b, s) ==
  /\ Starting(b) /\ s \in {"up", "exited", "reusing", "installing"}
  /\ s \in {"reusing", "installing"} =>
       pc = "start" /\ pc' = "launched" /\ (s = "reusing" <=> pend.reused)

\* The steps that create a container.
Adds == (pc = "databases" /\ pc' = "database") \/ (pc = "create" /\ pc' = "start")

\* What a step may do to Docker's containers: nothing, one more, or one changed.
LEMMA BoxKinds ==
  ASSUME TypeOK, Bounded, Filled, Next
  PROVE  \/ boxes' = boxes
         \/ \E b \in Ids, s \in States :
              /\ Sets(b, s)
              /\ \/ boxes[b].state \in Themselves /\ s \in Later
                 \/ s = "gone" /\ (pc = "start" => b # pend.box)
                 \/ Begun(b, s)
         \/ Adds /\ \E x \in BoxRecords : boxes' = Append(boxes, x) /\ x.state = "created"
<1> DEFINE Goal == \/ boxes' = boxes
                   \/ \E b \in Ids, s \in States :
                        /\ Sets(b, s)
                        /\ \/ boxes[b].state \in Themselves /\ s \in Later
                           \/ s = "gone" /\ (pc = "start" => b # pend.box)
                           \/ Begun(b, s)
                   \/ Adds /\ \E x \in BoxRecords : boxes' = Append(boxes, x) /\ x.state = "created"
<1> SUFFICES Goal
  OBVIOUS
<1> USE DEF boxVars
<1>0. /\ Later \subseteq States /\ "gone" \in States
      /\ {"up", "exited", "reusing", "installing"} \subseteq States
  BY DEF Later, States, Held, Live
<1>1. ASSUME NEW b \in Ids, InstallOk(b) \/ InstallFailed(b) \/ Starts(b) \/ Dies(b) PROVE Goal
  <2>1. /\ boxes[b].state \in Themselves
        /\ \E s \in Later : Sets(b, s)
    BY <1>1 DEF InstallOk, InstallFailed, Starts, Dies, SetBox, Sets, Themselves, Later, Live
  <2> QED
    BY <1>0, <2>1
<1>2. ASSUME NEW b \in Ids, StopAndRemove(b), pc = "start" => b # pend.box PROVE Goal
  <2>1. boxes' = boxes \/ Sets(b, "gone")
    BY <1>2 DEF StopAndRemove, SetBox, Sets
  <2> QED
    BY <1>0, <1>2, <2>1
<1>3. ASSUME NEW a \in Actors, Undoing(a) PROVE Goal
  <2>1. CASE Removed(a)
    <3>1. busy[a] \in Ids /\ StopAndRemove(busy[a]) /\ (pc = "start" => busy[a] # pend.box)
      BY <2>1 DEF Removed, Bounded, Filled, AtHand
    <3> QED
      BY <1>2, <3>1
  <2> QED
    BY <1>3, <2>1 DEF Undoing, NextService, NextDatabase, CleanedUp, ReleaseWorkspaces, ReleaseNetwork,
                RemoveNetwork
<1>4. CASE CreateDatabase
  <2>1. NewBox("database", Database, 0, 0, FALSE) \in BoxRecords
    BY DEF NewBox, BoxRecords, States, Held, Live, Database, TypeOK, TypeBoxes, TypeNames
  <2>2. NewBox("database", Database, 0, 0, FALSE).state = "created"
    BY DEF NewBox
  <2> QED
    BY <1>4, <2>1, <2>2 DEF CreateDatabase, Adds
<1>5. CASE CreateService
  <2>1. NewBox("service", cur, pend.vol, want[cur], pend.reused) \in BoxRecords
    <3>1. cur \in Services
      BY <1>5 DEF CreateService, Filled, Rounds, AtHand
    <3>2. want[cur] \in Installs
      BY <3>1 DEF TypeOK, TypeRun
    <3>3. pend.vol \in Nat /\ pend.reused \in BOOLEAN
      BY DEF TypeOK, TypeBoxes, TypeNames
    <3>4. cur \in Nat /\ "created" \in States
      BY <3>1 DEF Services, States, Held, Live
    <3> QED
      BY <3>2, <3>3, <3>4 DEF NewBox, BoxRecords
  <2>2. NewBox("service", cur, pend.vol, want[cur], pend.reused).state = "created"
    BY DEF NewBox
  <2> QED
    BY <1>5, <2>1, <2>2 DEF CreateService, Adds
<1>6. CASE StartDatabase \/ DatabaseReady \/ StartService
  <2>1. pend.box \in Ids /\ Starting(pend.box)
    BY <1>6 DEF StartDatabase, DatabaseReady, StartService, Goto, Starting, Bounded, Filled, Rounds, AtHand
  <2>2. CASE StartDatabase \/ DatabaseReady
    <3>1. boxes' = boxes \/ \E s \in {"up", "exited"} : Sets(pend.box, s)
      BY <2>2 DEF StartDatabase, DatabaseReady, SetBox, Sets
    <3>2. \A s \in {"up", "exited"} : Begun(pend.box, s)
      BY <2>1 DEF Begun
    <3> QED
      BY <1>0, <2>1, <3>1, <3>2
  <2>3. CASE StartService
    <3> DEFINE s == IF pend.reused THEN "reusing" ELSE "installing"
    <3>1. boxes' = boxes \/ (Sets(pend.box, s) /\ pc = "start" /\ pc' = "launched")
      BY <2>3 DEF StartService, SetBox, Sets, Goto
    <3>2. CASE Sets(pend.box, s) /\ pc = "start" /\ pc' = "launched"
      <4>1. Begun(pend.box, s) /\ s \in States
        BY <1>0, <2>1, <3>2 DEF Begun
      <4> QED
        BY <2>1, <3>2, <4>1
    <3> QED
      BY <3>1, <3>2
  <2> QED
    BY <1>6, <2>2, <2>3
<1>7. CASE Fallback \/ Drop
  <2>1. pend.box \in Ids /\ StopAndRemove(pend.box) /\ pc # "start"
    BY <1>7 DEF Fallback, Drop, Bounded, Filled, Rounds, AtHand
  <2> QED
    BY <1>2, <2>1
<1>8. CASE Unprovision
  <2>1. CASE prov = <<>>
    BY <1>8, <2>1 DEF Unprovision
  <2>2. CASE prov # <<>>
    <3>1. Len(prov) \in 1..Len(prov)
      BY <2>2 DEF TypeOK, TypeBoxes, TypeNames
    <3>2. Last(prov) \in Ids
      BY <3>1 DEF Last, Bounded
    <3> QED
      BY <1>2, <1>8, <2>2, <3>2 DEF Unprovision
  <2> QED
    BY <2>1, <2>2
<1>9. CASE Replace
  <2>1. handle[cur] \in Ids
    BY <1>9 DEF Replace, Bounded, Filled, Rounds, AtHand
  <2> QED
    BY <1>2, <1>9, <2>1 DEF Replace
<1>10. CASE Unrestart
  BY <1>10 DEF Unrestart
<1>11. CASE Provisioned \/ Begin \/ Workspace \/ Launched
  BY <1>11 DEF Provisioned, Begin, Workspace, Launched
<1>13. CASE Gate \/ InstallDied \/ Verified
  BY <1>13 DEF Gate, InstallDied, Verified
<1>14. CASE CleanupOver \/ TornDown \/ Stop
  BY <1>14 DEF CleanupOver, TornDown, Stop
<1>15. ASSUME NEW s \in Started, Readiness(s) PROVE Goal
  BY <1>15 DEF Readiness
<1> HIDE DEF Goal
<1>12. ASSUME Container PROVE Goal
  BY <1>1, <1>12 DEF Container
<1>16. ASSUME Launch PROVE Goal
  BY <1>4, <1>5, <1>6, <1>7, <1>8, <1>9, <1>10, <1>11, <1>13, <1>14, <1>15, <1>16 DEF Launch
<1> QED
  BY <1>3, <1>12, <1>14, <1>16 DEF Next

\* Refused calls are counted up.
LEMMA RefusedGrows ==
  ASSUME Next
  PROVE  refused \subseteq refused'
<1> DEFINE Goal == refused \subseteq refused'
<1> SUFFICES Goal
  OBVIOUS
<1> USE DEF boxVars
<1>1. ASSUME Container PROVE Goal
  BY <1>1 DEF Container, InstallOk, InstallFailed, Starts, Dies
<1>2. ASSUME NEW b, StopAndRemove(b) PROVE Goal
  BY <1>2 DEF StopAndRemove
<1>3. ASSUME NEW a \in Actors, Undoing(a) PROVE Goal
  <2>1. CASE Removed(a)
    BY <1>2, <2>1 DEF Removed
  <2> QED
    BY <1>3, <2>1 DEF Undoing, NextService, NextDatabase, CleanedUp, ReleaseWorkspaces, ReleaseNetwork,
                RemoveNetwork
<1>4. CASE CreateDatabase \/ StartDatabase \/ DatabaseReady \/ Provisioned
  BY <1>4 DEF CreateDatabase, StartDatabase, DatabaseReady, Provisioned
<1>5. CASE Fallback \/ Drop \/ Replace
  BY <1>2, <1>5 DEF Fallback, Drop, Replace
<1>6. CASE Unprovision
  BY <1>2, <1>6 DEF Unprovision
<1>7. CASE Begin \/ Workspace \/ CreateService \/ StartService \/ Launched
  BY <1>7 DEF Begin, Workspace, CreateService, StartService, Launched
<1>8. CASE Unrestart \/ Gate \/ InstallDied \/ Verified
  BY <1>8 DEF Unrestart, Gate, InstallDied, Verified
<1>9. CASE CleanupOver \/ TornDown \/ Stop
  BY <1>9 DEF CleanupOver, TornDown, Stop
<1>10. ASSUME NEW s \in Started, Readiness(s) PROVE Goal
  BY <1>10 DEF Readiness
<1> HIDE DEF Goal
<1>11. ASSUME Launch PROVE Goal
  BY <1>4, <1>5, <1>6, <1>7, <1>8, <1>9, <1>10, <1>11 DEF Launch
<1> QED
  BY <1>1, <1>3, <1>9, <1>11 DEF Next

\* A container that is off for good: removed, or one that Docker refused to remove.
Off(b) == boxes[b].state = "gone" \/ b \in refused

\* What is off stays off unless it is being started; what is new has only been created.
LEMMA BoxStep ==
  ASSUME TypeOK, Bounded, Filled, Next
  PROVE  /\ boxes' \in Seq(BoxRecords) /\ Ids \subseteq Ids'
         /\ \A b \in Ids : Off(b) => Off(b)' \/ Starting(b)
         /\ \A b \in Ids : boxes[b].state = "created" =>
              boxes'[b].state \in {"gone", "created"} \/ Starting(b)
         /\ \A b \in Ids' : b \notin Ids => boxes'[b].state = "created"
<1> DEFINE Goal == /\ boxes' \in Seq(BoxRecords) /\ Ids \subseteq Ids'
                   /\ \A b \in Ids : boxes[b].state = "gone" =>
                        boxes'[b].state = "gone" \/ Starting(b)
                   /\ \A b \in Ids : boxes[b].state = "created" =>
                        boxes'[b].state \in {"gone", "created"} \/ Starting(b)
                   /\ \A b \in Ids' : b \notin Ids => boxes'[b].state = "created"
<1>1. boxes \in Seq(BoxRecords)
  BY DEF TypeOK, TypeBoxes, TypeNames
<1>2. ASSUME boxes' = boxes PROVE Goal
  BY <1>1, <1>2 DEF Ids
<1>3. ASSUME NEW b \in Ids, NEW s \in States, Sets(b, s),
             \/ boxes[b].state \in Themselves /\ s \in Later
             \/ s = "gone"
             \/ Begun(b, s)
      PROVE  Goal
  <2>1. /\ boxes' \in Seq(BoxRecords) /\ Ids' = Ids /\ boxes'[b].state = s
        /\ \A c \in Ids : c # b => boxes'[c] = boxes[c]
    BY <1>1, <1>3, SetOne DEF Ids
  <2> QED
    BY <1>3, <2>1 DEF Themselves, Begun
<1>4. ASSUME NEW x \in BoxRecords, boxes' = Append(boxes, x), x.state = "created" PROVE Goal
  <2>1. /\ boxes' \in Seq(BoxRecords) /\ Ids' = Ids \cup {Len(boxes) + 1}
        /\ boxes'[Len(boxes) + 1] = x /\ \A c \in Ids : boxes'[c] = boxes[c]
    BY <1>1, <1>4, AddOne DEF Ids
  <2> QED
    BY <1>4, <2>1
<1>5. Goal
  <2> HIDE DEF Goal
  <2> QED
    BY <1>2, <1>3, <1>4, BoxKinds
<1>6. refused \subseteq refused'
  BY RefusedGrows
<1>7. ASSUME NEW b \in Ids, Off(b) PROVE Off(b)' \/ Starting(b)
  BY <1>5, <1>6, <1>7 DEF Off
<1> QED
  BY <1>5, <1>7

-----------------------------------------------------------------------------
\* The launch gives up: what every way to do so has in common.

Thrown ==
  \E h \in {"cleanup", "teardown", "volumes"} :
    /\ h = "volumes" => undo["stop"] \notin {"idle", "teardown"}
    /\ Undo("launch", h)
    /\ pc' = "ending" /\ pend' = Nobody /\ heard' = "nothing"
    /\ UNCHANGED <<cur, loop, outcome, want, extras>>

\* However a launch throws, it goes to its undoing.
LEMMA Throws ==
  /\ Abort => Thrown
  /\ Fail => Thrown
  /\ Throw => Thrown
<1>1. Abort => Thrown
  BY DEF Abort, Thrown
<1>2. Fail => Thrown
  BY DEF Fail, ThrowToSession, Thrown
<1> QED
  BY <1>1, <1>2 DEF Throw

-----------------------------------------------------------------------------
\* Names of containers

\* Every step keeps the types of what the run has recorded.
LEMMA NamesTyped ==
  ASSUME TypeOK, Bounded, Filled, Next
  PROVE  TypeNames' /\ Bounded'
<1> DEFINE Goal == TypeNames' /\ Bounded'
<1> SUFFICES Goal
  OBVIOUS
<1>1. Ids \subseteq Ids' /\ Len(boxes) \in Nat /\ boxes \in Seq(BoxRecords)
  BY BoxStep DEF TypeOK, TypeBoxes
<1>2. TypeNames /\ Bounded /\ TypeUndo
  BY DEF TypeOK, TypeBoxes
<1>3. Ids \subseteq Nat /\ Ids' \subseteq Nat
  BY DEF Ids
<1>4. /\ \A s \in Services : handle[s] \in {0} \cup Ids'
      /\ \A i \in 1..Len(prov) : prov[i] \in Ids'
      /\ \A i \in 1..Len(backing) : backing[i] \in Ids'
      /\ cleaned \subseteq Ids' /\ pend.box \in {0} \cup Ids'
      /\ \A a \in Actors : busy[a] \in {0} \cup Ids'
  BY <1>1 DEF Bounded
\* What a step may change, one variable at a time.
<1> DEFINE PendOk  == pend' \in [vol : Nat, reused : BOOLEAN, box : Nat] /\ pend'.box \in {0} \cup Ids'
           HandOk  == /\ handle' \in [Services -> Nat]
                      /\ \A s \in Services : handle'[s] \in {0} \cup Ids'
           ProvOk  == prov' \in Seq(Nat) /\ \A i \in 1..Len(prov') : prov'[i] \in Ids'
           BackOk  == backing' \in Seq(Nat) /\ \A i \in 1..Len(backing') : backing'[i] \in Ids'
           CleanOk == cleaned' \in SUBSET Nat /\ cleaned' \subseteq Ids'
           BusyOk  == \A a \in Actors : busy'[a] \in {0} \cup Ids'
<1>13. Nobody \in [vol : Nat, reused : BOOLEAN, box : Nat] /\ Nobody.box = 0
  BY DEF Nobody
<1>5. pend' = pend \/ pend' = Nobody => PendOk
  BY <1>2, <1>4, <1>13 DEF TypeNames
<1>6. handle' = handle => HandOk
  BY <1>2, <1>4 DEF TypeNames
<1>7. prov' = prov => ProvOk
  BY <1>2, <1>4 DEF TypeNames
<1>8. backing' = backing => BackOk
  BY <1>2, <1>4 DEF TypeNames
<1>9. cleaned' = cleaned \/ (\E b \in Ids : cleaned' = cleaned \cup {b}) => CleanOk
  BY <1>1, <1>2, <1>3, <1>4 DEF TypeNames
<1>10. busy' = busy \/ (\E a \in Actors, n \in {0} \cup Ids : busy' = [busy EXCEPT ![a] = n]) => BusyOk
  BY <1>1, <1>2, <1>4 DEF TypeUndo
<1>11. PendOk /\ HandOk /\ ProvOk /\ BackOk /\ CleanOk /\ BusyOk => Goal
  BY DEF TypeNames, Bounded
<1>12. Thrown => PendOk /\ BusyOk
  BY <1>5, <1>10 DEF Thrown, Undo, Actors
<1> HIDE DEF Goal, PendOk, HandOk, ProvOk, BackOk, CleanOk, BusyOk
<1> USE DEF runVars, boxVars, recVars, undoVars
<1>20. ASSUME Container PROVE Goal
  BY <1>5, <1>6, <1>7, <1>8, <1>9, <1>10, <1>11, <1>20
  DEF Container, InstallOk, InstallFailed, Starts, Dies
<1>21. ASSUME NEW a \in Actors, Undoing(a) PROVE Goal
  <2>1. UNCHANGED <<pend, handle, prov, backing>>
    BY <1>21 DEF Undoing, NextService, NextDatabase, Removed, CleanedUp, ReleaseWorkspaces,
                 ReleaseNetwork, RemoveNetwork
  <2>2. CASE NextService(a)
    <3>1. at[a] \in Services
      BY <1>2, <2>2, BoundsAssumption DEF NextService, TypeUndo, Services
    <3>2. CleanOk /\ BusyOk
      BY <1>2, <1>9, <1>10, <2>2, <3>1 DEF NextService, Bounded
    <3> QED
      BY <1>5, <1>6, <1>7, <1>8, <1>11, <2>1, <3>2
  <2>3. CASE NextDatabase(a)
    <3>1. BackingAt(a) \in {0} \cup Ids
      <4>1. at[a] \in Nat /\ NumServices \in Nat /\ Len(backing) \in Nat
        BY <1>2, BoundsAssumption DEF TypeUndo, TypeNames
      <4> QED
        BY <1>2, <4>1 DEF BackingAt, Bounded
    <3>2. CleanOk /\ BusyOk
      BY <1>9, <1>10, <2>3, <3>1 DEF NextDatabase
    <3> QED
      BY <1>5, <1>6, <1>7, <1>8, <1>11, <2>1, <3>2
  <2>4. CASE Removed(a) \/ CleanedUp(a) \/ ReleaseWorkspaces(a) \/ ReleaseNetwork(a) \/ RemoveNetwork(a)
    <3>1. cleaned' = cleaned /\ (busy' = busy \/ busy' = [busy EXCEPT ![a] = 0])
      BY <2>4 DEF Removed, CleanedUp, Undo, ReleaseWorkspaces, ReleaseNetwork, RemoveNetwork
    <3> QED
      BY <1>5, <1>6, <1>7, <1>8, <1>9, <1>10, <1>11, <2>1, <3>1
  <2> QED
    BY <1>21, <2>2, <2>3, <2>4 DEF Undoing
<1>22. CASE Stop
  BY <1>5, <1>6, <1>7, <1>8, <1>9, <1>10, <1>11, <1>22 DEF Stop, Undo, Actors
<1>23. CASE CreateDatabase \/ CreateService
  <2>1. HandOk /\ ProvOk /\ BackOk /\ CleanOk
    BY <1>6, <1>7, <1>8, <1>9, <1>23 DEF CreateDatabase, CreateService
  <2>4. \A x : Append(boxes, x) # boxes /\ Len(Append(boxes, x)) = Len(boxes) + 1
    BY <1>1
  <2>2. CASE boxes' = boxes
    <3>1. (pend' = pend /\ busy' = busy) \/ Throw
      BY <1>23, <2>2, <2>4 DEF CreateDatabase, CreateService, Goto
    <3> QED
      BY <1>5, <1>10, <1>11, <1>12, <2>1, <3>1, Throws
  <2>3. CASE boxes' # boxes
    <3>1. /\ Len(boxes') = Len(boxes) + 1 /\ busy' = busy
          /\ pend' = [Nobody EXCEPT !.box = Len(boxes) + 1, !.reused = pend.reused]
               \/ pend' = [pend EXCEPT !.box = Len(boxes) + 1]
      BY <1>23, <2>3, <2>4 DEF CreateDatabase, CreateService
    <3>2. Len(boxes) + 1 \in Ids'
      BY <1>1, <3>1 DEF Ids
    <3>5. pend \in [vol : Nat, reused : BOOLEAN, box : Nat] /\ pend.reused \in BOOLEAN
      BY <1>2 DEF TypeNames
    <3>3. PendOk
      <4>1. CASE pend' = [Nobody EXCEPT !.box = Len(boxes) + 1, !.reused = pend.reused]
        <5>1. pend' \in [vol : Nat, reused : BOOLEAN, box : Nat] /\ pend'.box = Len(boxes) + 1
          <6>1. pend' = [vol |-> 0, reused |-> pend.reused, box |-> Len(boxes) + 1]
            BY <4>1 DEF Nobody
          <6> QED
            BY <1>1, <3>5, <6>1
        <5> QED
          BY <3>2, <5>1 DEF PendOk
      <4>2. CASE pend' = [pend EXCEPT !.box = Len(boxes) + 1]
        <5>1. pend' \in [vol : Nat, reused : BOOLEAN, box : Nat] /\ pend'.box = Len(boxes) + 1
          BY <1>1, <3>5, <4>2
        <5> QED
          BY <3>2, <5>1 DEF PendOk
      <4> QED
        BY <3>1, <4>1, <4>2
    <3> QED
      BY <1>10, <1>11, <2>1, <3>1, <3>3
  <2> QED
    BY <2>2, <2>3
<1>24. CASE StartDatabase
  BY <1>5, <1>6, <1>7, <1>8, <1>9, <1>10, <1>11, <1>24 DEF StartDatabase, Goto
<1>25. CASE DatabaseReady
  <2>1. pend.box \in Ids'
    BY <1>4, <1>25 DEF DatabaseReady, Filled, Rounds, AtHand
  <2>2. ProvOk
    <3>1. CASE prov' = Append(prov, pend.box)
      BY <1>2, <1>3, <1>4, <2>1, <3>1 DEF ProvOk, TypeNames
    <3> QED
      BY <1>7, <1>25, <3>1 DEF DatabaseReady
  <2> QED
    BY <1>5, <1>6, <1>8, <1>9, <1>10, <1>11, <1>25, <2>2 DEF DatabaseReady
<1>26. CASE Fallback
  <2>1. PendOk
    BY <1>26 DEF Fallback, PendOk, Nobody
  <2> QED
    BY <1>6, <1>7, <1>8, <1>9, <1>10, <1>11, <1>26, <2>1 DEF Fallback
<1>27. CASE Unprovision
  <2>1. HandOk /\ BackOk /\ CleanOk
    BY <1>6, <1>8, <1>9, <1>27 DEF Unprovision
  <2>2. CASE prov = <<>>
    BY <1>7, <1>11, <1>12, <1>27, <2>1, <2>2, Throws DEF Unprovision
  <2>3. CASE prov # <<>>
    <3>1. prov' = SubSeq(prov, 1, Len(prov) - 1) /\ pend' = pend /\ busy' = busy
      BY <1>27, <2>3 DEF Unprovision, Goto, Front
    <3>2. Len(prov) \in Nat /\ Len(prov) # 0 /\ \A i \in 1..Len(prov) : prov[i] \in Nat
      BY <1>2, <2>3 DEF TypeNames
    <3>3. /\ prov' \in Seq(Nat) /\ Len(prov') = Len(prov) - 1
          /\ \A i \in 1..Len(prov) - 1 : prov'[i] = prov[i]
      <4>1. \A i \in 1..Len(prov) - 1 : prov[i] \in Nat
        BY <3>2
      <4>2. /\ SubSeq(prov, 1, Len(prov) - 1) \in Seq(Nat)
            /\ Len(SubSeq(prov, 1, Len(prov) - 1)) =
                 IF 1 <= Len(prov) - 1 THEN Len(prov) - 1 - 1 + 1 ELSE 0
            /\ \A i \in 1..Len(prov) - 1 - 1 + 1 : SubSeq(prov, 1, Len(prov) - 1)[i] = prov[1 + i - 1]
        BY <3>2, <4>1, SubSeqProperties
      <4>3. 1..Len(prov) - 1 - 1 + 1 = 1..Len(prov) - 1 /\ \A i \in 1..Len(prov) - 1 : 1 + i - 1 = i
        BY <3>2
      <4>4. Len(prov') = Len(prov) - 1
        <5> DEFINE n == Len(prov)
        <5>1. n \in Nat /\ n # 0 /\ Len(prov') = IF 1 <= n - 1 THEN n - 1 - 1 + 1 ELSE 0
          BY <3>1, <3>2, <4>2
        <5> HIDE DEF n
        <5>2. Len(prov') = n - 1
          BY <5>1
        <5> QED
          BY <5>2 DEF n
      <4>5. ASSUME NEW i \in 1..Len(prov) - 1 PROVE prov'[i] = prov[i]
        <5>1. i \in 1..Len(prov) - 1 - 1 + 1 /\ 1 + i - 1 = i
          BY <4>3
        <5>2. SubSeq(prov, 1, Len(prov) - 1)[i] = prov[1 + i - 1]
          BY <4>2, <5>1
        <5> QED
          BY <3>1, <5>1, <5>2
      <4> QED
        BY <3>1, <4>2, <4>4, <4>5
    <3>4. ProvOk
      BY <1>4, <3>2, <3>3 DEF ProvOk
    <3> QED
      BY <1>5, <1>10, <1>11, <2>1, <3>1, <3>4
  <2> QED
    BY <2>2, <2>3
<1>28. CASE Provisioned
  <2>1. BackOk
    BY <1>2, <1>4, <1>28 DEF Provisioned, BackOk, TypeNames
  <2> QED
    BY <1>5, <1>6, <1>7, <1>9, <1>10, <1>11, <1>28, <2>1 DEF Provisioned, Goto
<1>29. CASE Begin \/ Gate
  <2>1. HandOk /\ ProvOk /\ BackOk /\ CleanOk
    BY <1>6, <1>7, <1>8, <1>9, <1>29 DEF Begin, Gate
  <2>2. Abort \/ (pend' = pend /\ busy' = busy)
    BY <1>29 DEF Begin, Gate, Goto, Proceed, Died
  <2> QED
    BY <1>5, <1>10, <1>11, <1>12, <2>1, <2>2, Throws
<1>30. CASE Workspace
  <2>1. PendOk
    <3>1. pend'.box = 0
      BY <1>30 DEF Workspace
    <3>2. cur \in Services
      BY <1>30 DEF Workspace, Filled, Rounds, AtHand
    <3>3. Key(cur) \in Services
      BY <3>2, BoundsAssumption DEF Key, Services
    <3>4. ws[Key(cur)].vol \in Nat /\ Len(content) + 1 \in Nat
      BY <3>3 DEF TypeOK, TypeDisk
    <3> QED
      <4>1. \/ pend' = [vol |-> ws[Key(cur)].vol, reused |-> TRUE, box |-> 0]
            \/ pend' = [vol |-> Len(content) + 1, reused |-> FALSE, box |-> 0]
        BY <1>30 DEF Workspace
      <4>2. ASSUME NEW v \in Nat, NEW r \in BOOLEAN, NEW n \in Nat
            PROVE  [vol |-> v, reused |-> r, box |-> n] \in [vol : Nat, reused : BOOLEAN, box : Nat]
        OBVIOUS
      <4>3. pend' \in [vol : Nat, reused : BOOLEAN, box : Nat]
        BY <3>4, <4>1, <4>2
      <4> QED
        BY <3>1, <4>3 DEF PendOk
  <2> QED
    BY <1>6, <1>7, <1>8, <1>9, <1>10, <1>11, <1>30, <2>1 DEF Workspace
<1>31. CASE StartService \/ Drop \/ Replace \/ Unrestart
  <2>1. HandOk /\ ProvOk /\ BackOk
    BY <1>6, <1>7, <1>8, <1>31 DEF StartService, Drop, Replace, Unrestart
  <2>2. CleanOk
    <3>1. pc \in {"start", "unrestart"} => pend.box \in Ids
      BY DEF Filled, Rounds, AtHand, Bounded
    <3> QED
      BY <1>9, <1>31, <3>1 DEF StartService, Drop, Replace, Unrestart
  <2>3. Throw \/ (pend' = pend /\ busy' = busy)
    BY <1>31 DEF StartService, Drop, Replace, Unrestart, Goto
  <2> QED
    BY <1>5, <1>10, <1>11, <1>12, <2>1, <2>2, <2>3, Throws
<1>32. CASE Launched
  <2>1. pend.box \in Ids /\ cur \in Services
    BY <1>32 DEF Launched, Filled, Rounds, AtHand, Bounded
  <2>2. HandOk
    BY <1>1, <1>2, <1>3, <1>4, <1>32, <2>1 DEF Launched, HandOk, TypeNames
  <2>3. Abort \/ (busy' = busy /\ pend' \in {pend, Nobody})
    BY <1>32 DEF Launched, Goto
  <2> QED
    BY <1>5, <1>7, <1>8, <1>9, <1>10, <1>11, <1>12, <1>32, <2>2, <2>3, Throws DEF Launched
<1>33. ASSUME NEW s \in Services, NEW sig \in Installs, Restart(s, sig), handle[s] # 0,
              UNCHANGED recVars
       PROVE  Goal
  <2>1. handle[s] \in Ids
    BY <1>33 DEF Bounded
  <2> QED
    BY <1>5, <1>6, <1>7, <1>8, <1>9, <1>10, <1>11, <1>33, <2>1 DEF Restart
<1>34. CASE InstallDied
  <2>1. cur \in Services /\ handle[cur] # 0 /\ want[cur] \in Installs
    BY <1>34 DEF InstallDied, Filled, Rounds, AtHand, TypeOK, TypeRun
  <2>2. CASE Restart(cur, want[cur])
    BY <1>33, <1>34, <2>1, <2>2 DEF InstallDied
  <2> QED
    BY <1>5, <1>6, <1>7, <1>8, <1>9, <1>10, <1>11, <1>34, <2>2 DEF InstallDied, Proceed
<1>35. CASE Verified
  <2>1. ASSUME NEW s \in Started, NEW sig \in Installs, Restart(s, sig) PROVE Goal
    BY <1>33, <1>35, <2>1 DEF Verified, Started
  <2>2. CASE Fail /\ UNCHANGED cleaned
    BY <1>6, <1>7, <1>8, <1>9, <1>11, <1>12, <1>35, <2>2, Throws DEF Verified
  <2>3. CASE Goto("serving") /\ UNCHANGED cleaned
    BY <1>5, <1>6, <1>7, <1>8, <1>9, <1>10, <1>11, <1>35, <2>3 DEF Verified, Goto
  <2> QED
    BY <1>35, <2>1, <2>2, <2>3 DEF Verified
<1>36. ASSUME NEW s \in Started, Readiness(s) PROVE Goal
  BY <1>5, <1>6, <1>7, <1>8, <1>9, <1>10, <1>11, <1>36 DEF Readiness
<1>37. CASE CleanupOver \/ TornDown
  BY <1>5, <1>6, <1>7, <1>8, <1>9, <1>10, <1>11, <1>37
  DEF CleanupOver, ThrowToSession, Undo, TornDown, Actors
<1>38. ASSUME Launch PROVE Goal
  BY <1>23, <1>24, <1>25, <1>26, <1>27, <1>28, <1>29, <1>30, <1>31, <1>32, <1>34, <1>35, <1>36,
     <1>37, <1>38
  DEF Launch
<1> QED
  BY <1>20, <1>21, <1>22, <1>38 DEF Next

-----------------------------------------------------------------------------
\* Workspaces, and what is in them

\* Every step keeps the types of the workspaces and the network.
LEMMA DiskTyped ==
  ASSUME TypeOK, Filled, Next
  PROVE  TypeDisk'
<1> DEFINE Room == [vol : Nat, installed : {0} \cup Installs]
<1>1. ws \in [Services -> Room] /\ content \in Seq(Nat) /\ {0} \cup Installs \subseteq Nat
  BY DEF TypeOK, TypeDisk, Installs
<1>2. ws' = ws /\ content' = content => TypeDisk'
  BY <1>1 DEF TypeDisk
<1>3. ASSUME NEW b \in Ids PROVE boxes[b].sig \in {0} \cup Installs
  <2>1. boxes[b] \in BoxRecords
    BY DEF TypeOK, TypeBoxes, Ids
  <2> QED
    BY <2>1 DEF BoxRecords
<1> HIDE DEF Room
<1>4. ASSUME NEW k, NEW r \in Room PROVE [ws EXCEPT ![k] = r] \in [Services -> Room]
  BY <1>1
<1>5. ASSUME NEW k, NEW v \in {0} \cup Installs
      PROVE  [ws EXCEPT ![k].installed = v] \in [Services -> Room]
  <2>1. CASE k \in Services
    <3>1. ws[k] \in Room
      BY <1>1, <2>1
    <3>2. [ws[k] EXCEPT !.installed = v] \in Room
      BY <3>1 DEF Room
    <3> QED
      BY <1>4, <3>2
  <2>2. CASE k \notin Services
    BY <1>1, <2>2
  <2> QED
    BY <2>1, <2>2
<1>6. ASSUME NEW n, NEW v \in Nat PROVE [content EXCEPT ![n] = v] \in Seq(Nat)
  <2>1. content \in [1..Len(content) -> Nat] /\ Len(content) \in Nat
    BY <1>1
  <2>2. [content EXCEPT ![n] = v] \in [1..Len(content) -> Nat]
    BY <2>1
  <2> QED
    BY <2>1, <2>2
<1>7. ws' \in [Services -> Room] /\ content' \in Seq(Nat) => TypeDisk'
  BY DEF TypeDisk, Room
<1>8. ASSUME NEW b \in Ids, NEW m, Marked(b, m) PROVE ws' \in [Services -> Room]
  <2> DEFINE k == Key(boxes[b].of)
             v == IF m = "ok" THEN boxes[b].sig ELSE 0
  <2>1. ws' = ws \/ ws' = [ws EXCEPT ![k].installed = v]
    BY <1>8 DEF Marked
  <2>2. v \in {0} \cup Installs
    BY <1>3
  <2>3. [ws EXCEPT ![k].installed = v] \in [Services -> Room]
    BY <1>5, <2>2
  <2> QED
    BY <1>1, <2>1, <2>3
<1> USE DEF diskVars
<1>10. ASSUME NEW b \in Ids, InstallOk(b) PROVE TypeDisk'
  <2>1. boxes[b].sig \in Nat
    BY <1>1, <1>3
  <2>2. content' \in Seq(Nat)
    BY <1>1, <1>6, <1>10, <2>1 DEF InstallOk
  <2> QED
    BY <1>7, <1>8, <1>10, <2>2 DEF InstallOk
<1>11. ASSUME NEW b \in Ids, InstallFailed(b) PROVE TypeDisk'
  BY <1>1, <1>7, <1>8, <1>11 DEF InstallFailed
<1>12. ASSUME NEW b \in Ids, Starts(b) \/ Dies(b) PROVE TypeDisk'
  BY <1>2, <1>12 DEF Starts, Dies
<1>13. ASSUME NEW a \in Actors, Undoing(a) PROVE TypeDisk'
  <2>1. CASE ReleaseWorkspaces(a)
    <3>1. ws' = [s \in Services |-> [vol |-> 0, installed |-> 0]] /\ content' = content
      BY <2>1 DEF ReleaseWorkspaces
    <3> QED
      BY <1>1, <1>7, <3>1 DEF Room
  <2> QED
    BY <1>2, <1>13, <2>1 DEF Undoing, NextService, NextDatabase, CleanedUp, Removed, ReleaseNetwork,
                RemoveNetwork
<1>14. CASE CreateDatabase \/ StartDatabase \/ DatabaseReady \/ Provisioned
  BY <1>2, <1>14 DEF CreateDatabase, StartDatabase, DatabaseReady, Provisioned
<1>15. CASE Fallback \/ Drop \/ Replace \/ Unprovision
  BY <1>2, <1>15 DEF Fallback, Drop, Replace, Unprovision
<1>16. CASE Begin \/ StartService \/ Launched \/ Unrestart
  BY <1>2, <1>16 DEF Begin, StartService, Launched, Unrestart
<1>17. CASE Gate \/ InstallDied \/ Verified \/ \E s \in Started : Readiness(s)
  BY <1>2, <1>17 DEF Gate, InstallDied, Verified, Readiness
<1>18. CASE CleanupOver \/ TornDown \/ Stop
  BY <1>2, <1>18 DEF CleanupOver, TornDown, Stop
<1>19. CASE Workspace
  <2>1. \/ ws' = ws /\ content' = content
        \/ /\ ws' = [ws EXCEPT ![Key(cur)] = [vol |-> Len(content) + 1, installed |-> 0]]
           /\ content' = Append(content, 0)
    BY <1>19 DEF Workspace
  <2>2. [vol |-> Len(content) + 1, installed |-> 0] \in Room /\ Append(content, 0) \in Seq(Nat)
    BY <1>1 DEF Room
  <2>3. [ws EXCEPT ![Key(cur)] = [vol |-> Len(content) + 1, installed |-> 0]] \in [Services -> Room]
    BY <1>4, <2>2
  <2> QED
    BY <1>2, <1>7, <2>1, <2>2, <2>3
<1>20. CASE CreateService
  <2>1. [content EXCEPT ![pend.vol] = 0] \in Seq(Nat)
    BY <1>6
  <2>2. ws' = ws /\ content' \in {content, [content EXCEPT ![pend.vol] = 0]}
    BY <1>20 DEF CreateService
  <2> QED
    BY <1>1, <1>7, <2>1, <2>2
<1>21. ASSUME Launch PROVE TypeDisk'
  BY <1>14, <1>15, <1>16, <1>17, <1>18, <1>19, <1>20, <1>21 DEF Launch
<1> QED
  BY <1>10, <1>11, <1>12, <1>13, <1>18, <1>21 DEF Next, Container

-----------------------------------------------------------------------------
\* Where the launch is, who undoes it, and what is recorded then

Control ==
  /\ undo["launch"] = "idle" <=> pc \notin {"ending", "over"}
  /\ undo["stop"] = "idle" <=> ~stopped
  /\ undo["stop"] # "cleanup"
  /\ \A a \in Actors : ~Walking(a) => busy[a] = 0
  /\ pc = "over" => undo["launch"] = "done"
  /\ pc \in Early => backing = <<>>
  /\ pc \notin Early => prov \in {<<>>, backing}

\* A step of the launch that is not its end.
Calm == /\ UNCHANGED <<undo, at, busy, stopped>>
        /\ pc \notin {"ending", "over"} /\ pc' \notin {"ending", "over"}

\* Every step keeps where the launch and its cleanups may be.
LEMMA ControlKept ==
  ASSUME TypeUndo, Control, Next
  PROVE  Control'
<1> DEFINE Goal == Control'
<1> SUFFICES Goal
  OBVIOUS
<1>1. Actors = {"launch", "stop"}
  BY DEF Actors
\* The actors' part, and the records' part.
<1> DEFINE Undone == /\ undo["launch"]' = "idle" <=> pc' \notin {"ending", "over"}
                     /\ undo["stop"]' = "idle" <=> ~stopped'
                     /\ undo["stop"]' # "cleanup"
                     /\ \A a \in Actors : ~Walking(a)' => busy'[a] = 0
                     /\ pc' = "over" => undo["launch"]' = "done"
           Recorded == /\ pc' \in Early => backing' = <<>>
                       /\ pc' \notin Early => prov' \in {<<>>, backing'}
<1>2. Undone /\ Recorded => Goal
  BY DEF Control
<1>3. Calm => Undone
  BY DEF Calm, Control, Walking
<1>4. Thrown /\ stopped' = stopped => Undone
  <2> SUFFICES ASSUME Thrown, stopped' = stopped PROVE Undone
    OBVIOUS
  <2>1. PICK h \in {"cleanup", "teardown", "volumes"} : Undo("launch", h) /\ pc' = "ending"
    BY DEF Thrown
  <2>2. /\ undo'["launch"] = h /\ undo'["stop"] = undo["stop"]
        /\ busy'["launch"] = 0 /\ busy'["stop"] = busy["stop"]
    BY <1>1, <2>1 DEF Undo, TypeUndo
  <2> QED
    BY <1>1, <2>1, <2>2 DEF Control, Walking
<1>5. UNCHANGED <<prov, backing>> /\ (pc' \in Early <=> pc \in Early) => Recorded
  BY DEF Control
<1>6. ASSUME NEW a \in Actors, undo[a] \in Past, stopped' = stopped, UNCHANGED <<pc, at, busy, prov, backing>>,
             \E h \in Past : undo' = [undo EXCEPT ![a] = h], undo[a] # "done"
      PROVE  Goal
  <2>1. PICK h \in Past : undo' = [undo EXCEPT ![a] = h]
    BY <1>6
  <2>2. undo'[a] = h /\ \A c \in Actors : c # a => undo'[c] = undo[c]
    BY <2>1 DEF TypeUndo
  <2>3. Undone
    BY <1>1, <1>6, <2>2 DEF Control, Walking, Past
  <2> QED
    BY <1>2, <1>5, <1>6, <2>3
<1>7. ASSUME UNCHANGED <<pc, undo, stopped, prov, backing>>,
             \A a \in Actors : busy'[a] = busy[a] \/ Walking(a)
      PROVE  Goal
  <2>1. Undone
    BY <1>1, <1>7 DEF Control, Walking
  <2> QED
    BY <1>2, <1>5, <1>7, <2>1
<1>8. ASSUME NEW b \in Ids, InstallOk(b) \/ InstallFailed(b) \/ Starts(b) \/ Dies(b) PROVE Goal
  <2>1. UNCHANGED <<pc, undo, stopped, prov, backing, busy>>
    BY <1>8 DEF InstallOk, InstallFailed, Starts, Dies, runVars, recVars, undoVars
  <2> QED
    BY <1>7, <2>1
<1>9. ASSUME NEW a \in Actors, NextService(a) \/ NextDatabase(a) \/ Removed(a) PROVE Goal
  <2>1. UNCHANGED <<pc, undo, stopped, prov, backing>> /\ Walking(a)
    BY <1>9 DEF NextService, NextDatabase, Removed, runVars, recVars
  <2>2. busy' = busy \/ \E n : busy' = [busy EXCEPT ![a] = n]
    BY <1>9 DEF NextService, NextDatabase, Removed
  <2>3. \A c \in Actors : busy'[c] = busy[c] \/ c = a
    BY <2>2 DEF TypeUndo
  <2> QED
    BY <1>7, <2>1, <2>3
<1>10. ASSUME NEW a \in Actors, CleanedUp(a) PROVE Goal
  <2>1. /\ UNCHANGED <<pc, stopped, prov, backing>>
        /\ undo'[a] = "volumes" /\ busy'[a] = 0 /\ undo[a] = "teardown"
        /\ \A c \in Actors : c # a => undo'[c] = undo[c] /\ busy'[c] = busy[c]
    BY <1>10 DEF CleanedUp, Undo, TypeUndo, runVars, recVars
  <2>2. Undone
    BY <1>1, <2>1 DEF Control, Walking
  <2> QED
    BY <1>2, <1>5, <2>1, <2>2
<1>11. ASSUME NEW a \in Actors, ReleaseWorkspaces(a) \/ ReleaseNetwork(a) \/ RemoveNetwork(a) PROVE Goal
  <2>1. /\ undo[a] \in Past /\ undo[a] # "done" /\ stopped' = stopped
        /\ UNCHANGED <<pc, at, busy, prov, backing>>
    BY <1>11 DEF ReleaseWorkspaces, ReleaseNetwork, RemoveNetwork, Past, runVars, recVars
  <2>2. \E h \in Past : undo' = [undo EXCEPT ![a] = h]
    BY <1>11 DEF ReleaseWorkspaces, ReleaseNetwork, RemoveNetwork, Past
  <2> QED
    BY <1>6, <2>1, <2>2
<1>12. CASE Stop
  <2>1. /\ UNCHANGED <<pc, prov, backing>> /\ stopped' = TRUE
        /\ undo'["stop"] = "teardown" /\ undo'["launch"] = undo["launch"]
        /\ busy'["stop"] = 0 /\ busy'["launch"] = busy["launch"]
    BY <1>1, <1>12 DEF Stop, Undo, TypeUndo, runVars, recVars
  <2>2. Undone
    BY <1>1, <2>1 DEF Control, Walking
  <2> QED
    BY <1>2, <1>5, <2>1, <2>2
<1>13. CASE CleanupOver
  <2>1. /\ UNCHANGED <<pc, prov, backing, stopped>> /\ undo["launch"] = "cleanup"
        /\ undo'["launch"] \in {"teardown", "volumes"} /\ undo'["stop"] = undo["stop"]
        /\ busy'["launch"] = 0 /\ busy'["stop"] = busy["stop"]
    BY <1>1, <1>13 DEF CleanupOver, ThrowToSession, Undo, TypeUndo, runVars, recVars
  <2>2. Undone
    BY <1>1, <2>1 DEF Control, Walking
  <2> QED
    BY <1>2, <1>5, <2>1, <2>2
<1>14. CASE TornDown
  <2>1. UNCHANGED <<undo, busy, prov, backing, stopped>> /\ pc' = "over" /\ undo["launch"] = "done"
    BY <1>14 DEF TornDown, undoVars, recVars
  <2>2. Undone
    BY <2>1 DEF Control, Walking
  <2>3. pc \notin Early
    BY <2>1 DEF Control, Early
  <2> QED
    BY <1>2, <1>5, <2>1, <2>2, <2>3 DEF Early
\* The rest are the launch's own steps.
<1>15. CASE CreateDatabase \/ StartDatabase \/ DatabaseReady \/ Fallback
  <2>1. Calm /\ pc \in Early /\ pc' \in Early /\ backing' = backing
    BY <1>15 DEF CreateDatabase, StartDatabase, DatabaseReady, Fallback, Goto, Calm, Early, recVars, undoVars
  <2>2. Recorded
    BY <2>1 DEF Control
  <2> QED
    BY <1>2, <1>3, <2>1, <2>2
<1>16. CASE Unprovision
  <2>1. pc \in Early /\ backing' = backing /\ stopped' = stopped
    BY <1>16 DEF Unprovision, Early
  <2>2. CASE prov = <<>>
    <3>1. Thrown /\ prov' = <<>> /\ pc' \notin Early
      BY <1>16, <2>2, Throws DEF Unprovision, Abort, Early
    <3> QED
      BY <1>2, <1>4, <2>1, <3>1
  <2>3. CASE prov # <<>>
    <3>1. Calm /\ pc' \in Early
      BY <1>16, <2>3 DEF Unprovision, Goto, Calm, Early, undoVars
    <3>2. Recorded
      BY <2>1, <3>1 DEF Control
    <3> QED
      BY <1>2, <1>3, <3>1, <3>2
  <2> QED
    BY <2>2, <2>3
<1>17. CASE Provisioned
  <2>1. Calm /\ backing' = prov /\ prov' = prov /\ pc' \notin Early
    BY <1>17 DEF Provisioned, Goto, Calm, Early, undoVars
  <2> QED
    BY <1>2, <1>3, <2>1
<1>18. ASSUME UNCHANGED <<prov, backing, stopped>>, pc \notin Early \cup {"ending", "over"}, Thrown
       PROVE  Goal
  <2>1. pc' = "ending" /\ pc' \notin Early
    BY <1>18 DEF Thrown, Early
  <2> QED
    BY <1>2, <1>4, <1>5, <1>18, <2>1
<1>19. ASSUME UNCHANGED <<prov, backing, stopped>>, UNCHANGED undoVars,
              pc \notin Early \cup {"ending", "over"}, pc' \notin Early \cup {"ending", "over"}
       PROVE  Goal
  BY <1>2, <1>3, <1>5, <1>19 DEF Calm, undoVars
<1> HIDE DEF Goal
<1>20. CASE Begin \/ Workspace \/ CreateService
  <2>1. UNCHANGED <<prov, backing, stopped>> /\ pc \notin Early \cup {"ending", "over"}
    BY <1>20 DEF Begin, Workspace, CreateService, Early, recVars
  <2>2. Thrown \/ (UNCHANGED undoVars /\ pc' \notin Early \cup {"ending", "over"})
    BY <1>20, Throws DEF Begin, Workspace, CreateService, Goto, Early
  <2> QED
    BY <1>18, <1>19, <2>1, <2>2
<1>21. CASE StartService \/ Drop \/ Replace \/ Unrestart \/ Launched
  <2>1. UNCHANGED <<prov, backing, stopped>> /\ pc \notin Early \cup {"ending", "over"}
    BY <1>21 DEF StartService, Drop, Replace, Unrestart, Launched, Early, recVars
  <2>2. Thrown \/ (UNCHANGED undoVars /\ pc' \notin Early \cup {"ending", "over"})
    BY <1>21, Throws DEF StartService, Drop, Replace, Unrestart, Launched, Goto, Early
  <2> QED
    BY <1>18, <1>19, <2>1, <2>2
<1>22. CASE Gate \/ InstallDied \/ Verified
  <2>1. UNCHANGED <<prov, backing, stopped>> /\ pc \notin Early \cup {"ending", "over"}
    BY <1>22 DEF Gate, InstallDied, Verified, Early, recVars
  <2>2. Thrown \/ (UNCHANGED undoVars /\ pc' \notin Early \cup {"ending", "over"})
    BY <1>22, Throws DEF Gate, InstallDied, Verified, Restart, Proceed, Died, Goto, Early
  <2> QED
    BY <1>18, <1>19, <2>1, <2>2
<1>23. ASSUME NEW s \in Started, Readiness(s) PROVE Goal
  <2>1. /\ UNCHANGED <<prov, backing, stopped>> /\ UNCHANGED undoVars
        /\ pc \notin Early \cup {"ending", "over"} /\ pc' = pc
    BY <1>23 DEF Readiness, Early, recVars
  <2> QED
    BY <1>19, <2>1
<1>24. ASSUME Launch PROVE Goal
  BY <1>13, <1>14, <1>15, <1>16, <1>17, <1>20, <1>21, <1>22, <1>23, <1>24 DEF Launch
<1> QED
  BY <1>8, <1>9, <1>10, <1>11, <1>12, <1>24 DEF Next, Container, Undoing

-----------------------------------------------------------------------------
\* Services in their order, and the container at hand

\* Every step keeps the rounds of a cleanup within what there is.
LEMMA RoundsKept ==
  ASSUME TypeOK, Filled, Next
  PROVE  Rounds'
<1> DEFINE Goal == Rounds'
<1> SUFFICES Goal
  OBVIOUS
<1>0. /\ NumServices \in Nat /\ cur \in 1..NumServices + 1 /\ cur \in Nat
      /\ handle \in [Services -> Nat] /\ Rounds /\ AtHand /\ Services \subseteq Nat
  BY BoundsAssumption DEF TypeOK, TypeRun, TypeBoxes, TypeNames, Filled, Services
<1>1. UNCHANGED <<pc, cur, loop, handle>> => Goal
  BY <1>0 DEF Rounds
<1>2. ASSUME UNCHANGED <<cur, loop, handle>>,
             \/ pc' \in {"ending", "over", "serving"}
             \/ pc \in Early /\ pc' \in Early \cup {"provisioned"}
             \/ cur \in Services
                /\ pc' \in {"launch", "create", "start", "launched", "replace", "drop", "unrestart"}
      PROVE  Goal
  BY <1>0, <1>2 DEF Rounds, Early
<1>3. ASSUME UNCHANGED handle, cur \in Services, handle[cur] # 0, loop, loop' = loop,
             pc' = "next", cur' = cur + 1
      PROVE  Goal
  <2>1. \A s \in Services : s < cur' => s < cur \/ s = cur
    BY <1>0, <1>3
  <2>2. \A s \in Services : s >= cur' => s > cur
    BY <1>0, <1>3
  <2>3. \A s \in Services : s > cur' => s > cur
    BY <1>0, <1>3
  <2> QED
    BY <1>0, <1>3, <2>1, <2>2, <2>3 DEF Rounds, Early
<1>4. ASSUME UNCHANGED <<cur, handle>>, loop' = FALSE, pc' = "ready" PROVE Goal
  BY <1>0, <1>4 DEF Rounds, Early
<1>5. ASSUME NEW s \in Services, NEW sig, Restart(s, sig), handle[s] # 0, loop => s = cur, handle' = handle
      PROVE  Goal
  <2>1. cur' = s /\ pc' \in {"launch", "replace"} /\ loop' = loop
    BY <1>5 DEF Restart
  <2>2. \A t \in Services : t < s => handle[t] # 0
    BY <1>0, <1>5 DEF Rounds
  <2> QED
    BY <1>0, <1>5, <2>1, <2>2 DEF Rounds, Early
<1>6. Thrown /\ UNCHANGED handle => Goal
  BY <1>2 DEF Thrown
<1> HIDE DEF Goal
<1> USE DEF runVars, recVars
<1>10. ASSUME Container PROVE Goal
  BY <1>1, <1>10 DEF Container, InstallOk, InstallFailed, Starts, Dies
<1>11. ASSUME NEW a \in Actors, Undoing(a) PROVE Goal
  BY <1>1, <1>11 DEF Undoing, NextService, NextDatabase, Removed, CleanedUp, ReleaseWorkspaces,
                     ReleaseNetwork, RemoveNetwork
<1>12. CASE Stop \/ CleanupOver \/ \E s \in Started : Readiness(s)
  BY <1>1, <1>12 DEF Stop, CleanupOver, Readiness
<1>13. CASE TornDown
  BY <1>2, <1>13 DEF TornDown
<1>14. CASE CreateDatabase \/ StartDatabase \/ DatabaseReady \/ Fallback \/ Provisioned
  <2>1. UNCHANGED <<cur, loop, handle>> /\ pc \in Early /\ pc' \in Early \cup {"provisioned"}
    BY <1>14 DEF CreateDatabase, StartDatabase, DatabaseReady, Fallback, Provisioned, Goto, Early
  <2> QED
    BY <1>2, <2>1
<1>15. CASE Unprovision
  <2>1. handle' = handle /\ (Thrown \/ (UNCHANGED <<cur, loop>> /\ pc \in Early /\ pc' \in Early))
    BY <1>15, Throws DEF Unprovision, Goto, Early
  <2> QED
    BY <1>2, <1>6, <2>1
<1>16. CASE Begin
  <2>1. handle' = handle
    BY <1>16 DEF Begin
  <2>2. CASE stopped
    BY <1>6, <1>16, <2>1, <2>2, Throws DEF Begin
  <2>3. CASE ~stopped /\ cur > NumServices
    BY <1>4, <1>16, <2>1, <2>3 DEF Begin
  <2>4. CASE ~stopped /\ ~(cur > NumServices)
    <3>1. cur \in Services
      BY <1>0, <2>4 DEF Services
    <3>2. UNCHANGED <<cur, loop>> /\ pc' = "launch"
      BY <1>16, <2>4 DEF Begin, Goto
    <3> QED
      BY <1>2, <2>1, <3>1, <3>2
  <2> QED
    BY <2>2, <2>3, <2>4
<1>17. CASE Workspace \/ CreateService \/ StartService \/ Drop \/ Replace \/ Unrestart
  <2>1. cur \in Services /\ handle' = handle
    BY <1>0, <1>17 DEF Workspace, CreateService, StartService, Drop, Replace, Unrestart, Rounds
  <2>2. Thrown \/ (UNCHANGED <<cur, loop>> /\ pc' \in {"launch", "create", "start", "launched", "drop"})
    BY <1>17, Throws DEF Workspace, CreateService, StartService, Drop, Replace, Unrestart, Goto
  <2> QED
    BY <1>2, <1>6, <2>1, <2>2
<1>18. CASE Launched
  <2>1. cur \in Services /\ pend.box # 0 /\ handle' = [handle EXCEPT ![cur] = pend.box]
    BY <1>0, <1>18 DEF Launched, Rounds, AtHand
  <2>2. handle'[cur] # 0 /\ \A t \in Services : t # cur => handle'[t] = handle[t]
    BY <1>0, <2>1
  <2>3. \A s, t \in Services : s < t /\ handle'[t] # 0 => handle'[s] # 0
    <3> SUFFICES ASSUME NEW s \in Services, NEW t \in Services, s < t, handle'[t] # 0, s # cur
                 PROVE  handle[s] # 0
      BY <2>2
    <3>1. CASE t = cur
      BY <1>0, <3>1 DEF Rounds
    <3>2. CASE t # cur
      BY <1>0, <2>2, <3>2 DEF Rounds
    <3> QED
      BY <3>1, <3>2
  <2>4. \A s \in Services : s <= cur => handle'[s] # 0
    BY <1>0, <2>1, <2>2 DEF Rounds
  <2>5. loop => \A t \in Services : t > cur => handle'[t] = 0
    BY <1>0, <2>1, <2>2 DEF Rounds
  <2>6. loop' = loop
    BY <1>18 DEF Launched, Abort, Goto
  <2>7. \/ cur' = cur /\ pc' \in {"ending", "unrestart"}
        \/ cur' = cur /\ ~loop /\ pc' = "ready"
        \/ cur' = cur /\ loop /\ pc' = "gate"
        \/ cur' = cur + 1 /\ loop /\ pc' = "next"
    BY <1>18 DEF Launched, Abort, Goto
  <2>8. CASE cur' = cur
    <3>1. \A s \in Services : s < cur' => s <= cur
      BY <1>0, <2>8
    <3>2. cur # cur + 1
      BY <1>0
    <3> QED
      BY <2>1, <2>3, <2>4, <2>5, <2>6, <2>7, <2>8, <3>1, <3>2 DEF Rounds, Early, Goal
  <2>9. CASE cur' = cur + 1
    <3>1. /\ \A s \in Services : s < cur' => s <= cur
          /\ \A s \in Services : s >= cur' => s > cur
          /\ \A s \in Services : s > cur' => s > cur
          /\ cur + 1 # cur
      BY <1>0, <2>9
    <3> QED
      BY <2>3, <2>4, <2>5, <2>6, <2>7, <2>9, <3>1 DEF Rounds, Early, Goal
  <2> QED
    BY <2>7, <2>8, <2>9
<1>19. CASE Gate
  <2>1. cur \in Services /\ handle[cur] # 0 /\ loop /\ handle' = handle
    BY <1>0, <1>19 DEF Gate, Rounds, AtHand
  <2>2. CASE Proceed
    BY <1>3, <2>1, <2>2 DEF Proceed
  <2>3. CASE Died
    BY <1>0, <2>1, <2>3 DEF Died, Rounds, Early, Goal
  <2> QED
    BY <1>6, <1>19, <2>1, <2>2, <2>3, Throws DEF Gate
<1>20. CASE InstallDied
  <2>1. cur \in Services /\ handle[cur] # 0 /\ loop /\ handle' = handle
    BY <1>0, <1>20 DEF InstallDied, Rounds, AtHand
  <2>2. CASE Proceed
    BY <1>3, <2>1, <2>2 DEF Proceed
  <2>3. CASE Restart(cur, want[cur])
    BY <1>5, <2>1, <2>3
  <2> QED
    BY <1>4, <1>20, <2>1, <2>2, <2>3 DEF InstallDied
<1>21. CASE Verified
  <2>1. ~loop /\ handle' = handle
    BY <1>0, <1>21 DEF Verified, Rounds
  <2>2. ASSUME NEW s \in Started, NEW sig \in Installs, Restart(s, sig) PROVE Goal
    BY <1>5, <2>1, <2>2 DEF Started
  <2>3. CASE Goto("serving")
    BY <1>2, <2>1, <2>3 DEF Goto
  <2> QED
    BY <1>6, <1>21, <2>1, <2>2, <2>3, Throws DEF Verified
<1>22. ASSUME Launch PROVE Goal
  BY <1>12, <1>13, <1>14, <1>15, <1>16, <1>17, <1>18, <1>19, <1>20, <1>21, <1>22 DEF Launch
<1> QED
  BY <1>10, <1>11, <1>12, <1>22 DEF Next

\* While the launch is elsewhere, a cleanup takes up the containers of services and the
\* databases of the run alone.
Taken ==
  /\ cleaned \subseteq cleaned'
  /\ \A b \in cleaned' : b \in cleaned \/ \E s \in Services : b = handle[s]
  /\ \A a \in Actors :
       \/ busy'[a] \in {0, busy[a]}
       \/ \E s \in Services : busy'[a] = handle[s]
       \/ \E i \in 1..Len(backing) : busy'[a] = backing[i]

\* Every step keeps what the launch has at hand.
LEMMA AtHandKept ==
  ASSUME TypeOK, Bounded, Filled, Next
  PROVE  AtHand'
<1> DEFINE Goal == AtHand'
           Busy == {"replace", "unrestart", "gate", "died", "database", "answering", "fallback",
                    "start", "launched", "drop", "launch", "create"}
<1> SUFFICES Goal
  OBVIOUS
<1>0. /\ handle \in [Services -> Nat] /\ Rounds /\ AtHand /\ Len(boxes) \in Nat
      /\ pend \in [vol : Nat, reused : BOOLEAN, box : Nat]
      /\ busy \in [Actors -> Nat] /\ Actors = {"launch", "stop"}
  BY DEF TypeOK, TypeBoxes, TypeNames, TypeUndo, Filled, Actors
<1>1. ASSUME UNCHANGED <<pc, cur, pend, handle, backing>>, Taken PROVE Goal
  BY <1>0, <1>1 DEF AtHand, Taken
<1>2. pc' \notin Busy => Goal
  BY DEF AtHand
<1>3. ASSUME UNCHANGED <<cur, handle, backing, cleaned, busy>>, pend'.box = Len(boxes) + 1,
             \/ pc' = "database"
             \/ pc' = "start" /\ (handle[cur] # 0 => handle[cur] \in cleaned)
      PROVE  Goal
  <2>1. Len(boxes) + 1 \notin Ids /\ Len(boxes) + 1 # 0
    BY <1>0 DEF Ids
  <2>2. /\ \A s \in Services : handle[s] # pend'.box
        /\ \A i \in 1..Len(backing) : backing[i] # pend'.box
        /\ pend'.box \notin cleaned /\ pend'.box # 0
        /\ \A a \in Actors : busy[a] # pend'.box
    BY <1>3, <2>1 DEF Bounded
  <2> QED
    BY <1>3, <2>2 DEF AtHand
<1>4. ASSUME NEW s \in Services, NEW sig, Restart(s, sig), handle[s] # 0, handle' = handle PROVE Goal
  BY <1>4 DEF Restart, AtHand
<1>5. Thrown => Goal
  BY <1>2 DEF Thrown
<1> HIDE DEF Goal
<1> USE DEF runVars, recVars, boxVars, undoVars
<1>10. ASSUME Container PROVE Goal
  <2>1. UNCHANGED <<pc, cur, pend, handle, backing, cleaned, busy>>
    BY <1>10 DEF Container, InstallOk, InstallFailed, Starts, Dies
  <2> QED
    BY <1>1, <2>1 DEF Taken
<1>11. ASSUME NEW a \in Actors, Undoing(a) PROVE Goal
  <2>1. UNCHANGED <<pc, cur, pend, handle, backing>>
    BY <1>11 DEF Undoing, NextService, NextDatabase, Removed, CleanedUp, ReleaseWorkspaces,
                 ReleaseNetwork, RemoveNetwork
  <2>2. CASE NextService(a)
    <3>1. at[a] \in Services
      BY <2>2, BoundsAssumption DEF NextService, TypeOK, TypeUndo, Services
    <3>2. \A c \in Actors : busy'[c] \in {busy[c], handle[at[a]]}
      BY <1>0, <2>2 DEF NextService
    <3>3. Taken
      BY <2>2, <3>1, <3>2 DEF NextService, Taken
    <3> QED
      BY <1>1, <2>1, <3>3
  <2>3. CASE NextDatabase(a)
    <3>1. at[a] \in Nat /\ NumServices \in Nat /\ Len(backing) \in Nat
      BY BoundsAssumption DEF TypeOK, TypeUndo, TypeBoxes, TypeNames
    <3>2. PICK i \in 1..Len(backing) : BackingAt(a) = backing[i]
      BY <2>3, <3>1 DEF NextDatabase, BackingAt
    <3>3. \A c \in Actors : busy'[c] \in {busy[c], BackingAt(a)}
      BY <1>0, <2>3 DEF NextDatabase
    <3>4. cleaned' = cleaned
      BY <2>3 DEF NextDatabase
    <3>5. \A c \in Actors : busy'[c] \in {busy[c], backing[i]}
      BY <3>2, <3>3
    <3>6. Taken
      BY <3>4, <3>5 DEF Taken
    <3> QED
      BY <1>1, <2>1, <3>6
  <2>4. CASE Removed(a) \/ CleanedUp(a) \/ ReleaseWorkspaces(a) \/ ReleaseNetwork(a) \/ RemoveNetwork(a)
    <3>1. cleaned' = cleaned /\ (busy' = busy \/ busy' = [busy EXCEPT ![a] = 0])
      BY <2>4 DEF Removed, CleanedUp, Undo, ReleaseWorkspaces, ReleaseNetwork, RemoveNetwork
    <3>2. \A c \in Actors : busy'[c] \in {0, busy[c]}
      BY <1>0, <3>1
    <3>3. Taken
      BY <3>1, <3>2 DEF Taken
    <3> QED
      BY <1>1, <2>1, <3>3
  <2> QED
    BY <1>11, <2>2, <2>3, <2>4 DEF Undoing
<1>12. CASE Stop \/ CleanupOver \/ \E s \in Started : Readiness(s)
  <2>1. UNCHANGED <<pc, cur, pend, handle, backing, cleaned>>
    BY <1>12 DEF Stop, CleanupOver, Readiness
  <2>2. busy' = busy \/ \E a \in Actors : busy' = [busy EXCEPT ![a] = 0]
    BY <1>0, <1>12 DEF Stop, CleanupOver, ThrowToSession, Undo, Readiness
  <2>3. \A c \in Actors : busy'[c] \in {0, busy[c]}
    BY <1>0, <2>2
  <2> QED
    BY <1>1, <2>1, <2>3 DEF Taken
<1>13. CASE TornDown \/ Fallback \/ Provisioned
  BY <1>2, <1>13 DEF TornDown, Fallback, Provisioned, Goto
<1>14. CASE CreateDatabase
  <2>1. CASE pc' = "unprovision"
    BY <1>2, <2>1
  <2>2. CASE pc' # "unprovision"
    <3>1. /\ UNCHANGED <<cur, handle, backing, cleaned, busy>> /\ pc' = "database"
          /\ pend' = [Nobody EXCEPT !.box = Len(boxes) + 1, !.reused = pend.reused]
      BY <1>14, <2>2 DEF CreateDatabase, Goto
    <3>2. pend'.box = Len(boxes) + 1
      BY <3>1 DEF Nobody
    <3> QED
      BY <1>3, <3>1, <3>2
  <2> QED
    BY <2>1, <2>2
<1>15. CASE StartDatabase
  <2>1. UNCHANGED <<cur, pend, handle, backing, cleaned, busy>> /\ pc' \in {"answering", "unprovision"}
    BY <1>15 DEF StartDatabase, Goto
  <2> QED
    BY <1>0, <1>2, <1>15, <2>1 DEF StartDatabase, AtHand, Goal
<1>16. CASE DatabaseReady
  <2>1. CASE pc' = "databases"
    BY <1>2, <2>1
  <2>2. CASE pc' # "databases"
    <3>1. UNCHANGED <<cur, pend, handle, backing, cleaned, busy>> /\ pc' = "fallback" /\ pc = "answering"
      BY <1>16, <2>2 DEF DatabaseReady
    <3> QED
      BY <1>0, <3>1 DEF AtHand, Goal
  <2> QED
    BY <2>1, <2>2
<1>17. CASE Unprovision
  BY <1>2, <1>5, <1>17, Throws DEF Unprovision, Goto
<1>18. CASE Begin
  <2>1. CASE pc' # "launch"
    BY <1>2, <1>5, <1>18, <2>1, Throws DEF Begin, Goto
  <2>2. CASE pc' = "launch"
    <3>1. UNCHANGED <<cur, handle, cleaned>> /\ pc \in {"provisioned", "next"} /\ ~(cur > NumServices)
      BY <1>18, <2>2 DEF Begin, Goto, Abort
    <3>2. cur \in Services
      BY <3>1, BoundsAssumption DEF TypeOK, TypeRun, Services
    <3>3. handle[cur] = 0
      BY <1>0, <3>1, <3>2 DEF Rounds, Services
    <3> QED
      BY <2>2, <3>1, <3>3 DEF AtHand, Goal
  <2> QED
    BY <2>1, <2>2
<1>19. CASE Workspace
  <2>1. UNCHANGED <<cur, handle, cleaned>> /\ pc = "launch" /\ pc' = "create"
    BY <1>19 DEF Workspace
  <2> QED
    BY <1>0, <2>1 DEF AtHand, Goal
<1>20. CASE CreateService
  <2>1. CASE Throw
    BY <1>5, <2>1, Throws
  <2>2. CASE ~Throw
    <3>1. /\ UNCHANGED <<cur, handle, backing, cleaned, busy>> /\ pc = "create" /\ pc' = "start"
          /\ pend' = [pend EXCEPT !.box = Len(boxes) + 1]
      BY <1>20, <2>2 DEF CreateService
    <3>2. pend'.box = Len(boxes) + 1
      BY <1>0, <3>1
    <3> QED
      BY <1>0, <1>3, <3>1, <3>2 DEF AtHand
  <2> QED
    BY <2>1, <2>2
<1>21. CASE StartService
  <2>1. /\ UNCHANGED <<cur, pend, handle, backing, busy>> /\ pc = "start"
        /\ \/ pc' = "launched" /\ cleaned' = cleaned
           \/ pc' = "drop" /\ cleaned' = cleaned \cup {pend.box}
    BY <1>21 DEF StartService, Goto
  <2> QED
    BY <1>0, <2>1 DEF AtHand, Goal
<1>22. CASE Drop
  BY <1>5, <1>22, Throws DEF Drop
<1>23. CASE Launched
  <2>1. pc = "launched" /\ cur \in Services /\ handle' = [handle EXCEPT ![cur] = pend.box] /\ pend.box # 0
    BY <1>0, <1>23 DEF Launched, Rounds, AtHand
  <2>2. handle'[cur] = pend.box
    BY <1>0, <2>1
  <2>3. CASE pc' \in {"unrestart", "gate"}
    <3>1. cur' = cur /\ (pc' = "unrestart" => pend' = pend)
      BY <1>23, <2>3 DEF Launched, Goto, Abort
    <3> QED
      BY <2>1, <2>2, <2>3, <3>1 DEF AtHand, Goal
  <2>4. CASE pc' \notin {"unrestart", "gate"}
    BY <1>2, <1>5, <1>23, <2>4, Throws DEF Launched, Goto
  <2> QED
    BY <2>3, <2>4
<1>24. CASE Replace
  <2>1. UNCHANGED <<cur, handle, cleaned>> /\ pc = "replace" /\ pc' = "launch"
    BY <1>24 DEF Replace, Goto
  <2> QED
    BY <1>0, <2>1 DEF AtHand, Goal
<1>25. CASE Unrestart
  <2>1. CASE Throw
    BY <1>5, <2>1, Throws
  <2>2. CASE ~Throw
    <3>1. pend' = pend /\ cleaned' = cleaned \cup {pend.box} /\ pc = "unrestart" /\ pc' = "drop"
      BY <1>25, <2>2 DEF Unrestart, Goto
    <3> QED
      BY <1>0, <3>1 DEF AtHand, Goal
  <2> QED
    BY <2>1, <2>2
<1>26. CASE Gate
  <2>1. CASE Died
    BY <1>0, <1>26, <2>1 DEF Gate, Died, AtHand, Goal
  <2> QED
    BY <1>2, <1>5, <1>26, <2>1, Throws DEF Gate, Proceed
<1>27. CASE InstallDied
  <2>1. handle' = handle /\ cur \in Services /\ handle[cur] # 0
    BY <1>0, <1>27 DEF InstallDied, Rounds, AtHand
  <2> QED
    BY <1>2, <1>4, <1>27, <2>1 DEF InstallDied, Proceed
<1>28. CASE Verified
  <2>1. ASSUME NEW s \in Started, NEW sig \in Installs, Restart(s, sig) PROVE Goal
    BY <1>4, <1>28, <2>1 DEF Verified, Started
  <2> QED
    BY <1>2, <1>5, <1>28, <2>1, Throws DEF Verified, Goto
<1>29. ASSUME Launch PROVE Goal
  BY <1>12, <1>13, <1>14, <1>15, <1>16, <1>17, <1>18, <1>19, <1>20, <1>21, <1>22, <1>23, <1>24,
     <1>25, <1>26, <1>27, <1>28, <1>29 DEF Launch
<1> QED
  BY <1>10, <1>11, <1>12, <1>29 DEF Next

-----------------------------------------------------------------------------
\* No container is forgotten

\* What a cleanup has taken up is off, or somebody is at it.
CleanedOff ==
  \A b \in cleaned :
    \/ Off(b)
    \/ \E a \in Actors : busy[a] = b
    \/ pc = "replace" /\ b = handle[cur]
    \/ pc = "drop" /\ b = pend.box

\* Every container that was started is in some record, or at hand.
Recorded(b) ==
  \/ \E s \in Services : handle[s] = b
  \/ pc \in {"answering", "fallback", "launched"} /\ pend.box = b
  \/ \E i \in 1..Len(prov) : prov[i] = b
  \/ \E i \in 1..Len(backing) : backing[i] = b

Known(b) == Off(b) \/ boxes[b].state = "created" \/ b \in cleaned \/ Recorded(b)

Accounted == \A b \in Ids : Known(b)

\* What is stopped and removed is off, or Docker refused.
LEMMA TurnedOff ==
  ASSUME TypeOK, NEW b \in Ids, StopAndRemove(b)
  PROVE  Off(b)'
<1>1. CASE SetBox(b, "gone")
  <2>1. boxes \in Seq(BoxRecords) /\ "gone" \in States /\ Sets(b, "gone")
    BY <1>1 DEF TypeOK, TypeBoxes, States, SetBox, Sets
  <2> QED
    BY <2>1, SetOne DEF Off
<1> QED
  BY <1>1 DEF StopAndRemove, Off

\* A step in which the launch does not start a container leaves what is off as it is.
LEMMA StaysOff ==
  ASSUME TypeOK, Bounded, Filled, Next, NEW b \in Ids, Off(b), ~Starting(b)
  PROVE  Off(b)'
BY BoxStep

\* Every step keeps off what has been cleaned.
LEMMA CleanedOffKept ==
  ASSUME TypeOK, Bounded, Filled, Control, CleanedOff, Next
  PROVE  CleanedOff'
<1> DEFINE Goal == CleanedOff'
<1> SUFFICES Goal
  OBVIOUS
<1>0. /\ cleaned \subseteq Ids /\ Rounds /\ AtHand /\ busy \in [Actors -> Nat]
      /\ Actors = {"launch", "stop"} /\ 0 \notin Ids
  BY DEF Bounded, Filled, TypeOK, TypeUndo, Actors, Ids
\* Off stays off: the launch starts none that a cleanup has taken up.
<1>1. \A b \in cleaned : Off(b) => Off(b)'
  <2>1. \A b \in cleaned : ~Starting(b)
    BY <1>0 DEF Starting, AtHand
  <2> QED
    BY <1>0, <2>1, StaysOff
<1>2. ASSUME UNCHANGED <<cur, pend, handle, cleaned>>, pc' = pc, busy' = busy PROVE Goal
  BY <1>0, <1>1, <1>2 DEF CleanedOff
<1>3. ASSUME UNCHANGED cleaned, busy' = busy, pc \notin {"replace", "drop"} PROVE Goal
  BY <1>0, <1>1, <1>3 DEF CleanedOff
<1>4. ASSUME NEW a \in Actors, busy' = [busy EXCEPT ![a] = 0], busy[a] = 0 PROVE busy' = busy
  BY <1>0, <1>4
\* The launch gives up in no middle of a removal.
<1>5. ASSUME Thrown, pc \notin {"ending", "over"}, cleaned' = cleaned,
             \A b \in Ids : (pc = "replace" /\ b = handle[cur]) \/ (pc = "drop" /\ b = pend.box) =>
               Off(b)'
      PROVE  Goal
  <2>1. busy["launch"] = 0
    BY <1>0, <1>5 DEF Control, Walking
  <2>2. busy' = busy
    BY <1>0, <1>4, <1>5, <2>1 DEF Thrown, Undo
  <2> QED
    BY <1>0, <1>1, <1>5, <2>2 DEF CleanedOff
<1>7. ASSUME cleaned' = cleaned, busy' = busy,
             \A b \in Ids : (pc = "replace" /\ b = handle[cur]) \/ (pc = "drop" /\ b = pend.box) =>
               Off(b)'
      PROVE  Goal
  BY <1>0, <1>1, <1>7 DEF CleanedOff
<1>6. ASSUME NEW s \in Services, NEW sig, Restart(s, sig), handle' = handle, pc \notin {"replace", "drop"}
      PROVE  Goal
  BY <1>0, <1>1, <1>6 DEF Restart, CleanedOff, undoVars
<1> HIDE DEF Goal
<1> USE DEF runVars, recVars, boxVars, undoVars
<1>10. ASSUME Container PROVE Goal
  <2>1. UNCHANGED <<pc, cur, pend, handle, cleaned, busy>>
    BY <1>10 DEF Container, InstallOk, InstallFailed, Starts, Dies
  <2> QED
    BY <1>2, <2>1
<1>11. ASSUME NEW a \in Actors, NextService(a) PROVE Goal
  <2>1. UNCHANGED <<pc, cur, pend, handle>> /\ busy[a] = 0
    BY <1>11 DEF NextService
  <2>2. CASE cleaned' = cleaned /\ busy' = busy
    BY <1>2, <2>1, <2>2
  <2>3. CASE cleaned' = cleaned \cup {handle[at[a]]} /\ busy' = [busy EXCEPT ![a] = handle[at[a]]]
    <3>1. busy'[a] = handle[at[a]] /\ \A c \in Actors : c # a => busy'[c] = busy[c]
      BY <1>0, <2>3
    <3> QED
      BY <1>0, <1>1, <2>1, <2>3, <3>1 DEF CleanedOff, Goal
  <2> QED
    BY <1>11, <2>2, <2>3 DEF NextService
<1>12. ASSUME NEW a \in Actors, NextDatabase(a) PROVE Goal
  <2>1. UNCHANGED <<pc, cur, pend, handle, cleaned>> /\ busy[a] = 0
    BY <1>12 DEF NextDatabase
  <2>2. \A c \in Actors : c # a => busy'[c] = busy[c]
    BY <1>0, <1>12 DEF NextDatabase
  <2> QED
    BY <1>0, <1>1, <2>1, <2>2 DEF CleanedOff, Goal
<1>13. ASSUME NEW a \in Actors, Removed(a) PROVE Goal
  <2>1. UNCHANGED <<pc, cur, pend, handle, cleaned>> /\ busy[a] \in Ids /\ StopAndRemove(busy[a])
    BY <1>13 DEF Removed, Bounded
  <2>2. \A c \in Actors : c # a => busy'[c] = busy[c]
    BY <1>0, <1>13 DEF Removed
  <2>3. \A b \in Ids : b = busy[a] => Off(b)'
    BY <2>1, TurnedOff
  <2> QED
    BY <1>0, <1>1, <2>1, <2>2, <2>3 DEF CleanedOff, Goal
<1>14. ASSUME NEW a \in Actors, CleanedUp(a) \/ ReleaseWorkspaces(a) \/ ReleaseNetwork(a) \/ RemoveNetwork(a)
       PROVE  Goal
  <2>1. UNCHANGED <<pc, cur, pend, handle, cleaned>> /\ busy' = busy
    BY <1>4, <1>14 DEF CleanedUp, WalkOver, Undo, ReleaseWorkspaces, ReleaseNetwork, RemoveNetwork
  <2> QED
    BY <1>2, <2>1

<1>15. CASE Stop
  <2>1. UNCHANGED <<pc, cur, pend, handle, cleaned>> /\ busy["stop"] = 0
    BY <1>0, <1>15 DEF Stop, Control, Walking
  <2>2. busy' = busy
    BY <1>0, <1>4, <1>15, <2>1 DEF Stop, Undo
  <2> QED
    BY <1>2, <2>1, <2>2
<1>16. CASE CleanupOver \/ TornDown
  <2>1. busy' = busy /\ cleaned' = cleaned
    BY <1>0, <1>4, <1>16 DEF CleanupOver, WalkOver, ThrowToSession, Undo, TornDown
  <2>2. pc \notin {"replace", "drop"}
    BY <1>16 DEF CleanupOver, TornDown, Control
  <2> QED
    BY <1>3, <2>1, <2>2
<1>17. CASE CreateDatabase \/ StartDatabase \/ DatabaseReady \/ Fallback \/ Provisioned
  <2>1. cleaned' = cleaned /\ busy' = busy /\ pc \notin {"replace", "drop"}
    BY <1>17 DEF CreateDatabase, StartDatabase, DatabaseReady, Fallback, Provisioned, Goto
  <2> QED
    BY <1>3, <2>1
<1>18. CASE Unprovision
  <2>1. cleaned' = cleaned /\ pc \notin {"replace", "drop", "ending", "over"} /\ (Thrown \/ busy' = busy)
    BY <1>18, Throws DEF Unprovision, Goto
  <2> QED
    BY <1>3, <1>5, <2>1
<1>19. CASE Begin \/ Workspace \/ CreateService \/ Launched \/ Gate
  <2>1. cleaned' = cleaned /\ pc \notin {"replace", "drop", "ending", "over"}
    BY <1>19 DEF Begin, Workspace, CreateService, Launched, Gate
  <2>2. Thrown \/ busy' = busy
    BY <1>19, Throws DEF Begin, Workspace, CreateService, Launched, Gate, Goto, Proceed, Died
  <2> QED
    BY <1>3, <1>5, <2>1, <2>2
<1>20. CASE StartService
  <2>1. /\ pc = "start" /\ busy' = busy /\ pend' = pend
        /\ \/ cleaned' = cleaned
           \/ cleaned' = cleaned \cup {pend.box} /\ pc' = "drop"
    BY <1>20 DEF StartService, Goto
  <2>2. CASE cleaned' = cleaned
    BY <1>3, <2>1, <2>2
  <2>3. CASE cleaned' = cleaned \cup {pend.box} /\ pc' = "drop"
    BY <1>0, <1>1, <2>1, <2>3 DEF CleanedOff, Goal
  <2> QED
    BY <2>1, <2>2, <2>3
<1>21. CASE Drop
  <2>1. pc = "drop" /\ StopAndRemove(pend.box) /\ Thrown /\ cleaned' = cleaned
    BY <1>21, Throws DEF Drop
  <2>2. \A b \in Ids : b = pend.box => Off(b)'
    BY <2>1, TurnedOff
  <2> QED
    BY <1>5, <2>1, <2>2
<1>22. CASE Replace
  <2>1. pc = "replace" /\ StopAndRemove(handle[cur]) /\ cleaned' = cleaned /\ busy' = busy
    BY <1>22 DEF Replace, Goto
  <2>2. \A b \in Ids : b = handle[cur] => Off(b)'
    BY <2>1, TurnedOff
  <2> QED
    BY <1>7, <2>1, <2>2
<1>23. CASE Unrestart
  <2>1. CASE Throw /\ cleaned' = cleaned
    BY <1>5, <1>23, <2>1, Throws DEF Unrestart
  <2>2. CASE Goto("drop") /\ cleaned' = cleaned \cup {pend.box}
    BY <1>0, <1>1, <1>23, <2>2 DEF Unrestart, Goto, CleanedOff, Goal
  <2> QED
    BY <1>23, <2>1, <2>2 DEF Unrestart
<1>24. CASE InstallDied
  <2>1. pc = "died" /\ handle' = handle /\ cur \in Services
    BY <1>0, <1>24 DEF InstallDied, Rounds
  <2>2. CASE Restart(cur, want[cur])
    BY <1>6, <2>1, <2>2
  <2>3. CASE ~Restart(cur, want[cur])
    <3>1. busy' = busy /\ cleaned' = cleaned
      BY <1>24, <2>3 DEF InstallDied, Proceed
    <3> QED
      BY <1>3, <2>1, <3>1
  <2> QED
    BY <2>2, <2>3
<1>25. CASE Verified
  <2>1. pc = "ready" /\ handle' = handle
    BY <1>25 DEF Verified
  <2>2. ASSUME NEW s \in Started, NEW sig \in Installs, Restart(s, sig) PROVE Goal
    BY <1>6, <2>1, <2>2 DEF Started
  <2>3. CASE cleaned' = cleaned /\ Fail
    BY <1>5, <2>1, <2>3, Throws
  <2>4. CASE cleaned' = cleaned /\ Goto("serving")
    BY <1>3, <2>1, <2>4 DEF Goto
  <2> QED
    BY <1>25, <2>2, <2>3, <2>4 DEF Verified
<1>26. ASSUME NEW s \in Started, Readiness(s) PROVE Goal
  BY <1>3, <1>26 DEF Readiness
<1>27. ASSUME Launch PROVE Goal
  BY <1>16, <1>17, <1>18, <1>19, <1>20, <1>21, <1>22, <1>23, <1>24, <1>25, <1>26, <1>27 DEF Launch
<1> QED
  BY <1>10, <1>11, <1>12, <1>13, <1>14, <1>15, <1>27 DEF Next, Undoing

\* The last of a sequence is off it, the others stay.
LEMMA FrontLast ==
  ASSUME NEW s \in Seq(Nat), s # <<>>, NEW i \in 1..Len(s), s[i] # Last(s)
  PROVE  \E j \in 1..Len(Front(s)) : Front(s)[j] = s[i]
<1> DEFINE n == Len(s)
<1>1. n \in Nat /\ n # 0 /\ i # n /\ i \in 1..n
  BY DEF Last
<1>2. \A j \in 1..n - 1 : s[j] \in Nat
  BY <1>1
<1>3. /\ Len(SubSeq(s, 1, n - 1)) = IF 1 <= n - 1 THEN n - 1 - 1 + 1 ELSE 0
      /\ \A j \in 1..n - 1 - 1 + 1 : SubSeq(s, 1, n - 1)[j] = s[1 + j - 1]
  BY <1>1, <1>2, SubSeqProperties
<1>4. Front(s) = SubSeq(s, 1, n - 1)
  BY DEF Front
<1> HIDE DEF n
<1>5. i \in 1..n - 1 - 1 + 1 /\ 1 + i - 1 = i /\ Len(Front(s)) = n - 1 /\ i \in 1..n - 1
  BY <1>1, <1>3, <1>4
<1>6. SubSeq(s, 1, n - 1)[i] = s[1 + i - 1]
  BY <1>3, <1>5
<1> QED
  BY <1>4, <1>5, <1>6

\* Every step keeps every started container in a record.
LEMMA AccountedKept ==
  ASSUME TypeOK, Bounded, Filled, Control, Accounted, Next
  PROVE  Accounted'
<1> DEFINE Goal == Accounted'
           Kept == \A b \in Ids : Recorded(b) => Known(b)'
<1> SUFFICES Goal
  OBVIOUS
<1>0. /\ handle \in [Services -> Nat] /\ prov \in Seq(Nat) /\ backing \in Seq(Nat) /\ Rounds /\ AtHand
      /\ boxes \in Seq(BoxRecords)
  BY DEF TypeOK, TypeBoxes, TypeNames, Filled
\* It is enough to follow the records, and the container the launch starts.
<1>1. ASSUME cleaned \subseteq cleaned', Kept, \A b \in Ids : Starting(b) => Known(b)' PROVE Goal
  <2>1. ASSUME NEW b \in Ids', b \notin Ids PROVE Known(b)'
    BY <2>1, BoxStep DEF Known
  <2>2. ASSUME NEW b \in Ids, ~Starting(b), ~Recorded(b) PROVE Known(b)'
    <3>1. Off(b) \/ boxes[b].state = "created" \/ b \in cleaned
      BY <2>2 DEF Accounted, Known
    <3>2. Off(b) => Off(b)'
      BY <2>2, StaysOff
    <3>3. boxes[b].state = "created" => boxes'[b].state \in {"gone", "created"}
      BY <2>2, BoxStep
    <3> QED
      BY <1>1, <3>1, <3>2, <3>3 DEF Known, Off
  <2> QED
    BY <1>1, <2>1, <2>2 DEF Accounted
<1>2. ASSUME cleaned \subseteq cleaned', Kept, pc' = pc \/ pc \notin {"database", "answering", "start"}
      PROVE  Goal
  BY <1>1, <1>2 DEF Starting
<1>3. UNCHANGED <<handle, prov, backing, pend>> /\ pc' = pc => Kept
  BY DEF Recorded, Known
<1>4. UNCHANGED <<handle, prov, backing>> /\ pc \notin {"answering", "fallback", "launched"} => Kept
  BY DEF Recorded, Known
<1> HIDE DEF Goal, Kept
<1> USE DEF runVars, recVars, boxVars
<1>10. ASSUME Container PROVE Goal
  BY <1>2, <1>3, <1>10 DEF Container, InstallOk, InstallFailed, Starts, Dies
<1>11. ASSUME NEW a \in Actors, Undoing(a) PROVE Goal
  <2>1. UNCHANGED <<pc, pend, handle, prov, backing>>
    BY <1>11 DEF Undoing, NextService, NextDatabase, Removed, CleanedUp, ReleaseWorkspaces,
                 ReleaseNetwork, RemoveNetwork
  <2>2. cleaned \subseteq cleaned'
    BY <1>11 DEF Undoing, NextService, NextDatabase, Removed, CleanedUp, ReleaseWorkspaces,
                 ReleaseNetwork, RemoveNetwork
  <2> QED
    BY <1>2, <1>3, <2>1, <2>2
<1>12. CASE Stop \/ CleanupOver \/ \E s \in Started : Readiness(s)
  BY <1>2, <1>3, <1>12 DEF Stop, CleanupOver, Readiness
<1>13. CASE TornDown
  <2>1. pc \notin {"database", "answering", "start", "fallback", "launched"}
    BY <1>13 DEF TornDown, Control
  <2> QED
    BY <1>2, <1>4, <1>13, <2>1 DEF TornDown
<1>14. CASE CreateDatabase
  BY <1>2, <1>4, <1>14 DEF CreateDatabase
<1>15. CASE StartDatabase
  <2>1. UNCHANGED <<handle, prov, backing, cleaned, refused, pend>> /\ pc = "database"
    BY <1>15 DEF StartDatabase, Goto
  <2>2. \/ pc' = "answering"
        \/ boxes' = boxes
    BY <1>15 DEF StartDatabase, Goto
  <2>3. \A b \in Ids : Starting(b) => Known(b)'
    BY <2>1, <2>2 DEF Starting, Accounted, Known, Off, Recorded
  <2> QED
    BY <1>1, <1>4, <2>1, <2>3
<1>16. CASE DatabaseReady
  <2>1. UNCHANGED <<handle, backing, cleaned>> /\ pc = "answering"
    BY <1>16 DEF DatabaseReady
  <2>2. CASE prov' = Append(prov, pend.box)
    <3>1. /\ \A i \in 1..Len(prov) : i \in 1..Len(prov') /\ prov'[i] = prov[i]
          /\ Len(prov') \in 1..Len(prov') /\ prov'[Len(prov')] = pend.box
      BY <1>0, <2>2
    <3>2. \A b \in Ids : Recorded(b) \/ b = pend.box => Recorded(b)'
      BY <2>1, <3>1 DEF Recorded
    <3> QED
      BY <1>1, <2>1, <3>2 DEF Kept, Known, Starting
  <2>3. CASE UNCHANGED <<prov, pend>> /\ pc' = "fallback"
    <3>1. \A b \in Ids : Recorded(b) \/ b = pend.box => Recorded(b)'
      BY <2>1, <2>3 DEF Recorded
    <3> QED
      BY <1>1, <2>1, <3>1 DEF Kept, Known, Starting
  <2> QED
    BY <1>16, <2>2, <2>3 DEF DatabaseReady
<1>17. CASE Fallback
  <2>1. UNCHANGED <<handle, prov, backing, cleaned>> /\ pc = "fallback" /\ StopAndRemove(pend.box)
    BY <1>17 DEF Fallback
  <2>2. \A b \in Ids : b = pend.box => Off(b)'
    BY <2>1, TurnedOff
  <2>3. Kept
    BY <2>1, <2>2 DEF Kept, Recorded, Known
  <2> QED
    BY <1>2, <2>1, <2>3
<1>18. CASE Unprovision
  <2>1. UNCHANGED <<handle, backing, cleaned>> /\ pc = "unprovision"
    BY <1>18 DEF Unprovision
  <2>2. CASE prov = <<>>
    BY <1>2, <1>4, <1>18, <2>1, <2>2 DEF Unprovision
  <2>3. CASE prov # <<>>
    <3>1. StopAndRemove(Last(prov)) /\ prov' = Front(prov)
      BY <1>18, <2>3 DEF Unprovision
    <3>2. \A b \in Ids : b = Last(prov) => Off(b)'
      BY <3>1, TurnedOff
    <3>3. ASSUME NEW i \in 1..Len(prov), prov[i] # Last(prov)
          PROVE  \E j \in 1..Len(prov') : prov'[j] = prov[i]
      BY <1>0, <2>3, <3>1, <3>3, FrontLast
    <3>4. Kept
      BY <2>1, <3>2, <3>3 DEF Kept, Recorded, Known
    <3> QED
      BY <1>2, <2>1, <3>4
  <2> QED
    BY <2>2, <2>3
<1>19. CASE Provisioned
  <2>1. /\ UNCHANGED <<handle, prov, cleaned, pend>> /\ pc = "databases" /\ backing' = prov
    BY <1>19 DEF Provisioned, Goto
  <2>2. backing = <<>>
    BY <2>1 DEF Control, Early
  <2>3. 1..Len(backing) = {}
    BY <2>2
  <2>4. Kept
    BY <2>1, <2>3 DEF Kept, Recorded, Known
  <2> QED
    BY <1>2, <2>1, <2>4
<1>20. CASE Begin \/ Workspace \/ CreateService \/ Drop \/ Replace
  <2>1. /\ UNCHANGED <<handle, prov, backing, cleaned>>
        /\ pc \notin {"database", "answering", "fallback", "start", "launched"}
    BY <1>20 DEF Begin, Workspace, CreateService, Drop, Replace
  <2> QED
    BY <1>2, <1>4, <2>1
<1>21. CASE StartService
  <2>1. UNCHANGED <<handle, prov, backing, pend>> /\ pc = "start" /\ cleaned \subseteq cleaned'
    BY <1>21 DEF StartService, Goto
  <2>2. pc' = "launched" \/ pend.box \in cleaned'
    BY <1>21 DEF StartService, Goto
  <2>3. \A b \in Ids : Starting(b) => Known(b)'
    BY <2>1, <2>2 DEF Starting, Known, Recorded
  <2> QED
    BY <1>1, <1>4, <2>1, <2>3
<1>22. CASE Launched
  <2>1. /\ pc = "launched" /\ handle' = [handle EXCEPT ![cur] = pend.box]
        /\ UNCHANGED <<prov, backing, cleaned>> /\ cur \in Services
    BY <1>0, <1>22 DEF Launched, Rounds
  <2>2. handle'[cur] = pend.box /\ \A s \in Services : s # cur => handle'[s] = handle[s]
    BY <1>0, <2>1
  <2>3. handle[cur] # 0 => handle[cur] \in cleaned
    BY <1>0, <2>1 DEF AtHand
  <2>4. 0 \notin Ids
    BY DEF Ids
  <2>5. ASSUME NEW b \in Ids, NEW s \in Services, handle[s] = b PROVE Known(b)'
    <3>1. CASE s = cur
      BY <2>1, <2>3, <2>4, <2>5, <3>1 DEF Known
    <3>2. CASE s # cur
      BY <2>2, <2>5, <3>2 DEF Known, Recorded
    <3> QED
      BY <3>1, <3>2
  <2>6. Kept
    BY <2>1, <2>2, <2>5 DEF Kept, Recorded, Known
  <2> QED
    BY <1>2, <2>1, <2>6
<1>23. CASE Unrestart
  BY <1>2, <1>4, <1>23 DEF Unrestart
<1>24. CASE Gate \/ InstallDied \/ Verified
  <2>1. UNCHANGED <<handle, prov, backing>> /\ cleaned \subseteq cleaned'
    BY <1>24 DEF Gate, InstallDied, Verified, Restart
  <2>2. pc \notin {"database", "answering", "fallback", "start", "launched"}
    BY <1>24 DEF Gate, InstallDied, Verified
  <2> QED
    BY <1>2, <1>4, <2>1, <2>2
<1>25. ASSUME Launch PROVE Goal
  BY <1>12, <1>13, <1>14, <1>15, <1>16, <1>17, <1>18, <1>19, <1>20, <1>21, <1>22, <1>23, <1>24,
     <1>25 DEF Launch
<1> QED
  BY <1>10, <1>11, <1>12, <1>25 DEF Next

-----------------------------------------------------------------------------
\* What a cleanup has passed

Passed(a, s) ==
  \/ undo[a] \in Past
  \/ Walking(a) /\ (at[a] > s \/ (at[a] = s /\ busy[a] # 0))

PassedDb(a, i) ==
  \/ undo[a] \in Past
  \/ Walking(a) /\ at[a] > NumServices + i

\* A service that a cleanup has passed has been taken up, a database is off.  What a stop
\* has passed may come back, while the launch itself will see to it yet.
ServicesPassed ==
  \A s \in Services : handle[s] # 0 =>
    /\ Passed("launch", s) => handle[s] \in cleaned
    /\ Passed("stop", s) => handle[s] \in cleaned \/ (pc = "unrestart" /\ cur = s) \/ Walking("launch")

DatabasesPassed ==
  \A i \in 1..Len(backing) :
    /\ PassedDb("launch", i) => Off(backing[i])
    /\ PassedDb("stop", i) => Off(backing[i]) \/ pc = "provisioned" \/ Walking("launch")

AtDatabase == \A a \in Actors : busy[a] # 0 /\ at[a] > NumServices => busy[a] = BackingAt(a)

Walks == ServicesPassed /\ DatabasesPassed /\ AtDatabase

\* Every step keeps what a cleanup has walked past.
LEMMA WalksKept ==
  ASSUME TypeOK, Bounded, Filled, Control, Walks, Next
  PROVE  Walks'
<1> DEFINE Goal == Walks'
<1> SUFFICES Goal
  OBVIOUS
<1>0. /\ NumServices \in Nat \ {0} /\ Services = 1..NumServices /\ Services \subseteq Nat \ {0}
      /\ handle \in [Services -> Nat] /\ backing \in Seq(Nat) /\ Len(backing) \in Nat
      /\ busy \in [Actors -> Nat] /\ at \in [Actors -> Nat \ {0}]
      /\ undo \in [Actors -> {"idle", "cleanup", "teardown"} \cup Past]
      /\ Actors = {"launch", "stop"} /\ Rounds /\ AtHand
  BY BoundsAssumption DEF TypeOK, TypeBoxes, TypeNames, TypeUndo, Filled, Actors, Services
<1>1. \A i \in 1..Len(backing) : backing[i] \in Ids /\ backing[i] # 0
  BY DEF Bounded, Ids
<1>2. backing' = backing => \A i \in 1..Len(backing) : Off(backing[i]) => Off(backing[i])'
  <2> SUFFICES ASSUME backing' = backing, NEW i \in 1..Len(backing), Off(backing[i])
               PROVE  Off(backing[i])'
    OBVIOUS
  <2>1. ~Starting(backing[i])
    BY <1>0 DEF Starting, AtHand
  <2>2. ASSUME NEW b \in Ids, b = backing[i] PROVE boxes'[b].state = "gone" \/ b \in refused'
    <3>1. Off(b) /\ ~Starting(b)
      BY <2>1, <2>2 DEF Off, Starting
    <3> QED
      BY <3>1, StaysOff DEF Off
  <2> QED
    BY <1>1, <2>2 DEF Off
\* What the actors pass in a step must be clean.
<1>3. ASSUME UNCHANGED <<handle, backing>>, cleaned \subseteq cleaned', Walking("launch") => Walking("launch")',
             (pc' = pc /\ cur' = cur) \/ pc \notin {"unrestart", "provisioned"},
             \A a \in Actors, s \in Services : handle[s] # 0 /\ Passed(a, s)' =>
               Passed(a, s) \/ handle[s] \in cleaned',
             \A a \in Actors, i \in 1..Len(backing) : PassedDb(a, i)' =>
               PassedDb(a, i) \/ Off(backing[i])',
             AtDatabase'
      PROVE  Goal
  <2>1. ServicesPassed'
    BY <1>0, <1>3 DEF Walks, ServicesPassed
  <2>2. DatabasesPassed'
    BY <1>0, <1>2, <1>3 DEF Walks, DatabasesPassed
  <2> QED
    BY <1>3, <2>1, <2>2 DEF Walks
<1>4. ASSUME UNCHANGED <<handle, backing, undo, at, busy>>, cleaned \subseteq cleaned',
             (pc' = pc /\ cur' = cur) \/ pc \notin {"unrestart", "provisioned"}
      PROVE  Goal
  <2>1. \A a \in Actors, s \in Services : Passed(a, s)' = Passed(a, s)
    BY <1>4 DEF Passed, Walking
  <2>2. \A a \in Actors, i \in 1..Len(backing) : PassedDb(a, i)' = PassedDb(a, i)
    BY <1>4 DEF PassedDb, Walking
  <2>3. AtDatabase'
    BY <1>4 DEF Walks, AtDatabase, BackingAt
  <2>4. Walking("launch")' = Walking("launch")
    BY <1>4 DEF Walking
  <2> QED
    BY <1>3, <1>4, <2>1, <2>2, <2>3, <2>4
\* Nobody has begun.
<1>5. ASSUME \A a \in Actors : undo'[a] = "idle" /\ busy'[a] = 0 PROVE Goal
  <2>1. \A a \in Actors : undo'[a] \notin Past /\ ~Walking(a)'
    BY <1>5 DEF Walking, Past
  <2> QED
    BY <1>0, <1>5, <2>1 DEF Walks, ServicesPassed, DatabasesPassed, AtDatabase, Passed, PassedDb
<1>6. ASSUME ~stopped, pc \notin {"ending", "over"}, UNCHANGED <<undo, at, busy>> PROVE Goal
  <2>1. \A a \in Actors : undo'[a] = "idle" /\ busy'[a] = 0
    BY <1>0, <1>6 DEF Control, Walking
  <2> QED
    BY <1>5, <2>1
\* The launch begins its cleanup.
<1>7. ASSUME NEW h \in {"cleanup", "teardown"}, Undo("launch", h), backing' = backing PROVE Goal
  <2>1. /\ undo'["launch"] = h /\ at'["launch"] = 1 /\ busy'["launch"] = 0
        /\ undo'["stop"] = undo["stop"] /\ at'["stop"] = at["stop"] /\ busy'["stop"] = busy["stop"]
    BY <1>0, <1>7 DEF Undo
  <2>2. Walking("launch")'
    BY <2>1 DEF Walking
  <2>3. \A s \in Services : ~Passed("launch", s)'
    BY <1>0, <2>1 DEF Passed, Past
  <2>4. \A i \in 1..Len(backing) : ~PassedDb("launch", i)'
    BY <1>0, <2>1 DEF PassedDb, Past
  <2>5. AtDatabase'
    BY <1>0, <1>7, <2>1 DEF Walks, AtDatabase, BackingAt
  <2> QED
    BY <1>7, <2>2, <2>3, <2>4, <2>5 DEF Walks, ServicesPassed, DatabasesPassed
\* Everything is clean.
<1>8. ASSUME UNCHANGED <<handle, backing>>, AtDatabase',
             \A s \in Services : handle[s] # 0 => handle[s] \in cleaned',
             \A i \in 1..Len(backing) : Off(backing[i])
      PROVE  Goal
  BY <1>2, <1>8 DEF Walks, ServicesPassed, DatabasesPassed
\* The launch gives up.
<1>9. ASSUME Thrown, UNCHANGED <<handle, backing>>, cleaned \subseteq cleaned',
             pc \notin {"ending", "over", "provisioned"},
             pc = "unrestart" => handle[cur] \in cleaned
      PROVE  Goal
  <2>1. PICK h \in {"cleanup", "teardown", "volumes"} :
          Undo("launch", h) /\ (h = "volumes" => undo["stop"] \notin {"idle", "teardown"})
    BY <1>9 DEF Thrown
  <2>2. CASE h = "volumes"
    <3>1. undo["stop"] \in Past /\ undo["launch"] = "idle" /\ ~Walking("launch")
      BY <1>0, <1>9, <2>1, <2>2 DEF Control, Walking
    <3>2. \A s \in Services : handle[s] # 0 => handle[s] \in cleaned'
      BY <1>9, <3>1 DEF Walks, ServicesPassed, Passed
    <3>3. \A i \in 1..Len(backing) : Off(backing[i])
      BY <1>9, <3>1 DEF Walks, DatabasesPassed, PassedDb
    <3>4. /\ busy'["launch"] = 0 /\ at'["stop"] = at["stop"] /\ busy'["stop"] = busy["stop"]
      BY <1>0, <2>1 DEF Undo
    <3>5. AtDatabase'
      BY <1>0, <1>9, <3>4 DEF Walks, AtDatabase, BackingAt
    <3> QED
      BY <1>8, <1>9, <3>2, <3>3, <3>5
  <2>3. CASE h # "volumes"
    BY <1>7, <1>9, <2>1, <2>3
  <2> QED
    BY <2>2, <2>3
<1>10. ASSUME Abort, backing' = backing PROVE Goal
  BY <1>7, <1>10 DEF Abort
<1> HIDE DEF Goal
<1> USE DEF runVars, recVars, boxVars, undoVars
<1>20. ASSUME Container PROVE Goal
  BY <1>4, <1>20 DEF Container, InstallOk, InstallFailed, Starts, Dies

<1>21. ASSUME NEW a \in Actors, NextService(a) PROVE Goal
  <2>1. /\ UNCHANGED <<pc, cur, handle, backing, undo>> /\ cleaned \subseteq cleaned'
        /\ Walking(a) /\ busy[a] = 0 /\ at[a] <= NumServices
    BY <1>21 DEF NextService
  <2>2. at[a] \in Services /\ at[a] \in Nat
    BY <1>0, <2>1
  <2>3. \A c \in Actors : c # a => at'[c] = at[c] /\ busy'[c] = busy[c]
    BY <1>0, <1>21 DEF NextService
  <2>4. \/ at'[a] = NumServices + 1 /\ busy'[a] = 0 /\ handle[at[a]] = 0
        \/ at'[a] = at[a] + 1 /\ busy'[a] = 0 /\ handle[at[a]] \in cleaned'
        \/ at'[a] = at[a] /\ handle[at[a]] \in cleaned'
    BY <1>0, <1>21, <2>1 DEF NextService
  <2>5. ASSUME NEW s \in Services, handle[s] # 0, Passed(a, s)' PROVE Passed(a, s) \/ handle[s] \in cleaned'
    <3>1. undo'[a] \notin Past /\ (at'[a] > s \/ (at'[a] = s /\ busy'[a] # 0))
      BY <2>1, <2>5 DEF Passed, Walking, Past
    <3>2. CASE at[a] > s
      BY <2>1, <3>2 DEF Passed
    <3>3. CASE at[a] = s
      BY <2>4, <2>5, <3>3
    <3>4. CASE at[a] < s
      <4>1. handle[at[a]] # 0
        BY <1>0, <2>2, <2>5, <3>4 DEF Rounds
      <4>2. at'[a] \in {at[a], at[a] + 1} /\ (at'[a] = at[a] + 1 => busy'[a] = 0)
        BY <2>2, <2>4, <4>1
      <4>3. s \in Nat
        BY <1>0
      <4>4. ~(at[a] > s) /\ ~(at[a] + 1 > s)
        BY <2>2, <3>4, <4>3
      <4>5. at[a] # s
        BY <2>2, <3>4, <4>3
      <4> QED
        BY <3>1, <4>2, <4>4, <4>5
    <3> QED
      BY <1>0, <2>2, <3>2, <3>3, <3>4
  <2>6. \A c \in Actors, s \in Services : handle[s] # 0 /\ Passed(c, s)' =>
          Passed(c, s) \/ handle[s] \in cleaned'
    <3>1. \A c \in Actors, s \in Services : c # a => Passed(c, s)' = Passed(c, s)
      BY <2>1, <2>3 DEF Passed, Walking
    <3> QED
      BY <2>5, <3>1
  <2>7. \A c \in Actors, i \in 1..Len(backing) : PassedDb(c, i)' => PassedDb(c, i)
    <3>1. undo'[a] \notin Past /\ \A i \in 1..Len(backing) : ~(at'[a] > NumServices + i)
      BY <1>0, <2>1, <2>2, <2>4 DEF Walking, Past
    <3> QED
      BY <2>1, <2>3, <3>1 DEF PassedDb, Walking
  <2>8. AtDatabase'
    <3>1. busy'[a] # 0 => ~(at'[a] > NumServices)
      BY <1>0, <2>1, <2>2, <2>4
    <3> QED
      BY <2>1, <2>3, <3>1 DEF Walks, AtDatabase, BackingAt
  <2>9. Walking("launch")' = Walking("launch")
    BY <2>1 DEF Walking
  <2> QED
    BY <1>3, <2>1, <2>6, <2>7, <2>8, <2>9
<1>22. ASSUME NEW a \in Actors, NextDatabase(a) PROVE Goal
  <2>1. /\ UNCHANGED <<pc, cur, handle, backing, undo, at, cleaned>> /\ BackingAt(a) # 0
        /\ busy' = [busy EXCEPT ![a] = BackingAt(a)] /\ busy[a] = 0
    BY <1>22 DEF NextDatabase
  <2>2. at[a] > NumServices
    BY <2>1 DEF BackingAt
  <2>3. busy'[a] = BackingAt(a) /\ \A c \in Actors : c # a => busy'[c] = busy[c]
    BY <1>0, <2>1
  <2>4. \A c \in Actors, s \in Services : Passed(c, s)' => Passed(c, s)
    <3>1. \A s \in Services : at[a] > s
      BY <1>0, <2>2
    <3> QED
      BY <2>1, <2>3, <3>1 DEF Passed, Walking
  <2>5. \A c \in Actors, i \in 1..Len(backing) : PassedDb(c, i)' = PassedDb(c, i)
    BY <2>1 DEF PassedDb, Walking
  <2>6. AtDatabase'
    BY <2>1, <2>3 DEF Walks, AtDatabase, BackingAt
  <2>7. Walking("launch")' = Walking("launch")
    BY <2>1 DEF Walking
  <2> QED
    BY <1>3, <2>1, <2>4, <2>5, <2>6, <2>7
<1>23. ASSUME NEW a \in Actors, Removed(a) PROVE Goal
  <2>1. /\ UNCHANGED <<pc, cur, handle, backing, undo, cleaned>> /\ Walking(a)
        /\ busy[a] # 0 /\ StopAndRemove(busy[a])
        /\ busy' = [busy EXCEPT ![a] = 0] /\ at' = [at EXCEPT ![a] = @ + 1]
    BY <1>23 DEF Removed
  <2>2. /\ busy'[a] = 0 /\ at'[a] = at[a] + 1 /\ at[a] \in Nat
        /\ \A c \in Actors : c # a => busy'[c] = busy[c] /\ at'[c] = at[c]
    BY <1>0, <2>1
  <2>3. \A c \in Actors, s \in Services : Passed(c, s)' => Passed(c, s)
    <3>1. ASSUME NEW s \in Services, at'[a] > s PROVE at[a] > s \/ at[a] = s
      BY <1>0, <2>2, <3>1
    <3>2. \A s \in Services : Passed(a, s)' => Passed(a, s)
      BY <2>1, <2>2, <3>1 DEF Passed, Walking
    <3> QED
      BY <2>1, <2>2, <3>2 DEF Passed, Walking
  <2>4. \A b \in Ids : b = busy[a] => boxes'[b].state = "gone" \/ b \in refused'
    BY <2>1, TurnedOff DEF Off
  <2>5. ASSUME NEW i \in 1..Len(backing), PassedDb(a, i)' PROVE PassedDb(a, i) \/ Off(backing[i])'
    <3>1. CASE at[a] > NumServices + i
      BY <2>1, <3>1 DEF PassedDb
    <3>2. CASE ~(at[a] > NumServices + i)
      <4>1. at'[a] > NumServices + i
        BY <2>1, <2>5 DEF PassedDb, Walking, Past
      <4>2. at[a] = NumServices + i
        <5>1. NumServices \in Nat /\ i \in Nat
          BY <1>0
        <5> QED
          BY <2>2, <3>2, <4>1, <5>1
      <4>3. at[a] > NumServices /\ at[a] - NumServices = i /\ i <= Len(backing)
        BY <1>0, <4>2
      <4>4. busy[a] = backing[i]
        BY <2>1, <4>3 DEF Walks, AtDatabase, BackingAt
      <4> QED
        BY <1>1, <2>1, <2>4, <4>4 DEF Off
    <3> QED
      BY <3>1, <3>2
  <2>6. \A c \in Actors, i \in 1..Len(backing) : PassedDb(c, i)' => PassedDb(c, i) \/ Off(backing[i])'
    <3>1. \A c \in Actors, i \in 1..Len(backing) : c # a => PassedDb(c, i)' = PassedDb(c, i)
      BY <2>1, <2>2 DEF PassedDb, Walking
    <3> QED
      BY <2>5, <3>1
  <2>7. AtDatabase'
    BY <2>1, <2>2 DEF Walks, AtDatabase, BackingAt
  <2>8. Walking("launch")' = Walking("launch")
    BY <2>1 DEF Walking
  <2> QED
    BY <1>3, <2>1, <2>3, <2>6, <2>7, <2>8
\* A cleanup that is over has passed everything.
<1>24. ASSUME NEW a \in Actors, Walking(a), WalkOver(a)
       PROVE  /\ \A s \in Services : Passed(a, s)
              /\ \A i \in 1..Len(backing) : PassedDb(a, i)
  <2>1. at[a] > NumServices /\ at[a] \in Nat /\ BackingAt(a) = 0
    BY <1>0, <1>24 DEF WalkOver
  <2>2. ASSUME NEW i \in 1..Len(backing) PROVE at[a] > NumServices + i
    <3>1. CASE at[a] - NumServices <= Len(backing)
      <4>1. at[a] - NumServices \in 1..Len(backing)
        BY <1>0, <2>1, <3>1
      <4> QED
        BY <1>1, <2>1, <3>1, <4>1 DEF BackingAt
    <3>2. CASE ~(at[a] - NumServices <= Len(backing))
      BY <1>0, <2>1, <3>2
    <3> QED
      BY <3>1, <3>2
  <2>3. \A s \in Services : at[a] > s
    BY <1>0, <2>1
  <2> QED
    BY <1>24, <2>2, <2>3 DEF Passed, PassedDb
<1>25. ASSUME Walking("launch"), WalkOver("launch"), UNCHANGED <<handle, backing, cleaned>>, AtDatabase'
       PROVE  Goal
  <2>1. "launch" \in Actors
    BY <1>0
  <2>2. \A s \in Services : handle[s] # 0 => handle[s] \in cleaned
    BY <1>24, <1>25, <2>1 DEF Walks, ServicesPassed
  <2>3. \A i \in 1..Len(backing) : Off(backing[i])
    BY <1>24, <1>25, <2>1 DEF Walks, DatabasesPassed
  <2> QED
    BY <1>8, <1>25, <2>2, <2>3
<1>26. ASSUME NEW a \in Actors, NEW h, Undo(a, h), UNCHANGED backing PROVE AtDatabase'
  <2>1. busy'[a] = 0 /\ \A c \in Actors : c # a => busy'[c] = busy[c] /\ at'[c] = at[c]
    BY <1>0, <1>26 DEF Undo
  <2> QED
    BY <1>26, <2>1 DEF Walks, AtDatabase, BackingAt
<1>27. ASSUME NEW a \in Actors, CleanedUp(a) PROVE Goal
  <2>1. /\ UNCHANGED <<pc, cur, handle, backing, cleaned>> /\ undo[a] = "teardown" /\ WalkOver(a)
        /\ Undo(a, "volumes") /\ Walking(a)
    BY <1>27 DEF CleanedUp, Walking
  <2>2. AtDatabase'
    BY <1>26, <2>1
  <2>3. CASE a = "launch"
    BY <1>25, <2>1, <2>2, <2>3
  <2>4. CASE a = "stop"
    <3>1. undo'["launch"] = undo["launch"] /\ at'["launch"] = at["launch"] /\ busy'["launch"] = busy["launch"]
      BY <1>0, <2>1, <2>4 DEF Undo
    <3>2. Walking("launch")' = Walking("launch")
      BY <3>1 DEF Walking
    <3>3. \A c \in Actors, s \in Services : Passed(c, s)' => Passed(c, s)
      BY <1>0, <1>24, <2>1, <2>4, <3>1, <3>2 DEF Passed
    <3>4. \A c \in Actors, i \in 1..Len(backing) : PassedDb(c, i)' => PassedDb(c, i)
      BY <1>0, <1>24, <2>1, <2>4, <3>1, <3>2 DEF PassedDb
    <3> QED
      BY <1>3, <2>1, <2>2, <3>2, <3>3, <3>4
  <2> QED
    BY <1>0, <2>3, <2>4
<1>28. ASSUME NEW a \in Actors, ReleaseWorkspaces(a) \/ ReleaseNetwork(a) \/ RemoveNetwork(a) PROVE Goal
  <2>1. UNCHANGED <<pc, cur, handle, backing, cleaned, at, busy>> /\ undo[a] \in Past
    BY <1>28 DEF ReleaseWorkspaces, ReleaseNetwork, RemoveNetwork, Past
  <2>2. \A c \in Actors : c # a => undo'[c] = undo[c]
    BY <1>0, <1>28 DEF ReleaseWorkspaces, ReleaseNetwork, RemoveNetwork
  <2>3. Walking("launch") => Walking("launch")'
    BY <1>0, <2>1, <2>2 DEF Walking, Past
  <2>4. \A c \in Actors, s \in Services : Passed(c, s)' => Passed(c, s)
    BY <2>1, <2>2 DEF Passed, Walking
  <2>5. \A c \in Actors, i \in 1..Len(backing) : PassedDb(c, i)' => PassedDb(c, i)
    BY <2>1, <2>2 DEF PassedDb, Walking
  <2>6. AtDatabase'
    BY <2>1 DEF Walks, AtDatabase, BackingAt
  <2> QED
    BY <1>3, <2>1, <2>3, <2>4, <2>5, <2>6
<1>29. CASE Stop
  <2>1. UNCHANGED <<pc, cur, handle, backing, cleaned>> /\ Undo("stop", "teardown")
    BY <1>29 DEF Stop
  <2>2. /\ undo'["stop"] = "teardown" /\ at'["stop"] = 1 /\ busy'["stop"] = 0
        /\ undo'["launch"] = undo["launch"] /\ at'["launch"] = at["launch"]
        /\ busy'["launch"] = busy["launch"]
    BY <1>0, <2>1 DEF Undo
  <2>3. AtDatabase'
    BY <1>0, <1>26, <2>1
  <2>4. Walking("launch")' = Walking("launch")
    BY <2>2 DEF Walking
  <2>5. \A c \in Actors, s \in Services : Passed(c, s)' => Passed(c, s)
    <3>1. \A s \in Services : ~Passed("stop", s)'
      BY <1>0, <2>2 DEF Passed, Past
    <3> QED
      BY <1>0, <2>2, <2>4, <3>1 DEF Passed
  <2>6. \A c \in Actors, i \in 1..Len(backing) : PassedDb(c, i)' => PassedDb(c, i)
    <3>1. \A i \in 1..Len(backing) : ~PassedDb("stop", i)'
      BY <1>0, <2>2 DEF PassedDb, Past
    <3> QED
      BY <1>0, <2>2, <2>4, <3>1 DEF PassedDb
  <2> QED
    BY <1>3, <2>1, <2>3, <2>4, <2>5, <2>6
<1>30. CASE CleanupOver
  <2>1. UNCHANGED <<handle, backing, cleaned>> /\ Walking("launch") /\ WalkOver("launch") /\ ThrowToSession
    BY <1>30 DEF CleanupOver, Walking
  <2>2. AtDatabase'
    BY <1>0, <1>26, <2>1 DEF ThrowToSession
  <2> QED
    BY <1>25, <2>1, <2>2
<1>31. CASE TornDown
  <2>1. UNCHANGED <<handle, backing, undo, at, busy, cleaned>> /\ pc \notin {"unrestart", "provisioned"}
    BY <1>31 DEF TornDown, Control
  <2> QED
    BY <1>4, <2>1
<1>32. CASE CreateDatabase \/ StartDatabase \/ DatabaseReady \/ Fallback
  <2>1. UNCHANGED <<handle, backing, undo, at, busy, cleaned>> /\ pc \notin {"unrestart", "provisioned"}
    BY <1>32 DEF CreateDatabase, StartDatabase, DatabaseReady, Fallback, Goto
  <2> QED
    BY <1>4, <2>1
<1>33. CASE Unprovision
  <2>1. CASE prov = <<>>
    BY <1>10, <1>33, <2>1 DEF Unprovision
  <2>2. CASE prov # <<>>
    BY <1>4, <1>33, <2>2 DEF Unprovision, Goto
  <2> QED
    BY <2>1, <2>2
<1>34. CASE Provisioned
  <2>1. /\ UNCHANGED <<handle, undo, at, busy, cleaned>> /\ backing' = prov /\ pc = "databases"
        /\ pc' = "provisioned"
    BY <1>34 DEF Provisioned, Goto
  <2>2. backing = <<>> /\ undo["launch"] = "idle"
    BY <2>1 DEF Control, Early
  <2>3. \A a \in Actors : ~(busy[a] # 0 /\ at[a] > NumServices)
    <3>1. Len(backing) = 0
      BY <2>2
    <3>2. ASSUME NEW a \in Actors, at[a] > NumServices PROVE BackingAt(a) = 0
      <4>1. ~(at[a] - NumServices <= 0)
        BY <1>0, <3>2
      <4> QED
        BY <3>1, <4>1 DEF BackingAt
    <3> QED
      BY <3>2 DEF Walks, AtDatabase
  <2>4. AtDatabase'
    BY <2>1, <2>3 DEF AtDatabase
  <2>5. \A i : ~PassedDb("launch", i)'
    BY <2>1, <2>2 DEF PassedDb, Walking, Past
  <2>6. \A a \in Actors, s \in Services : Passed(a, s)' = Passed(a, s)
    BY <2>1 DEF Passed, Walking
  <2>7. ServicesPassed'
    BY <1>0, <2>1, <2>6 DEF Walks, ServicesPassed, Walking
  <2> QED
    BY <2>1, <2>4, <2>5, <2>7 DEF Walks, DatabasesPassed, Goal
<1>35. CASE Begin
  <2>1. CASE stopped
    BY <1>10, <1>35, <2>1 DEF Begin
  <2>2. CASE ~stopped
    BY <1>6, <1>35, <2>2 DEF Begin, Goto
  <2> QED
    BY <2>1, <2>2
<1>36. CASE Workspace \/ CreateService \/ StartService \/ Drop \/ Replace
  <2>1. /\ UNCHANGED <<handle, backing>> /\ cleaned \subseteq cleaned'
        /\ pc \notin {"ending", "over", "provisioned", "unrestart"}
    BY <1>36 DEF Workspace, CreateService, StartService, Drop, Replace
  <2>2. Thrown \/ UNCHANGED <<undo, at, busy>>
    BY <1>36, Throws DEF Workspace, CreateService, StartService, Drop, Replace, Goto
  <2> QED
    BY <1>4, <1>9, <2>1, <2>2
<1>37. CASE Gate \/ InstallDied \/ Verified
  <2>1. /\ UNCHANGED <<handle, backing>> /\ cleaned \subseteq cleaned'
        /\ pc \notin {"ending", "over", "provisioned", "unrestart"}
    BY <1>37 DEF Gate, InstallDied, Verified, Restart
  <2>2. Thrown \/ UNCHANGED <<undo, at, busy>>
    BY <1>37, Throws DEF Gate, InstallDied, Verified, Restart, Proceed, Died, Goto
  <2> QED
    BY <1>4, <1>9, <2>1, <2>2
<1>38. CASE Launched
  <2>1. /\ pc = "launched" /\ handle' = [handle EXCEPT ![cur] = pend.box]
        /\ UNCHANGED <<backing, cleaned, stopped>> /\ cur \in Services
    BY <1>0, <1>38 DEF Launched, Rounds
  <2>2. CASE ~stopped
    BY <1>6, <1>38, <2>1, <2>2 DEF Launched
  <2>3. CASE stopped /\ handle[cur] = 0
    BY <1>10, <1>38, <2>1, <2>3 DEF Launched
  <2>4. CASE stopped /\ handle[cur] # 0
    <3>1. UNCHANGED <<cur, undo, at, busy>> /\ pc' = "unrestart"
      BY <1>38, <2>4 DEF Launched, Goto
    <3>2. \A s \in Services : s # cur => handle'[s] = handle[s]
      BY <1>0, <2>1
    <3>3. undo["launch"] = "idle"
      BY <2>1 DEF Control
    <3>4. \A s : ~Passed("launch", s)'
      BY <3>1, <3>3 DEF Passed, Walking, Past
    <3>5. \A s \in Services : Passed("stop", s)' = Passed("stop", s)
      BY <3>1 DEF Passed, Walking
    <3>6. Walking("launch")' = Walking("launch")
      BY <3>1 DEF Walking
    <3>7. ServicesPassed'
      BY <2>1, <3>1, <3>2, <3>4, <3>5, <3>6 DEF Walks, ServicesPassed
    <3>8. \A a \in Actors, i \in 1..Len(backing) : PassedDb(a, i)' = PassedDb(a, i)
      BY <3>1 DEF PassedDb, Walking
    <3>9. DatabasesPassed'
      BY <1>0, <1>2, <2>1, <3>6, <3>8 DEF Walks, DatabasesPassed
    <3>10. AtDatabase'
      BY <2>1, <3>1 DEF Walks, AtDatabase, BackingAt
    <3> QED
      BY <3>7, <3>9, <3>10 DEF Walks, Goal
  <2> QED
    BY <2>2, <2>3, <2>4
<1>39. CASE Unrestart
  <2>1. /\ UNCHANGED <<handle, backing>> /\ pc = "unrestart" /\ handle[cur] = pend.box /\ cur \in Services
    BY <1>0, <1>39 DEF Unrestart, AtHand, Rounds
  <2>2. CASE pend.box \in cleaned
    BY <1>9, <1>39, <2>1, <2>2, Throws DEF Unrestart
  <2>3. CASE pend.box \notin cleaned
    <3>1. UNCHANGED <<undo, at, busy>> /\ cleaned' = cleaned \cup {pend.box} /\ pc' = "drop" /\ cur' = cur
      BY <1>39, <2>3 DEF Unrestart, Goto
    <3>2. \A a \in Actors, s \in Services : Passed(a, s)' = Passed(a, s)
      BY <3>1 DEF Passed, Walking
    <3>3. \A a \in Actors, i \in 1..Len(backing) : PassedDb(a, i)' = PassedDb(a, i)
      BY <3>1 DEF PassedDb, Walking
    <3>4. Walking("launch")' = Walking("launch")
      BY <3>1 DEF Walking
    <3>5. ServicesPassed'
      BY <1>0, <2>1, <3>1, <3>2, <3>4 DEF Walks, ServicesPassed
    <3>6. DatabasesPassed'
      BY <1>0, <1>2, <2>1, <3>1, <3>3, <3>4 DEF Walks, DatabasesPassed
    <3>7. AtDatabase'
      BY <2>1, <3>1 DEF Walks, AtDatabase, BackingAt
    <3> QED
      BY <3>5, <3>6, <3>7 DEF Walks, Goal
  <2> QED
    BY <2>2, <2>3
<1>40. ASSUME NEW s \in Started, Readiness(s) PROVE Goal
  BY <1>4, <1>40 DEF Readiness
<1>41. ASSUME Launch PROVE Goal
  BY <1>30, <1>31, <1>32, <1>33, <1>34, <1>35, <1>36, <1>37, <1>38, <1>39, <1>40, <1>41 DEF Launch
<1> QED
  BY <1>20, <1>21, <1>22, <1>23, <1>27, <1>28, <1>29, <1>41 DEF Next, Undoing

-----------------------------------------------------------------------------
IInv == /\ TypeOK /\ Bounded /\ Filled /\ Control
        /\ CleanedOff /\ Accounted /\ Walks

\* The invariant holds at first.
LEMMA IInvInit == Init => IInv
<1> SUFFICES ASSUME Init PROVE IInv
  OBVIOUS
<1> USE BoundsAssumption DEF Init
<1>1. TypeRun
  <2>1. cur \in 1..NumServices + 1 /\ pc \in Phases
    BY DEF Phases, Early
  <2>2. outcome \in [Services -> {"none", "ready", "failed"}] /\ want \in [Services -> Installs]
    BY DEF Installs
  <2> QED
    BY <2>1, <2>2 DEF TypeRun
<1>2. TypeUndo
  BY DEF TypeUndo
<1>3. TypeBoxes /\ TypeDisk
  BY DEF TypeBoxes, TypeNames, TypeDisk, Nobody, Installs
<1>4. Len(prov) = 0 /\ Len(backing) = 0 /\ Len(boxes) = 0
  OBVIOUS
<1>5. Bounded
  BY <1>4 DEF Bounded, Nobody
<1>6. Rounds /\ AtHand
  BY DEF Rounds, AtHand, Early, Services
<1>7. Control
  BY DEF Control, Early, Actors, Walking
<1>8. CleanedOff /\ Accounted
  BY <1>4 DEF CleanedOff, Accounted, Ids
<1>9. Walks
  BY <1>4 DEF Walks, ServicesPassed, DatabasesPassed, AtDatabase
<1> QED
  BY <1>1, <1>2, <1>3, <1>5, <1>6, <1>7, <1>8, <1>9 DEF IInv, TypeOK, Filled

\* Every step keeps the invariant.
LEMMA IInvNext == IInv /\ [Next]_vars => IInv'
<1> SUFFICES ASSUME IInv, [Next]_vars PROVE IInv'
  OBVIOUS
<1> USE DEF IInv
<1>1. CASE Next
  <2>1. TypeRun' /\ TypeUndo' /\ TypeDisk'
    BY <1>1, RunTyped, UndoTyped, DiskTyped DEF TypeOK
  <2>2. TypeBoxes' /\ Bounded'
    BY <1>1, BoxStep, NamesTyped DEF TypeBoxes
  <2>3. Rounds' /\ AtHand' /\ Control'
    BY <1>1, RoundsKept, AtHandKept, ControlKept DEF TypeOK
  <2>4. CleanedOff' /\ Accounted' /\ Walks'
    BY <1>1, CleanedOffKept, AccountedKept, WalksKept
  <2> QED
    BY <2>1, <2>2, <2>3, <2>4 DEF TypeOK, Filled
<1>2. CASE UNCHANGED vars
  <2> USE <1>2 DEF vars, runVars, boxVars, recVars, diskVars, undoVars
  <2>1. TypeOK'
    BY DEF TypeOK, TypeRun, TypeUndo, TypeBoxes, TypeNames, TypeDisk
  <2>2. Bounded' /\ Rounds' /\ AtHand'
    BY DEF Bounded, Filled, Rounds, AtHand, Ids
  <2>3. Control'
    BY DEF Control, Walking
  <2>4. CleanedOff'
    BY DEF CleanedOff, Off
  <2>5. Accounted'
    BY DEF Accounted, Known, Off, Recorded, Ids
  <2>6. Walks'
    BY DEF Walks, ServicesPassed, DatabasesPassed, AtDatabase, Passed, PassedDb, Walking, BackingAt, Off
  <2> QED
    BY <2>1, <2>2, <2>3, <2>4, <2>5, <2>6 DEF Filled
<1> QED
  BY <1>1, <1>2

\* The types of the launch's variables: what every step of it, and of what undoes it, keeps.
THEOREM TypeCorrect == Spec => []TypeOK
<1>1. Init => IInv
  BY IInvInit
<1>2. IInv /\ [Next]_vars => IInv'
  BY IInvNext
<1>3. IInv => TypeOK
  BY DEF IInv
<1> QED
  BY <1>1, <1>2, <1>3, PTL DEF Spec

\* When a launch that failed or was stopped has been undone, no container of it runs, for
\* any number of services and databases, and whatever was being started, restarted or
\* removed when the stop came: a cleanup that has passed a service has taken it up, what
\* has been taken up is off or at hand, and every started container is in a record.
THEOREM NoneKeepsRunning == Spec => []NothingKeepsRunning
<1>1. Init => IInv
  BY IInvInit
<1>2. IInv /\ [Next]_vars => IInv'
  BY IInvNext
<1>3. ASSUME IInv PROVE NothingKeepsRunning
  <2> SUFFICES ASSUME LaunchOver, NEW b \in Ids
               PROVE  boxes[b].state \in {"gone", "created"} \/ b \in refused
    BY DEF NothingKeepsRunning
  <2>1. pc = "over" /\ undo["launch"] = "done" /\ (stopped => undo["stop"] = "done")
    BY <1>3 DEF IInv, Control, LaunchOver
  <2>2. /\ \A s \in Services : Passed("launch", s)
        /\ \A i \in 1..Len(backing) : PassedDb("launch", i)
    BY <2>1 DEF Passed, PassedDb, Past
  <2>3. \A s \in Services : handle[s] # 0 => handle[s] \in cleaned
    BY <1>3, <2>2 DEF IInv, Walks, ServicesPassed
  <2>4. \A i \in 1..Len(backing) : Off(backing[i])
    BY <1>3, <2>2 DEF IInv, Walks, DatabasesPassed
  <2>5. \A a \in Actors : busy[a] = 0
    BY <1>3, <2>1 DEF IInv, Control, Walking, Actors
  <2>6. prov \in {<<>>, backing}
    BY <1>3, <2>1 DEF IInv, Control, Early
  <2>7. \A i \in 1..Len(prov) : Off(prov[i])
    <3>1. CASE prov = <<>>
      BY <3>1
    <3>2. CASE prov = backing
      BY <2>4, <3>2
    <3> QED
      BY <2>6, <3>1, <3>2
  <2>8. \A c \in cleaned : Off(c)
    <3>1. \A c \in cleaned : c # 0
      BY <1>3 DEF IInv, Bounded, Ids
    <3> QED
      BY <1>3, <2>1, <2>5, <3>1 DEF IInv, CleanedOff
  <2>9. Off(b) \/ boxes[b].state = "created"
    <3>1. b # 0 /\ Known(b)
      BY <1>3 DEF IInv, Accounted, Ids
    <3> QED
      BY <2>1, <2>3, <2>4, <2>7, <2>8, <3>1 DEF Known, Recorded
  <2> QED
    BY <2>9 DEF Off
<1> QED
  BY <1>1, <1>2, <1>3, PTL DEF Spec

-----------------------------------------------------------------------------
\* Installs of one workspace take turns

Installing(b) == boxes[b].state = "installing"

\* Where the launch is when one of its containers installs: it waits at the gate for that
\* very container, or has started no other.
Turn(b) ==
  /\ pc \notin Early \cup {"provisioned", "launch", "create", "start", "replace", "died"}
  /\ pc = "launched" => b = pend.box
  /\ pc = "gate" => b = handle[cur] /\ heard = "nothing"
  /\ pc = "next" => cur > NumServices /\ b = handle[NumServices]
  /\ pc = "ready" => \E s \in Services : b = handle[s] /\ outcome[s] = "none"

Turns ==
  Shared /\ ~late =>
    /\ \A b, c \in Ids : Installing(b) /\ Installing(c) => b = c
    /\ \A b \in Ids : Installing(b) => Turn(b)

\* The gate forgets what it heard, and a service is judged after the loop alone.
Hears ==
  /\ pc # "gate" => heard = "nothing"
  /\ loop => \A s \in Services : outcome[s] = "none"
  /\ pc \in {"launch", "create", "start", "launched", "replace", "drop", "unrestart"} =>
       outcome[cur] = "none"

\* An install given up on is remembered.
LEMMA LateStays ==
  ASSUME Next, late
  PROVE  late'
<1> DEFINE Goal == late'
<1> SUFFICES Goal
  OBVIOUS
<1>1. CASE Container
  BY <1>1 DEF Container, InstallOk, InstallFailed, Starts, Dies
<1>2. ASSUME NEW a \in Actors, Undoing(a) PROVE Goal
  BY <1>2 DEF Undoing, NextService, NextDatabase, Removed, CleanedUp, ReleaseWorkspaces,
              ReleaseNetwork, RemoveNetwork
<1>3. CASE CreateDatabase \/ StartDatabase \/ DatabaseReady \/ Fallback \/ Unprovision \/ Provisioned
  BY <1>3 DEF CreateDatabase, StartDatabase, DatabaseReady, Fallback, Unprovision, Provisioned
<1>4. CASE Begin \/ Workspace \/ CreateService \/ StartService \/ Drop \/ Launched
  BY <1>4 DEF Begin, Workspace, CreateService, StartService, Drop, Launched
<1>5. CASE Replace \/ Unrestart \/ Gate \/ InstallDied \/ Verified
  BY <1>5 DEF Replace, Unrestart, Gate, InstallDied, Verified
<1>6. CASE CleanupOver \/ TornDown \/ Stop
  BY <1>6 DEF CleanupOver, TornDown, Stop
<1>7. ASSUME NEW s \in Started, Readiness(s) PROVE Goal
  BY <1>7 DEF Readiness
<1> HIDE DEF Goal
<1>8. ASSUME Launch PROVE Goal
  BY <1>3, <1>4, <1>5, <1>6, <1>7, <1>8 DEF Launch
<1> QED
  BY <1>1, <1>2, <1>6, <1>8 DEF Next

\* A container begins to install when the launch starts it, and at no other time.
LEMMA InstallStep ==
  ASSUME TypeOK, Bounded, Filled, Next, NEW b \in Ids', Installing(b)'
  PROVE  /\ b \in Ids
         /\ Installing(b) \/ (pc = "start" /\ pc' = "launched" /\ b = pend.box)
<1> DEFINE Goal == /\ b \in Ids
                   /\ Installing(b) \/ (pc = "start" /\ pc' = "launched" /\ b = pend.box)
<1> SUFFICES Goal
  OBVIOUS
<1>0. boxes \in Seq(BoxRecords)
  BY DEF TypeOK, TypeBoxes
<1>1. ASSUME boxes' = boxes PROVE Goal
  BY <1>1 DEF Ids, Installing
<1>2. ASSUME NEW c \in Ids, NEW s \in States, Sets(c, s),
             \/ boxes[c].state \in Themselves /\ s \in Later
             \/ s = "gone" /\ (pc = "start" => c # pend.box)
             \/ Begun(c, s)
      PROVE  Goal
  <2>1. Ids' = Ids /\ boxes'[c].state = s /\ \A d \in Ids : d # c => boxes'[d] = boxes[d]
    BY <1>0, <1>2, SetOne DEF Ids
  <2>2. CASE b # c
    BY <2>1, <2>2 DEF Installing
  <2>3. CASE b = c
    <3>1. s = "installing"
      BY <2>1, <2>3 DEF Installing
    <3>2. Begun(c, s)
      BY <1>2, <3>1 DEF Later
    <3> QED
      BY <2>1, <2>3, <3>1, <3>2 DEF Begun, Starting
  <2> QED
    BY <2>2, <2>3
<1>3. ASSUME NEW x \in BoxRecords, boxes' = Append(boxes, x), x.state = "created" PROVE Goal
  <2>1. /\ Ids' = Ids \cup {Len(boxes) + 1}
        /\ boxes'[Len(boxes) + 1] = x /\ \A d \in Ids : boxes'[d] = boxes[d]
    BY <1>0, <1>3, AddOne DEF Ids
  <2> QED
    BY <1>3, <2>1 DEF Installing
<1> QED
  <2> HIDE DEF Goal
  <2> QED
    BY <1>1, <1>2, <1>3, BoxKinds

\* Every step keeps what the gate and the judgement of a service forget.
LEMMA HearsKept ==
  ASSUME TypeOK, Filled, Control, Hears, Next
  PROVE  Hears'
<1> DEFINE Goal == Hears'
           Making == {"launch", "create", "start", "launched", "replace", "drop", "unrestart"}
<1> SUFFICES Goal
  OBVIOUS
<1> USE DEF runVars
<1>0. /\ NumServices \in Nat /\ cur \in 1..NumServices + 1
      /\ outcome \in [Services -> {"none", "ready", "failed"}] /\ Rounds
  BY BoundsAssumption DEF TypeOK, TypeRun, Filled
<1>1. ASSUME UNCHANGED <<loop, cur, heard, outcome>>, pc' # "gate" => pc # "gate",
             pc' \in Making => pc \in Making \/ (loop /\ cur \in Services)
      PROVE  Goal
  BY <1>1 DEF Hears
<1>2. ASSUME heard' = "nothing", pc' \notin Making, loop' => loop, outcome' = outcome PROVE Goal
  BY <1>2 DEF Hears
<1>3. Thrown => Goal
  BY <1>2 DEF Thrown
<1>4. ASSUME NEW s \in Services, NEW sig, Restart(s, sig), heard = "nothing" PROVE Goal
  BY <1>0, <1>4 DEF Restart, Hears
<1> HIDE DEF Goal
<1>5. ASSUME NEW b \in Ids, InstallOk(b) \/ InstallFailed(b) PROVE Goal
  <2>1. UNCHANGED <<pc, loop, cur, outcome>> /\ (pc # "gate" => heard' = heard)
    BY <1>5 DEF InstallOk, InstallFailed, Marked
  <2> QED
    BY <2>1 DEF Hears, Goal
<1>6. ASSUME NEW b \in Ids, Starts(b) \/ Dies(b) PROVE Goal
  BY <1>1, <1>6 DEF Starts, Dies
<1>7. ASSUME NEW a \in Actors, Undoing(a) PROVE Goal
  <2>1. UNCHANGED runVars
    BY <1>7 DEF Undoing, NextService, NextDatabase, Removed, CleanedUp, ReleaseWorkspaces,
                ReleaseNetwork, RemoveNetwork
  <2> QED
    BY <1>1, <2>1
<1>8. CASE Stop \/ CleanupOver
  BY <1>1, <1>8 DEF Stop, CleanupOver
<1>9. CASE CreateDatabase \/ StartDatabase \/ DatabaseReady \/ Fallback \/ Provisioned
  <2>1. UNCHANGED <<loop, cur, heard, outcome>>
    BY <1>9 DEF CreateDatabase, StartDatabase, DatabaseReady, Fallback, Provisioned, Goto
  <2>2. pc # "gate" /\ pc' # "gate" /\ pc' \notin Making
    BY <1>9 DEF CreateDatabase, StartDatabase, DatabaseReady, Fallback, Provisioned, Goto
  <2> QED
    BY <1>1, <2>1, <2>2
<1>10. CASE Unprovision
  <2>1. CASE Goto("unprovision")
    BY <1>1, <1>10, <2>1 DEF Unprovision, Goto
  <2> QED
    BY <1>3, <1>10, <2>1, Throws DEF Unprovision
<1>11. CASE Begin
  <2>1. CASE Goto("launch") /\ ~(cur > NumServices)
    <3>1. loop /\ cur \in Services
      BY <1>0, <1>11, <2>1 DEF Begin, Rounds, Services
    <3> QED
      BY <1>1, <1>11, <2>1, <3>1 DEF Begin, Goto
  <2>2. CASE pc' = "ready" /\ loop' = FALSE /\ UNCHANGED <<heard, outcome>>
    <3>1. heard = "nothing"
      BY <1>11 DEF Begin, Hears
    <3> QED
      BY <1>2, <2>2, <3>1
  <2> QED
    BY <1>3, <1>11, <2>1, <2>2, Throws DEF Begin
<1>12. CASE Workspace
  <2>1. UNCHANGED <<loop, cur, heard, outcome>> /\ pc = "launch" /\ pc' = "create"
    BY <1>12 DEF Workspace
  <2> QED
    BY <1>1, <2>1
<1>13. CASE CreateService
  <2>1. CASE pc' = "start" /\ UNCHANGED <<loop, cur, heard, outcome>>
    BY <1>1, <1>13, <2>1 DEF CreateService
  <2> QED
    BY <1>3, <1>13, <2>1, Throws DEF CreateService
<1>14. CASE StartService \/ Replace
  <2>1. UNCHANGED <<loop, cur, heard, outcome>> /\ pc \in Making /\ pc' \in Making
    BY <1>14 DEF StartService, Replace, Goto
  <2> QED
    BY <1>1, <2>1
<1>15. CASE Drop
  BY <1>3, <1>15, Throws DEF Drop
<1>16. CASE Unrestart
  <2>1. CASE Goto("drop")
    BY <1>1, <1>16, <2>1 DEF Unrestart, Goto
  <2> QED
    BY <1>3, <1>16, <2>1, Throws DEF Unrestart
<1>17. CASE Launched
  <2>1. pc = "launched" /\ heard = "nothing"
    BY <1>17 DEF Launched, Hears
  <2>2. CASE Goto("unrestart")
    BY <1>1, <2>1, <2>2 DEF Goto
  <2>3. CASE pc' \in {"ready", "gate", "next"} /\ UNCHANGED <<loop, heard, outcome>>
    BY <1>2, <2>1, <2>3
  <2> QED
    BY <1>3, <1>17, <2>2, <2>3, Throws DEF Launched
<1>18. CASE Gate
  <2>1. CASE Proceed \/ Died
    BY <1>2, <2>1 DEF Proceed, Died
  <2> QED
    BY <1>3, <1>18, <2>1, Throws DEF Gate
<1>19. CASE InstallDied
  <2>1. heard = "nothing" /\ cur \in Services
    BY <1>0, <1>19 DEF InstallDied, Hears, Rounds
  <2>2. CASE Restart(cur, want[cur])
    BY <1>4, <2>1, <2>2
  <2>3. CASE Proceed
    BY <1>2, <2>3 DEF Proceed
  <2>4. CASE pc' = "ready" /\ loop' = FALSE /\ UNCHANGED <<heard, outcome>>
    BY <1>2, <2>1, <2>4
  <2> QED
    BY <1>19, <2>2, <2>3, <2>4 DEF InstallDied
<1>20. CASE Verified
  <2>1. pc = "ready" /\ heard = "nothing"
    BY <1>20 DEF Verified, Hears
  <2>2. ASSUME NEW s \in Started, NEW sig \in Installs, Restart(s, sig) PROVE Goal
    BY <1>4, <2>1, <2>2 DEF Started
  <2>3. CASE Goto("serving")
    BY <1>2, <2>1, <2>3 DEF Goto
  <2> QED
    BY <1>3, <1>20, <2>2, <2>3, Throws DEF Verified
<1>21. ASSUME NEW s \in Started, Readiness(s) PROVE Goal
  <2>1. UNCHANGED <<pc, loop, heard>> /\ pc = "ready"
    BY <1>21 DEF Readiness
  <2>2. ~loop
    BY <1>0, <2>1 DEF Rounds
  <2> QED
    BY <2>1, <2>2 DEF Hears, Goal
<1>22. CASE TornDown
  <2>1. UNCHANGED <<loop, heard, outcome>> /\ pc' = "over"
    BY <1>22 DEF TornDown
  <2>2. heard = "nothing"
    <3>1. pc # "gate"
      BY <1>22 DEF TornDown, Control
    <3> QED
      BY <3>1 DEF Hears
  <2> QED
    BY <1>2, <2>1, <2>2
<1>23. ASSUME Launch PROVE Goal
  BY <1>8, <1>9, <1>10, <1>11, <1>12, <1>13, <1>14, <1>15, <1>16, <1>17, <1>18, <1>19, <1>20, <1>21,
     <1>22, <1>23 DEF Launch
<1> QED
  BY <1>5, <1>6, <1>7, <1>8, <1>23 DEF Next, Container

\* Every step keeps the turns, of whichever container is installing.
LEMMA TurnsKept ==
  ASSUME TypeOK, Bounded, Filled, Control, Hears, Turns, Next
  PROVE  Turns'
<1> SUFFICES ASSUME Shared, ~late'
             PROVE  /\ \A b, c \in Ids' : Installing(b)' /\ Installing(c)' => b = c
                    /\ \A b \in Ids' : Installing(b)' => Turn(b)'
  BY DEF Turns
<1>0. /\ ~late /\ Rounds /\ AtHand /\ NumServices \in Nat \ {0} /\ cur \in 1..NumServices + 1
      /\ outcome \in [Services -> {"none", "ready", "failed"}] /\ handle \in [Services -> Nat]
  BY LateStays, BoundsAssumption DEF TypeOK, TypeRun, TypeBoxes, TypeNames, Filled
<1>1. /\ \A b, c \in Ids : Installing(b) /\ Installing(c) => b = c
      /\ \A b \in Ids : Installing(b) => Turn(b)
  BY <1>0 DEF Turns
<1>2. ASSUME NEW b \in Ids', NEW c \in Ids', Installing(b)', Installing(c)' PROVE b = c
  <2>1. b \in Ids /\ (Installing(b) \/ (pc = "start" /\ b = pend.box))
    BY <1>2, InstallStep
  <2>2. c \in Ids /\ (Installing(c) \/ (pc = "start" /\ c = pend.box))
    BY <1>2, InstallStep
  <2>3. pc = "start" => ~Installing(b) /\ ~Installing(c)
    BY <1>1, <2>1, <2>2 DEF Turn
  <2> QED
    BY <1>1, <2>1, <2>2, <2>3
<1>3. SUFFICES ASSUME NEW b \in Ids', Installing(b)' PROVE Turn(b)'
  BY <1>2
<1> DEFINE Goal == Turn(b)'
<1> SUFFICES Goal
  OBVIOUS
<1> USE DEF runVars, recVars
<1>4. b \in Ids /\ (Installing(b) \/ (pc = "start" /\ pc' = "launched" /\ b = pend.box))
  BY <1>3, InstallStep
<1>5. Installing(b) => Turn(b)
  BY <1>1, <1>4
<1>6. pc = "start" => pc' = "launched" /\ b = pend.box
  BY <1>4, <1>5 DEF Turn
<1>7. ASSUME UNCHANGED <<pc, cur, pend, handle, outcome>>, pc = "gate" => heard' = heard PROVE Goal
  <2>1. pc # "start"
    BY <1>6, <1>7
  <2> QED
    BY <1>4, <1>5, <1>7, <2>1 DEF Turn
<1>8. pc' \in {"ending", "over", "serving", "drop", "unrestart"} => Goal
  BY DEF Turn, Early
<1>9. Thrown => Goal
  BY <1>8 DEF Thrown
<1>10. pc \in Early \cup {"provisioned", "launch", "create", "replace", "died"} => FALSE
  BY <1>4, <1>5 DEF Turn, Early
<1> HIDE DEF Goal
<1>11. ASSUME NEW c \in Ids, InstallOk(c) \/ InstallFailed(c) PROVE Goal
  <2>1. UNCHANGED <<pc, cur, pend, handle, outcome>>
    BY <1>11 DEF InstallOk, InstallFailed
  <2>2. Installing(b) /\ Turn(b)
    BY <1>4, <1>5, <2>1
  <2>3. b # c
    <3>1. boxes'[c].state # "installing"
      <4>1. boxes \in Seq(BoxRecords) /\ {"installed", "dying"} \subseteq States
        BY DEF TypeOK, TypeBoxes, States, Held, Live
      <4>2. \E s \in {"installed", "dying"} : Sets(c, s)
        BY <1>11 DEF InstallOk, InstallFailed, SetBox, Sets
      <4> QED
        BY <4>1, <4>2, SetOne
    <3> QED
      BY <1>3, <3>1 DEF Installing
  <2>4. pc = "gate" => heard' = heard
    BY <1>11, <2>2, <2>3 DEF InstallOk, InstallFailed, Marked, Turn
  <2> QED
    BY <1>7, <2>1, <2>4
<1>12. ASSUME NEW c \in Ids, Starts(c) \/ Dies(c) PROVE Goal
  BY <1>7, <1>12 DEF Starts, Dies
<1>13. ASSUME NEW a \in Actors, Undoing(a) PROVE Goal
  <2>1. UNCHANGED <<pc, cur, pend, handle, outcome, heard>>
    BY <1>13 DEF Undoing, NextService, NextDatabase, Removed, CleanedUp, ReleaseWorkspaces,
                ReleaseNetwork, RemoveNetwork
  <2> QED
    BY <1>7, <2>1
<1>14. CASE Stop \/ CleanupOver
  BY <1>7, <1>14 DEF Stop, CleanupOver
<1>15. CASE CreateDatabase \/ StartDatabase \/ DatabaseReady \/ Fallback \/ Unprovision \/ Provisioned
  BY <1>10, <1>15
  DEF CreateDatabase, StartDatabase, DatabaseReady, Fallback, Unprovision, Provisioned, Early
<1>16. CASE Begin
  <2>1. pc = "next"
    BY <1>10, <1>16 DEF Begin
  <2>2. Turn(b)
    BY <1>4, <1>5, <2>1
  <2>3. cur > NumServices /\ b = handle[NumServices] /\ loop
    BY <1>0, <2>1, <2>2 DEF Turn, Rounds
  <2>4. CASE stopped
    BY <1>9, <1>16, <2>4, Throws DEF Begin
  <2>5. CASE ~stopped
    <3>1. pc' = "ready" /\ outcome' = outcome /\ handle' = handle
      BY <1>16, <2>3, <2>5 DEF Begin
    <3>2. NumServices \in Services /\ outcome[NumServices] = "none"
      BY <1>0, <2>3 DEF Hears, Services
    <3> QED
      BY <2>3, <3>1, <3>2 DEF Goal, Turn, Early
  <2> QED
    BY <2>4, <2>5
<1>17. CASE Workspace \/ CreateService \/ Replace \/ InstallDied
  BY <1>10, <1>17 DEF Workspace, CreateService, Replace, InstallDied
<1>18. CASE StartService
  <2>1. pc = "start" /\ pend' = pend
    BY <1>18 DEF StartService, Goto
  <2> QED
    BY <1>6, <2>1 DEF Goal, Turn, Early
<1>19. CASE Drop
  BY <1>9, <1>19, Throws DEF Drop
<1>20. CASE Unrestart
  BY <1>8, <1>9, <1>20, Throws DEF Unrestart, Goto
<1>21. CASE Launched
  <2>1. pc = "launched" /\ cur \in Services
    BY <1>0, <1>21 DEF Launched, Rounds
  <2>2. /\ Turn(b) /\ b = pend.box /\ heard = "nothing" /\ outcome[cur] = "none"
    BY <1>4, <1>5, <2>1 DEF Turn, Hears
  <2>3. handle' = [handle EXCEPT ![cur] = pend.box] /\ handle'[cur] = b
    BY <1>0, <1>21, <2>1, <2>2 DEF Launched
  <2>4. CASE stopped
    BY <1>8, <1>9, <1>21, <2>4, Throws DEF Launched, Goto
  <2>5. CASE ~stopped
    <3>1. UNCHANGED <<heard, outcome>>
      BY <1>21, <2>5 DEF Launched
    <3>2. CASE pc' = "ready"
      BY <2>1, <2>2, <2>3, <3>1, <3>2 DEF Goal, Turn, Early
    <3>3. CASE pc' = "gate" /\ cur' = cur
      BY <2>2, <2>3, <3>1, <3>3 DEF Goal, Turn, Early
    <3>4. CASE pc' = "next" /\ cur' = cur + 1 /\ ~(cur < NumServices)
      <4>1. cur = NumServices /\ cur' > NumServices
        BY <1>0, <2>1, <3>4 DEF Services
      <4> QED
        BY <2>3, <3>4, <4>1 DEF Goal, Turn, Early
    <3> QED
      BY <1>21, <2>5, <3>2, <3>3, <3>4 DEF Launched
  <2> QED
    BY <2>4, <2>5
<1>22. CASE Gate
  <2>1. pc = "gate" /\ late' \in BOOLEAN
    BY <1>22 DEF Gate, TypeOK, TypeRun, Running
  <2>2. Installing(b) /\ b = handle[cur] /\ heard = "nothing"
    BY <1>4, <1>5, <2>1 DEF Turn
  <2>3. Running(cur) /\ ~Exited(cur)
    BY <2>2 DEF Installing, Running, Exited
  <2> QED
    BY <1>3, <1>9, <1>22, <2>2, <2>3, Throws DEF Gate
<1>23. ASSUME NEW s \in Started, Readiness(s) PROVE Goal
  <2>1. pc = "ready" /\ pc' = "ready" /\ handle' = handle
    BY <1>23 DEF Readiness
  <2>2. PICK t \in Services : b = handle[t] /\ outcome[t] = "none"
    BY <1>4, <1>5, <2>1 DEF Turn
  <2>3. Installing(b)
    BY <1>4, <2>1
  <2>4. t # s
    <3>1. SUFFICES ASSUME t = s PROVE FALSE
      OBVIOUS
    <3>2. boxes[handle[s]].state # "up" /\ Running(s)
      BY <2>2, <2>3, <3>1 DEF Installing, Running
    <3> QED
      BY <1>3, <1>23, <3>2 DEF Readiness
  <2>5. outcome'[t] = "none"
    BY <1>0, <1>23, <2>2, <2>4 DEF Readiness
  <2> QED
    BY <2>1, <2>2, <2>5 DEF Goal, Turn, Early
<1>24. CASE Verified
  <2>1. pc = "ready" /\ \A s \in Started : outcome[s] # "none"
    BY <1>24 DEF Verified
  <2>2. PICK t \in Services : b = handle[t] /\ outcome[t] = "none"
    BY <1>4, <1>5, <2>1 DEF Turn
  <2>3. t \in Started
    BY <1>4, <2>2 DEF Started, Ids
  <2> QED
    BY <2>1, <2>2, <2>3
<1>25. CASE TornDown
  BY <1>8, <1>25 DEF TornDown
<1>26. ASSUME Launch PROVE Goal
  BY <1>14, <1>15, <1>16, <1>17, <1>18, <1>19, <1>20, <1>21, <1>22, <1>23, <1>24, <1>25, <1>26
  DEF Launch
<1> QED
  BY <1>11, <1>12, <1>13, <1>14, <1>26 DEF Next, Container

\* The invariant of the launch holds in every state.
LEMMA LaunchInv == Spec => []IInv
  BY IInvInit, IInvNext, PTL DEF Spec

TInv == Hears /\ Turns

\* Nothing installs at first.
LEMMA TInvInit == Init => TInv
<1> SUFFICES ASSUME Init PROVE TInv
  OBVIOUS
<1>1. Hears
  BY DEF Init, Hears
<1>2. Turns
  <2>1. Ids = {}
    BY DEF Init, Ids
  <2> QED
    BY <2>1 DEF Turns
<1> QED
  BY <1>1, <1>2 DEF TInv

\* Every step keeps the turns.
LEMMA TInvNext == IInv /\ TInv /\ [Next]_vars => TInv'
<1> SUFFICES ASSUME IInv, TInv, [Next]_vars PROVE TInv'
  OBVIOUS
<1> USE DEF IInv, TInv
<1>1. CASE Next
  BY <1>1, HearsKept, TurnsKept
<1>2. CASE UNCHANGED vars
  BY <1>2 DEF vars, runVars, boxVars, recVars, Hears, Turns, Turn, Installing, Ids
<1> QED
  BY <1>1, <1>2

\* Services that install one workspace do so one at a time - also after a death in the gate
\* and a restart - unless an install was given up on while it ran; however many services
\* there are: while one container installs, the launch waits at the gate for it, or has no
\* service left to start.
THEOREM InstallsAreSerial == Spec => []InstallsTakeTurns
<1>1. Init => TInv
  BY TInvInit
<1>2. IInv /\ TInv /\ [Next]_vars => TInv'
  BY TInvNext
<1>3. ASSUME TInv PROVE InstallsTakeTurns
  <2> DEFINE Busy == {b \in Ids : boxes[b].state = "installing"}
  <2> SUFFICES ASSUME Shared, ~late PROVE Cardinality(Busy) <= 1
    BY DEF InstallsTakeTurns
  <2>1. CASE Busy = {}
    <3>1. Cardinality(Busy) = 0
      BY <2>1, FS_EmptySet
    <3> QED
      BY <3>1
  <2>2. CASE Busy # {}
    <3>1. PICK b : b \in Busy
      BY <2>2
    <3>2. Busy = {b}
      BY <1>3, <3>1 DEF TInv, Turns, Installing
    <3>3. Cardinality(Busy) = 1
      BY <3>2, FS_Singleton
    <3> QED
      BY <3>3
  <2> QED
    BY <2>1, <2>2
<1> QED
  BY <1>1, <1>2, <1>3, LaunchInv, PTL DEF Spec

-----------------------------------------------------------------------------
\* Workspaces, and the containers that skip their install

\* A container that is to install, or does.
Fresh(c) == ~boxes[c].reused /\ boxes[c].state \in {"created", "installing"}

\* No container will write to a volume.
Written(v) == \A c \in Ids : boxes[c].vol = v => ~Fresh(c)

\* Only one container installs in a volume, and one that reuses it never does.
Mounts ==
  /\ \A b \in Ids :
       /\ boxes[b].vol \in 0..Len(content)
       /\ boxes[b].state \in {"installing", "reusing"} \/ boxes[b].reused => boxes[b].vol # 0
       /\ boxes[b].reused => boxes[b].state # "installing"
       /\ boxes[b].state = "reusing" => boxes[b].reused
  /\ \A b, c \in Ids :
       boxes[b].vol = boxes[c].vol /\ boxes[b].vol # 0 /\ ~boxes[b].reused /\ ~boxes[c].reused => b = c

\* The volume a container is made for is new, or holds a finished install.
Preparing ==
  /\ pc \in {"create", "start"} => pend.vol \in 1..Len(content)
  /\ pc = "create" /\ ~pend.reused =>
       /\ \A b \in Ids : boxes[b].vol # pend.vol
       /\ \A k \in Services : ws[k].vol = pend.vol => ws[k].installed = 0
  /\ pc = "start" =>
       /\ boxes[pend.box].reused = pend.reused /\ boxes[pend.box].vol = pend.vol
       /\ boxes[pend.box].state = "created"

Workspaces ==
  /\ \A k \in Services : ws[k].vol \in 0..Len(content)
  /\ \A k, l \in Services : ws[k].vol = ws[l].vol /\ ws[k].vol # 0 => k = l

\* What the records say of an install is true, and no volume of theirs is gone, until a
\* stop takes the volumes away.
Trusted ==
  ~stopped =>
    /\ \A b \in Ids : boxes[b].reused => content[boxes[b].vol] = boxes[b].sig /\ Written(boxes[b].vol)
    /\ \A k \in Services : ws[k].installed # 0 =>
         ws[k].vol # 0 /\ content[ws[k].vol] = ws[k].installed /\ Written(ws[k].vol)
    /\ pc = "create" => pend.vol \in vols
    /\ pc = "create" /\ pend.reused => content[pend.vol] = want[cur] /\ Written(pend.vol)
    /\ pc \notin {"ending", "over"} => \A k \in Services : ws[k].vol # 0 => ws[k].vol \in vols

Reuse == Mounts /\ Preparing /\ Workspaces /\ Trusted

\* Containers change their states, no more of them are to install, and a new one is a
\* database's.
Moves ==
  /\ Ids \subseteq Ids'
  /\ \A b \in Ids :
       /\ boxes'[b].vol = boxes[b].vol /\ boxes'[b].sig = boxes[b].sig
       /\ boxes'[b].reused = boxes[b].reused
       /\ Fresh(b)' => Fresh(b)
       /\ boxes'[b].state \in {"installing", "reusing"} =>
            \/ boxes[b].state = boxes'[b].state
            \/ boxes[b].vol # 0 /\ (boxes'[b].state = "reusing" <=> boxes[b].reused)
       /\ pc' = "start" /\ b = pend.box /\ boxes[b].state = "created" => boxes'[b].state = "created"
  /\ \A b \in Ids' : b \notin Ids =>
       boxes'[b].vol = 0 /\ ~boxes'[b].reused /\ boxes'[b].state = "created"

\* A step that does not create a container moves those there are as Moves says.
LEMMA MovesKinds ==
  ASSUME TypeOK, Bounded, Filled, Mounts, Preparing, Next, ~(pc = "create" /\ pc' = "start"),
         pc' = "start" => pc = "start"
  PROVE  Moves
<1> DEFINE Goal == Moves
<1> SUFFICES Goal
  OBVIOUS
<1>0. boxes \in Seq(BoxRecords) /\ Filled
  BY DEF TypeOK, TypeBoxes
<1>1. ASSUME boxes' = boxes PROVE Goal
  BY <1>1 DEF Moves, Ids, Fresh
<1>2. ASSUME NEW c \in Ids, NEW s \in States, Sets(c, s),
             \/ boxes[c].state \in Themselves /\ s \in Later
             \/ s = "gone" /\ (pc = "start" => c # pend.box)
             \/ Begun(c, s)
      PROVE  Goal
  <2>1. /\ Ids' = Ids /\ boxes'[c].state = s /\ \A d \in Ids : d # c => boxes'[d] = boxes[d]
        /\ \A d \in Ids : /\ boxes'[d].vol = boxes[d].vol /\ boxes'[d].sig = boxes[d].sig
                          /\ boxes'[d].reused = boxes[d].reused
    BY <1>0, <1>2, SetOne DEF Ids
  <2>2. ASSUME s \in {"installing", "reusing"}
        PROVE  /\ pc = "start" /\ c = pend.box /\ pc' = "launched" /\ (s = "reusing" <=> pend.reused)
               /\ boxes[c].reused = pend.reused /\ boxes[c].vol # 0 /\ boxes[c].state = "created"
    <3>1. Begun(c, s)
      BY <1>2, <2>2 DEF Later
    <3>2. pc = "start" /\ c = pend.box /\ pc' = "launched" /\ (s = "reusing" <=> pend.reused)
      BY <2>2, <3>1 DEF Begun, Starting
    <3> QED
      BY <3>2 DEF Preparing
  <2>3. Fresh(c)' => Fresh(c)
    <3>1. SUFFICES ASSUME Fresh(c)' PROVE Fresh(c)
      OBVIOUS
    <3>2. s \in {"created", "installing"} /\ ~boxes[c].reused
      BY <2>1, <3>1 DEF Fresh
    <3>3. s # "created"
      BY <1>2 DEF Later, Begun
    <3> QED
      BY <2>2, <3>2, <3>3 DEF Fresh
  <2>4. pc' = "start" /\ c = pend.box => boxes[c].state # "created"
    <3>1. SUFFICES ASSUME pc' = "start", c = pend.box, boxes[c].state = "created" PROVE FALSE
      OBVIOUS
    <3>2. pc = "start"
      BY <3>1
    <3>3. ~Begun(c, s) /\ s # "gone"
      BY <1>2, <3>1, <3>2 DEF Begun, Starting, Later
    <3> QED
      BY <1>2, <3>1, <3>3 DEF Themselves
  <2>5. ASSUME NEW b \in Ids PROVE Fresh(b)' => Fresh(b)
    BY <2>1, <2>3 DEF Fresh
  <2>6. ASSUME NEW b \in Ids, boxes'[b].state \in {"installing", "reusing"}
        PROVE  \/ boxes[b].state = boxes'[b].state
               \/ boxes[b].vol # 0 /\ (boxes'[b].state = "reusing" <=> boxes[b].reused)
    BY <2>1, <2>2, <2>6
  <2>7. ASSUME NEW b \in Ids, pc' = "start", b = pend.box, boxes[b].state = "created"
        PROVE  boxes'[b].state = "created"
    BY <2>1, <2>4, <2>7
  <2> QED
    BY <2>1, <2>5, <2>6, <2>7 DEF Moves
<1> HIDE DEF Goal
<1>3. ASSUME pc = "databases", pc' = "database" PROVE Goal
  <2>1. CreateDatabase
    <3>1. ~Container /\ ~Stop /\ ~CleanupOver /\ \A a \in Actors : ~Undoing(a)
      BY <1>3 DEF Container, InstallOk, InstallFailed, Starts, Dies, Stop, CleanupOver, runVars,
                  Undoing, NextService, NextDatabase, Removed, CleanedUp, ReleaseWorkspaces,
                  ReleaseNetwork, RemoveNetwork
    <3>2. ~Provisioned
      BY <1>3 DEF Provisioned, Goto
    <3> QED
      BY <1>3, <3>1, <3>2
      DEF Next, Launch, StartDatabase, DatabaseReady, Fallback, Unprovision, Begin, Workspace,
          CreateService, StartService, Drop, Launched, Replace, Unrestart, Gate, InstallDied,
          Readiness, Verified, TornDown
  <2> DEFINE x == NewBox("database", Database, 0, 0, FALSE)
  <2>2. boxes' = Append(boxes, x)
    BY <1>3, <2>1 DEF CreateDatabase, Goto
  <2>3. x \in BoxRecords /\ x.state = "created" /\ x.vol = 0 /\ ~x.reused
    BY DEF NewBox, BoxRecords, States, Held, Live, Database, TypeOK, TypeBoxes, TypeNames
  <2> HIDE DEF x
  <2>4. /\ Ids' = Ids \cup {Len(boxes) + 1}
        /\ boxes'[Len(boxes) + 1] = x /\ \A d \in Ids : boxes'[d] = boxes[d]
    BY <1>0, <2>2, <2>3, AddOne DEF Ids
  <2> QED
    BY <1>3, <2>3, <2>4 DEF Moves, Fresh, Goal
<1> QED
  BY <1>1, <1>2, <1>3, BoxKinds DEF Adds

\* A step that leaves the volumes and what a container is being made for.
Quiet ==
  /\ Moves /\ UNCHANGED <<ws, content, vols>>
  /\ stopped => stopped'
  /\ pc \in {"ending", "over"} => pc' \in {"ending", "over"}
  /\ pc' \notin {"create", "start"} \/ UNCHANGED <<pc, cur, pend, want>>

\* A step that leaves the workspaces and what is in them alone keeps the reuse.
LEMMA QuietStep ==
  ASSUME TypeOK, Bounded, Filled, Reuse, Quiet
  PROVE  Reuse'
<1> USE DEF Quiet, Reuse
<1> DEFINE Still(v) == \A c \in Ids' : boxes'[c].vol = v => ~Fresh(c)'
<1>1. \A v : v # 0 /\ Written(v) => Still(v)
  BY DEF Moves, Written
<1>2. content \in Seq(Nat)
  BY DEF TypeOK, TypeDisk
<1>3. Mounts'
  <2>1. ASSUME NEW b \in Ids'
        PROVE  /\ boxes'[b].vol \in 0..Len(content)
               /\ boxes'[b].state \in {"installing", "reusing"} \/ boxes'[b].reused => boxes'[b].vol # 0
               /\ boxes'[b].reused => boxes'[b].state # "installing"
               /\ boxes'[b].state = "reusing" => boxes'[b].reused
    <3>1. CASE b \in Ids
      BY <3>1 DEF Moves, Mounts
    <3>2. CASE b \notin Ids
      BY <1>2, <2>1, <3>2 DEF Moves
    <3> QED
      BY <3>1, <3>2
  <2>2. ASSUME NEW b \in Ids', NEW c \in Ids', boxes'[b].vol = boxes'[c].vol, boxes'[b].vol # 0,
               ~boxes'[b].reused, ~boxes'[c].reused
        PROVE  b = c
    <3>1. b \in Ids /\ c \in Ids
      BY <2>2 DEF Moves
    <3> QED
      BY <2>2, <3>1 DEF Moves, Mounts
  <2> QED
    BY <2>1, <2>2 DEF Mounts
<1>4. Preparing'
  <2>1. CASE pc' \notin {"create", "start"}
    BY <2>1 DEF Preparing
  <2>2. CASE UNCHANGED <<pc, cur, pend, want>>
    <3>1. pc = "start" => pend.box \in Ids
      BY DEF Filled, AtHand, Bounded
    <3>2. pc' = "start" => /\ boxes'[pend.box].reused = pend.reused /\ boxes'[pend.box].vol = pend.vol
                           /\ boxes'[pend.box].state = "created"
      BY <2>2, <3>1 DEF Preparing, Moves
    <3>3. ASSUME pc = "create", ~pend.reused, NEW b \in Ids' PROVE boxes'[b].vol # pend.vol
      <4>1. pend.vol # 0
        BY <1>2, <3>3 DEF Preparing
      <4> QED
        BY <3>3, <4>1 DEF Preparing, Moves
    <3> QED
      BY <2>2, <3>2, <3>3 DEF Preparing
  <2> QED
    BY <2>1, <2>2
<1>5. Workspaces'
  BY DEF Workspaces
<1>6. Trusted'
  <2> SUFFICES ASSUME ~stopped'
               PROVE  /\ \A b \in Ids' : boxes'[b].reused =>
                           content[boxes'[b].vol] = boxes'[b].sig /\ Still(boxes'[b].vol)
                      /\ \A k \in Services : ws[k].installed # 0 =>
                           ws[k].vol # 0 /\ content[ws[k].vol] = ws[k].installed /\ Still(ws[k].vol)
                      /\ pc' = "create" => pend'.vol \in vols
                      /\ pc' = "create" /\ pend'.reused =>
                           content[pend'.vol] = want'[cur'] /\ Still(pend'.vol)
                      /\ pc' \notin {"ending", "over"} =>
                           \A k \in Services : ws[k].vol # 0 => ws[k].vol \in vols
    BY DEF Trusted, Written
  <2> HIDE DEF Still
  <2>1. ASSUME NEW b \in Ids', boxes'[b].reused
        PROVE  content[boxes'[b].vol] = boxes'[b].sig /\ Still(boxes'[b].vol)
    <3>1. b \in Ids
      BY <2>1 DEF Moves
    <3>2. /\ boxes'[b].vol = boxes[b].vol /\ boxes'[b].sig = boxes[b].sig /\ boxes[b].vol # 0
          /\ content[boxes[b].vol] = boxes[b].sig /\ Written(boxes[b].vol)
      BY <2>1, <3>1 DEF Moves, Mounts, Trusted
    <3> QED
      BY <1>1, <3>2
  <2>2. ASSUME NEW k \in Services, ws[k].installed # 0
        PROVE  ws[k].vol # 0 /\ content[ws[k].vol] = ws[k].installed /\ Still(ws[k].vol)
    <3>1. ws[k].vol # 0 /\ content[ws[k].vol] = ws[k].installed /\ Written(ws[k].vol)
      BY <2>2 DEF Trusted
    <3>2. ws'[k].vol = ws[k].vol
      OBVIOUS
    <3> QED
      BY <1>1, <3>1, <3>2
  <2>3. ASSUME pc' = "create"
        PROVE  /\ pend'.vol \in vols
               /\ pend'.reused => content[pend'.vol] = want'[cur'] /\ Still(pend'.vol)
    <3>1. UNCHANGED <<pc, cur, pend, want>>
      BY <2>3
    <3>2. pend.vol \in vols /\ pend.vol # 0
      BY <1>2, <2>3, <3>1 DEF Trusted, Preparing
    <3>3. pend.reused => content[pend.vol] = want[cur] /\ Written(pend.vol)
      BY <2>3, <3>1 DEF Trusted
    <3> QED
      BY <1>1, <3>1, <3>2, <3>3
  <2>4. ASSUME pc' \notin {"ending", "over"} PROVE \A k \in Services : ws[k].vol # 0 => ws[k].vol \in vols
    BY <2>4 DEF Trusted
  <2> QED
    BY <2>1, <2>2, <2>3, <2>4
<1> QED
  BY <1>3, <1>4, <1>5, <1>6

\* A finished install marks its workspace, and nobody who reuses it is wronged.
LEMMA MarkedReuse ==
  ASSUME TypeOK, Bounded, Filled, Reuse, NEW b \in Ids, InstallOk(b) \/ InstallFailed(b)
  PROVE  Reuse'
<1> USE DEF Reuse
<1> DEFINE k == Key(boxes[b].of)
           v == boxes[b].vol
           Still(u) == \A c \in Ids' : boxes'[c].vol = u => ~Fresh(c)'
<1>0. /\ boxes \in Seq(BoxRecords) /\ content \in Seq(Nat)
      /\ ws \in [Services -> [vol : Nat, installed : {0} \cup Installs]]
      /\ pend \in [vol : Nat, reused : BOOLEAN, box : Nat]
  BY DEF TypeOK, TypeBoxes, TypeNames, TypeDisk
<1>1. /\ \E r \in {"installed", "dying"} : Sets(b, r)
      /\ UNCHANGED <<pc, cur, pend, want, vols, stopped>>
  BY DEF InstallOk, InstallFailed, SetBox, Sets
<1>2. /\ Ids' = Ids /\ boxes'[b].state \in {"installed", "dying"}
      /\ \A c \in Ids : /\ c # b => boxes'[c] = boxes[c]
                        /\ boxes'[c].vol = boxes[c].vol /\ boxes'[c].sig = boxes[c].sig
                        /\ boxes'[c].reused = boxes[c].reused
  <2>1. {"installed", "dying"} \subseteq States
    BY DEF States, Held, Live
  <2> QED
    BY <1>0, <1>1, <2>1, SetOne DEF Ids
<1>3. v # 0 /\ v \in 1..Len(content) /\ boxes[b].sig \in {0} \cup Installs
  <2>1. boxes[b] \in BoxRecords
    BY <1>0 DEF Ids
  <2>2. boxes[b].sig \in {0} \cup Installs
    BY <2>1 DEF BoxRecords
  <2>3. boxes[b].state \in {"installing", "reusing"}
    BY DEF InstallOk, InstallFailed
  <2>4. v # 0 /\ v \in 0..Len(content)
    BY <2>3 DEF Mounts
  <2> QED
    BY <1>0, <2>2, <2>4
<1>4. /\ content' \in Seq(Nat) /\ Len(content') = Len(content)
      /\ \A u \in 1..Len(content) : u # v => content'[u] = content[u]
  <2>1. CASE content' = content
    BY <1>0, <2>1
  <2>2. CASE content' = [content EXCEPT ![v] = boxes[b].sig]
    <3>1. boxes[b].sig \in Nat
      BY <1>3 DEF Installs
    <3> QED
      BY <1>0, <1>3, <2>2, <3>1
  <2> QED
    BY <2>1, <2>2 DEF InstallOk, InstallFailed
<1>5. \A c \in Ids : Fresh(c)' => Fresh(c) /\ c # b
  BY <1>2 DEF Fresh
<1>6. \A u : Written(u) => Still(u)
  BY <1>2, <1>5 DEF Written
  \* Nobody relies on a volume in which b is still installing.
<1>7. \A u : Written(u) /\ u = v => boxes[b].reused /\ content' = content
  <2>1. ASSUME NEW u, Written(u), u = v PROVE ~Fresh(b)
    BY <2>1 DEF Written
  <2>2. ~Fresh(b) => boxes[b].reused /\ content' = content
    BY DEF Fresh, Mounts, InstallOk, InstallFailed
  <2> QED
    BY <2>1, <2>2
<1>8. \A u \in 1..Len(content) : Written(u) => content'[u] = content[u] /\ Still(u)
  BY <1>4, <1>6, <1>7
<1> HIDE DEF Still
<1>9. Mounts'
  <2>1. \A c \in Ids : boxes'[c].state \in {"installing", "reusing"} => c # b /\ boxes'[c] = boxes[c]
    BY <1>2
  <2> QED
    BY <1>2, <1>4, <2>1 DEF Mounts
<1>10. /\ ws' \in [Services -> [vol : Nat, installed : {0} \cup Installs]]
       /\ \A l \in Services : /\ ws'[l].vol = ws[l].vol
                              /\ \/ ws'[l].installed \in {0, ws[l].installed}
                                 \/ /\ ws'[l].vol = v /\ InstallOk(b)
                                    /\ ws'[l].installed = boxes[b].sig
  <2>1. PICK m \in {0, boxes[b].sig} :
             /\ ws' = ws \/ (ws[k].vol = v /\ ws' = [ws EXCEPT ![k].installed = m])
             /\ m # 0 => InstallOk(b)
    BY DEF InstallOk, InstallFailed, Marked
  <2>2. m \in {0} \cup Installs
    BY <1>3, <2>1
  <2>3. CASE ws' = ws
    BY <1>0, <2>3
  <2>4. CASE k \in Services /\ ws[k].vol = v /\ ws' = [ws EXCEPT ![k].installed = m]
    <3>1. /\ ws' \in [Services -> [vol : Nat, installed : {0} \cup Installs]]
          /\ ws'[k].installed = m
          /\ \A l \in Services : /\ ws'[l].vol = ws[l].vol
                                 /\ l # k => ws'[l] = ws[l]
      BY <1>0, <2>2, <2>4
    <3> QED
      BY <2>1, <2>4, <3>1
  <2>5. CASE k \notin Services /\ ws' = [ws EXCEPT ![k].installed = m]
    BY <1>0, <2>5
  <2> QED
    BY <2>1, <2>3, <2>4, <2>5
<1>11. Workspaces'
  BY <1>4, <1>10 DEF Workspaces
<1>12. Preparing'
  <2>1. pc = "start" => pend.box \in Ids /\ pend.box # b
    <3>1. pc = "start" => pend.box \in Ids
      BY DEF Filled, AtHand, Bounded
    <3>2. pc = "start" => boxes[pend.box].state = "created"
      BY DEF Preparing
    <3> QED
      BY <3>1, <3>2 DEF InstallOk, InstallFailed
  <2>2. pc = "start" => /\ boxes'[pend.box].reused = pend.reused /\ boxes'[pend.box].vol = pend.vol
                        /\ boxes'[pend.box].state = "created"
    BY <1>2, <2>1 DEF Preparing
  <2>3. ASSUME pc = "create", ~pend.reused
        PROVE  /\ \A c \in Ids' : boxes'[c].vol # pend.vol
               /\ \A l \in Services : ws'[l].vol = pend.vol => ws'[l].installed = 0
    <3>1. \A c \in Ids : boxes[c].vol # pend.vol
      BY <2>3 DEF Preparing
    <3>2. v # pend.vol
      BY <3>1
    <3>3. \A l \in Services : ws[l].vol = pend.vol => ws[l].installed = 0
      BY <2>3 DEF Preparing
    <3> QED
      BY <1>2, <1>10, <3>1, <3>2, <3>3
  <2>4. pc \in {"create", "start"} => pend.vol \in 1..Len(content')
    BY <1>4 DEF Preparing
  <2> QED
    BY <1>1, <2>2, <2>3, <2>4 DEF Preparing
<1>13. Trusted'
  <2> SUFFICES ASSUME ~stopped
               PROVE  /\ \A c \in Ids' : boxes'[c].reused =>
                           content'[boxes'[c].vol] = boxes'[c].sig /\ Still(boxes'[c].vol)
                      /\ \A l \in Services : ws'[l].installed # 0 =>
                           ws'[l].vol # 0 /\ content'[ws'[l].vol] = ws'[l].installed /\ Still(ws'[l].vol)
                      /\ pc = "create" => pend.vol \in vols
                      /\ pc = "create" /\ pend.reused => content'[pend.vol] = want[cur] /\ Still(pend.vol)
                      /\ pc \notin {"ending", "over"} =>
                           \A l \in Services : ws'[l].vol # 0 => ws'[l].vol \in vols
    BY <1>1 DEF Trusted, Written, Still
  <2>1. ASSUME NEW c \in Ids', boxes'[c].reused
        PROVE  content'[boxes'[c].vol] = boxes'[c].sig /\ Still(boxes'[c].vol)
    <3>1. c \in Ids /\ boxes[c].reused
      BY <1>2, <2>1
    <3>2. /\ boxes[c].vol \in 1..Len(content) /\ content[boxes[c].vol] = boxes[c].sig
          /\ Written(boxes[c].vol)
      BY <1>0, <3>1 DEF Mounts, Trusted
    <3> QED
      BY <1>2, <1>8, <3>1, <3>2
  <2>2. ASSUME NEW l \in Services, ws'[l].installed # 0
        PROVE  ws'[l].vol # 0 /\ content'[ws'[l].vol] = ws'[l].installed /\ Still(ws'[l].vol)
    <3>1. CASE ws'[l].installed = ws[l].installed
      <4>1. ws[l].vol # 0 /\ content[ws[l].vol] = ws[l].installed /\ Written(ws[l].vol)
        BY <2>2, <3>1 DEF Trusted
      <4>2. ws[l].vol \in 1..Len(content)
        BY <1>0, <4>1 DEF Workspaces
      <4> QED
        BY <1>8, <1>10, <3>1, <4>1, <4>2
    <3>2. CASE ws'[l].vol = v /\ InstallOk(b) /\ ws'[l].installed = boxes[b].sig
      <4>1. CASE boxes[b].state = "installing"
        <5>1. content'[v] = boxes[b].sig
          BY <1>0, <1>3, <3>2, <4>1 DEF InstallOk
        <5>2. ~boxes[b].reused
          BY <4>1 DEF Mounts
        <5>3. ASSUME NEW c \in Ids', boxes'[c].vol = v, Fresh(c)' PROVE FALSE
          <6>1. c \in Ids /\ c # b /\ boxes[c].vol = v /\ ~boxes[c].reused
            BY <1>2, <1>5, <5>3 DEF Fresh
          <6> QED
            BY <1>3, <5>2, <6>1 DEF Mounts
        <5> QED
          BY <1>3, <3>2, <5>1, <5>3 DEF Still
      <4>2. CASE boxes[b].state = "reusing"
        <5>1. boxes[b].reused
          BY <4>2 DEF Mounts
        <5>2. content[v] = boxes[b].sig /\ Written(v)
          BY <5>1 DEF Trusted
        <5> QED
          BY <1>3, <1>8, <3>2, <5>2
      <4> QED
        BY <3>2, <4>1, <4>2 DEF InstallOk
    <3> QED
      BY <1>10, <2>2, <3>1, <3>2
  <2>3. ASSUME pc = "create"
        PROVE  /\ pend.vol \in vols
               /\ pend.reused => content'[pend.vol] = want[cur] /\ Still(pend.vol)
    <3>1. pend.vol \in vols /\ pend.vol \in 1..Len(content)
      BY <2>3 DEF Trusted, Preparing
    <3>2. pend.reused => content[pend.vol] = want[cur] /\ Written(pend.vol)
      BY <2>3 DEF Trusted
    <3> QED
      BY <1>8, <3>1, <3>2
  <2>4. ASSUME pc \notin {"ending", "over"}
        PROVE  \A l \in Services : ws'[l].vol # 0 => ws'[l].vol \in vols
    BY <1>10, <2>4 DEF Trusted
  <2> QED
    BY <2>1, <2>2, <2>3, <2>4
<1> QED
  BY <1>9, <1>11, <1>12, <1>13

\* The choice of a workspace, new, kept or cleared, keeps the reuse.
LEMMA WorkspaceReuse ==
  ASSUME TypeOK, Bounded, Filled, Reuse, Workspace
  PROVE  Reuse'
<1> USE DEF Reuse, boxVars
<1> DEFINE k == Key(cur)
           old == ws[k].vol
           new == Len(content) + 1
           Still(u) == \A c \in Ids' : boxes'[c].vol = u => ~Fresh(c)'
<1>0. /\ content \in Seq(Nat) /\ ws \in [Services -> [vol : Nat, installed : {0} \cup Installs]]
      /\ want \in [Services -> Installs]
  BY DEF TypeOK, TypeRun, TypeDisk
<1>1. /\ UNCHANGED <<boxes, cur, want, stopped>> /\ pc = "launch" /\ pc' = "create"
  BY DEF Workspace
<1>2. cur \in Services /\ k \in Services /\ want[cur] # 0
  <2>1. cur \in Services
    BY <1>1 DEF Filled, Rounds
  <2>2. k \in Services
    BY <2>1, BoundsAssumption DEF Key, Services
  <2> QED
    BY <1>0, <2>1, <2>2 DEF Installs
<1>3. \A u : Written(u) => Still(u)
  BY <1>1 DEF Written, Fresh, Ids
<1>4. CASE old # 0 /\ ws[k].installed = want[cur]
  <2>1. /\ UNCHANGED <<ws, vols, content>>
        /\ pend' = [vol |-> old, reused |-> TRUE, box |-> 0]
    BY <1>4 DEF Workspace
  <2>2. pend'.vol = old /\ pend'.reused
    BY <2>1
  <2>3. old \in 1..Len(content)
    BY <1>0, <1>2, <1>4 DEF Workspaces
  <2>4. Mounts' /\ Workspaces'
    BY <1>1, <2>1 DEF Mounts, Workspaces, Ids
  <2>5. Preparing'
    BY <1>1, <2>1, <2>2, <2>3 DEF Preparing
  <2>6. Trusted'
    <3> SUFFICES ASSUME ~stopped
                 PROVE  /\ \A c \in Ids : boxes[c].reused =>
                             content[boxes[c].vol] = boxes[c].sig /\ Still(boxes[c].vol)
                        /\ \A l \in Services : ws[l].installed # 0 =>
                             ws[l].vol # 0 /\ content[ws[l].vol] = ws[l].installed /\ Still(ws[l].vol)
                        /\ old \in vols /\ content[old] = want[cur] /\ Still(old)
                        /\ \A l \in Services : ws[l].vol # 0 => ws[l].vol \in vols
      BY <1>1, <2>1, <2>2 DEF Trusted, Written, Ids
    <3>1. /\ \A c \in Ids : boxes[c].reused =>
                content[boxes[c].vol] = boxes[c].sig /\ Written(boxes[c].vol)
          /\ \A l \in Services : ws[l].installed # 0 =>
                ws[l].vol # 0 /\ content[ws[l].vol] = ws[l].installed /\ Written(ws[l].vol)
          /\ \A l \in Services : ws[l].vol # 0 => ws[l].vol \in vols
      BY <1>1 DEF Trusted
    <3> HIDE DEF Still
    <3> QED
      BY <1>2, <1>3, <1>4, <3>1
  <2> QED
    BY <2>4, <2>5, <2>6
<1>5. CASE ~(old # 0 /\ ws[k].installed = want[cur])
  <2>1. /\ pend' = [vol |-> new, reused |-> FALSE, box |-> 0]
        /\ ws' = [ws EXCEPT ![k] = [vol |-> new, installed |-> 0]]
        /\ vols' = (vols \ ({old} \ Mounted)) \union {new}
        /\ content' = Append(content, 0)
    BY <1>5 DEF Workspace
  <2>2. pend'.vol = new /\ ~pend'.reused /\ new \in Nat
    BY <1>0, <2>1
  <2>3. Len(content') = new /\ \A u \in 1..Len(content) : content'[u] = content[u]
    BY <1>0, <2>1
  <2>4. /\ ws'[k].vol = new /\ ws'[k].installed = 0
        /\ \A l \in Services : l # k => ws'[l] = ws[l]
    BY <1>0, <1>2, <2>1
  <2>5. /\ \A c \in Ids : boxes[c].vol \in 0..Len(content)
        /\ \A l \in Services : ws[l].vol \in 0..Len(content)
    BY DEF Mounts, Workspaces
  <2>6. \A u \in 0..Len(content) : u # new /\ u \in 0..Len(content')
    BY <1>0, <2>3
  <2>7. Mounts'
    BY <1>1, <2>5, <2>6 DEF Mounts, Ids
  <2>8. Workspaces'
    <3>1. \A l \in Services : ws'[l].vol \in 0..Len(content')
      BY <1>0, <2>3, <2>4, <2>5, <2>6
    <3>2. ASSUME NEW l \in Services, NEW m \in Services, ws'[l].vol = ws'[m].vol, ws'[l].vol # 0
          PROVE  l = m
      BY <2>4, <2>5, <2>6, <3>2 DEF Workspaces
    <3> QED
      BY <3>1, <3>2 DEF Workspaces
  <2>9. Preparing'
    <3>1. new \in 1..Len(content')
      BY <1>0, <2>3
    <3>2. \A b \in Ids : boxes[b].vol # new
      BY <2>5, <2>6
    <3>3. \A l \in Services : ws'[l].vol = new => ws'[l].installed = 0
      BY <2>4, <2>5, <2>6
    <3> QED
      BY <1>1, <2>2, <3>1, <3>2, <3>3 DEF Preparing, Ids
  <2>10. Trusted'
    <3> SUFFICES ASSUME ~stopped
                 PROVE  /\ \A c \in Ids : boxes[c].reused =>
                             content'[boxes[c].vol] = boxes[c].sig /\ Still(boxes[c].vol)
                        /\ \A l \in Services : ws'[l].installed # 0 =>
                             ws'[l].vol # 0 /\ content'[ws'[l].vol] = ws'[l].installed
                             /\ Still(ws'[l].vol)
                        /\ new \in vols'
                        /\ \A l \in Services : ws'[l].vol # 0 => ws'[l].vol \in vols'
      BY <1>1, <2>2 DEF Trusted, Written, Ids
    <3> HIDE DEF Still
    <3>1. \A c \in Ids : boxes[c].reused =>
            content'[boxes[c].vol] = boxes[c].sig /\ Still(boxes[c].vol)
      <4>1. \A c \in Ids : boxes[c].reused =>
              boxes[c].vol # 0 /\ content[boxes[c].vol] = boxes[c].sig /\ Written(boxes[c].vol)
        BY DEF Trusted, Mounts
      <4> QED
        BY <1>0, <1>3, <2>3, <2>5, <4>1
    <3>2. ASSUME NEW l \in Services, ws'[l].installed # 0
          PROVE  ws'[l].vol # 0 /\ content'[ws'[l].vol] = ws'[l].installed /\ Still(ws'[l].vol)
      <4>1. ws'[l] = ws[l]
        BY <2>4, <3>2
      <4>2. ws[l].vol # 0 /\ content[ws[l].vol] = ws[l].installed /\ Written(ws[l].vol)
        BY <3>2, <4>1 DEF Trusted
      <4>3. ws[l].vol \in 1..Len(content)
        BY <1>0, <2>5, <4>2
      <4> QED
        BY <1>3, <2>3, <4>1, <4>2, <4>3
    <3>3. ASSUME NEW l \in Services, ws'[l].vol # 0 PROVE ws'[l].vol \in vols'
      <4>1. CASE l = k
        BY <2>1, <2>4, <4>1
      <4>2. CASE l # k
        <5>1. ws'[l].vol = ws[l].vol /\ ws[l].vol # 0 /\ ws[l].vol \in vols
          BY <1>1, <2>4, <3>3, <4>2 DEF Trusted
        <5>2. ws[l].vol # old
          BY <1>2, <4>2, <5>1 DEF Workspaces
        <5> QED
          BY <2>1, <5>1, <5>2
      <4> QED
        BY <4>1, <4>2
    <3>4. new \in vols'
      BY <2>1
    <3> QED
      BY <3>1, <3>2, <3>3, <3>4
  <2> QED
    BY <2>7, <2>8, <2>9, <2>10
<1> QED
  BY <1>4, <1>5

\* A container made skips its install only where it was done.
LEMMA CreateReuse ==
  ASSUME TypeOK, Bounded, Filled, Reuse, pc = "create", pc' = "start", CreateService
  PROVE  Reuse'
<1> USE DEF Reuse
<1> DEFINE x == NewBox("service", cur, pend.vol, want[cur], pend.reused)
           n == Len(boxes) + 1
           Still(u) == \A c \in Ids' : boxes'[c].vol = u => ~Fresh(c)'
<1>0. /\ boxes \in Seq(BoxRecords) /\ content \in Seq(Nat) /\ Len(boxes) \in Nat
      /\ pend \in [vol : Nat, reused : BOOLEAN, box : Nat]
  BY DEF TypeOK, TypeBoxes, TypeNames, TypeDisk
<1>1. ~Thrown
  BY DEF Thrown
<1>2. /\ boxes' = Append(boxes, x) /\ pend' = [pend EXCEPT !.box = n]
      /\ vols' = vols \union {pend.vol}
      /\ content' = IF pend.vol \in vols THEN content ELSE [content EXCEPT ![pend.vol] = 0]
      /\ UNCHANGED <<ws, stopped>>
  BY <1>1, Throws DEF CreateService
<1>3. /\ x.vol = pend.vol /\ x.sig = want[cur] /\ x.reused = pend.reused /\ x.state = "created"
      /\ x \in BoxRecords
  <2>1. cur \in Services
    BY DEF Filled, Rounds
  <2>2. want[cur] \in Installs /\ cur \in Nat
    BY <2>1 DEF TypeOK, TypeRun, Services
  <2> QED
    BY <1>0, <2>2 DEF NewBox, BoxRecords, States, Held, Live
<1> HIDE DEF x
<1>4. Ids' = Ids \cup {n} /\ n \notin Ids /\ boxes'[n] = x /\ \A c \in Ids : boxes'[c] = boxes[c]
  BY <1>0, <1>2, <1>3, AddOne DEF Ids
<1>5. pend'.vol = pend.vol /\ pend'.reused = pend.reused /\ pend'.box = n
  BY <1>0, <1>2
<1>6. pend.vol \in 1..Len(content) /\ pend.vol # 0
  BY <1>0 DEF Preparing
<1>7. Len(content') = Len(content) /\ (~stopped => content' = content)
  <2>1. ~stopped => pend.vol \in vols
    BY DEF Trusted
  <2> QED
    BY <1>0, <1>2, <1>6, <2>1
<1>8. ~pend.reused => /\ \A b \in Ids : boxes[b].vol # pend.vol
                      /\ \A l \in Services : ws[l].vol = pend.vol => ws[l].installed = 0
  BY DEF Preparing
<1>9. Mounts'
  <2>1. ASSUME NEW b \in Ids'
        PROVE  /\ boxes'[b].vol \in 0..Len(content')
               /\ boxes'[b].state \in {"installing", "reusing"} \/ boxes'[b].reused => boxes'[b].vol # 0
               /\ boxes'[b].reused => boxes'[b].state # "installing"
               /\ boxes'[b].state = "reusing" => boxes'[b].reused
    <3>1. CASE b \in Ids
      BY <1>4, <1>7, <3>1 DEF Mounts
    <3>2. CASE b = n
      BY <1>0, <1>3, <1>4, <1>6, <1>7, <3>2
    <3> QED
      BY <1>4, <3>1, <3>2
  <2>2. ASSUME NEW b \in Ids', NEW c \in Ids', boxes'[b].vol = boxes'[c].vol, boxes'[b].vol # 0,
               ~boxes'[b].reused, ~boxes'[c].reused
        PROVE  b = c
    BY <1>3, <1>4, <1>8, <2>2 DEF Mounts
  <2> QED
    BY <2>1, <2>2 DEF Mounts
<1>10. Workspaces'
  BY <1>2, <1>7 DEF Workspaces
<1>11. Preparing'
  BY <1>3, <1>4, <1>5, <1>6, <1>7 DEF Preparing
<1>12. Trusted'
  <2> SUFFICES ASSUME ~stopped
               PROVE  /\ \A c \in Ids' : boxes'[c].reused =>
                           content[boxes'[c].vol] = boxes'[c].sig /\ Still(boxes'[c].vol)
                      /\ \A l \in Services : ws[l].installed # 0 =>
                           ws[l].vol # 0 /\ content[ws[l].vol] = ws[l].installed /\ Still(ws[l].vol)
                      /\ \A l \in Services : ws[l].vol # 0 => ws[l].vol \in vols'
    BY <1>2, <1>7 DEF Trusted, Written
  <2>1. \A u : Written(u) /\ (u = pend.vol => pend.reused) => Still(u)
    BY <1>3, <1>4 DEF Written, Fresh
  <2> HIDE DEF Still
  <2>2. ASSUME NEW c \in Ids', boxes'[c].reused
        PROVE  content[boxes'[c].vol] = boxes'[c].sig /\ Still(boxes'[c].vol)
    <3>1. CASE c \in Ids
      <4>1. content[boxes[c].vol] = boxes[c].sig /\ Written(boxes[c].vol) /\ boxes'[c] = boxes[c]
        BY <1>4, <2>2, <3>1 DEF Trusted
      <4> QED
        BY <1>8, <2>1, <3>1, <4>1
    <3>2. CASE c = n
      <4>1. content[pend.vol] = want[cur] /\ Written(pend.vol) /\ pend.reused
        BY <1>3, <1>4, <2>2, <3>2 DEF Trusted
      <4> QED
        BY <1>3, <1>4, <2>1, <3>2, <4>1
    <3> QED
      BY <1>4, <3>1, <3>2
  <2>3. ASSUME NEW l \in Services, ws[l].installed # 0
        PROVE  ws[l].vol # 0 /\ content[ws[l].vol] = ws[l].installed /\ Still(ws[l].vol)
    <3>1. ws[l].vol # 0 /\ content[ws[l].vol] = ws[l].installed /\ Written(ws[l].vol)
      BY <2>3 DEF Trusted
    <3> QED
      BY <1>8, <2>1, <2>3, <3>1
  <2>4. \A l \in Services : ws[l].vol # 0 => ws[l].vol \in vols'
    BY <1>2 DEF Trusted
  <2> QED
    BY <2>2, <2>3, <2>4
<1> QED
  BY <1>9, <1>10, <1>11, <1>12

\* The volumes are taken away when the launch is over or stopped, and no longer relied on.
LEMMA ReleaseReuse ==
  ASSUME TypeOK, Control, Reuse, NEW a \in Actors, ReleaseWorkspaces(a)
  PROVE  Reuse'
<1> USE DEF Reuse
<1>1. /\ UNCHANGED <<boxes, content, pend, pc, want, cur, stopped>>
      /\ ws' = [s \in Services |-> [vol |-> 0, installed |-> 0]]
  BY DEF ReleaseWorkspaces, runVars, boxVars
<1>2. stopped \/ pc \in {"ending", "over"}
  BY DEF ReleaseWorkspaces, Control, Actors
<1>3. \A l \in Services : ws'[l].vol = 0 /\ ws'[l].installed = 0
  BY <1>1
<1>4. Mounts' /\ Preparing'
  BY <1>1, <1>3 DEF Mounts, Preparing, Ids
<1>5. Workspaces'
  <2>1. 0 \in 0..Len(content)
    BY DEF TypeOK, TypeDisk
  <2> QED
    BY <1>1, <1>3, <2>1 DEF Workspaces
<1>6. Trusted'
  BY <1>1, <1>2, <1>3 DEF Trusted, Written, Fresh, Ids
<1> QED
  BY <1>4, <1>5, <1>6

\* Every step keeps the reuse.
LEMMA ReuseKept ==
  ASSUME TypeOK, Bounded, Filled, Control, Reuse, Next
  PROVE  Reuse'
<1> DEFINE Goal == Reuse'
<1> SUFFICES Goal
  OBVIOUS
<1> USE DEF runVars, boxVars, diskVars
<1>1. ASSUME UNCHANGED <<ws, content, vols>>, stopped => stopped',
             pc \in {"ending", "over"} => pc' \in {"ending", "over"},
             pc' \notin {"create", "start"} \/ UNCHANGED <<pc, cur, pend, want>>
      PROVE  Goal
  <2>1. Moves
    BY <1>1, MovesKinds DEF Reuse
  <2> QED
    BY <1>1, <2>1, QuietStep DEF Quiet
<1>2. pc \in {"ending", "over"} <=> undo["launch"] # "idle"
  BY DEF Control
<1>3. ASSUME Thrown, UNCHANGED <<ws, content, vols, stopped>> PROVE Goal
  BY <1>1, <1>3 DEF Thrown
<1> HIDE DEF Goal
<1>4. ASSUME NEW b \in Ids, InstallOk(b) \/ InstallFailed(b) PROVE Goal
  BY <1>4, MarkedReuse DEF Goal
<1>5. ASSUME NEW b \in Ids, Starts(b) \/ Dies(b) PROVE Goal
  BY <1>1, <1>5 DEF Starts, Dies
<1>6. ASSUME NEW a \in Actors, Undoing(a) PROVE Goal
  <2>1. CASE ReleaseWorkspaces(a)
    BY <2>1, ReleaseReuse DEF Goal
  <2>2. CASE ~ReleaseWorkspaces(a)
    <3>1. UNCHANGED <<pc, cur, pend, want, ws, content, vols, stopped>>
      BY <1>6, <2>2 DEF Undoing, NextService, NextDatabase, Removed, CleanedUp, ReleaseNetwork,
                        RemoveNetwork
    <3> QED
      BY <1>1, <3>1
  <2> QED
    BY <2>1, <2>2
<1>7. CASE Stop \/ CleanupOver
  BY <1>1, <1>7 DEF Stop, CleanupOver
<1>8. CASE TornDown
  BY <1>1, <1>8 DEF TornDown
<1>9. CASE CreateDatabase \/ StartDatabase \/ DatabaseReady \/ Fallback \/ Provisioned
  <2>1. UNCHANGED <<ws, content, vols, stopped>> /\ pc' \notin {"create", "start"}
    BY <1>9 DEF CreateDatabase, StartDatabase, DatabaseReady, Fallback, Provisioned, Goto
  <2>2. pc \notin {"ending", "over"}
    BY <1>9 DEF CreateDatabase, StartDatabase, DatabaseReady, Fallback, Provisioned
  <2> QED
    BY <1>1, <2>1, <2>2
<1>10. CASE Unprovision \/ Begin
  <2>1. UNCHANGED <<ws, content, vols, stopped>> /\ pc \notin {"ending", "over"}
    BY <1>10 DEF Unprovision, Begin
  <2>2. Thrown \/ pc' \in {"unprovision", "ready", "launch"}
    BY <1>10, Throws DEF Unprovision, Begin, Goto
  <2> QED
    BY <1>1, <1>3, <2>1, <2>2
<1>11. CASE Workspace
  BY <1>11, WorkspaceReuse DEF Goal
<1>12. CASE CreateService
  <2>1. CASE pc' = "start"
    BY <1>12, <2>1, CreateReuse DEF Goal, CreateService
  <2>2. CASE pc' # "start"
    <3>1. Thrown /\ UNCHANGED <<ws, content, vols, stopped>>
      BY <1>12, <2>2, Throws DEF CreateService
    <3> QED
      BY <1>3, <3>1
  <2> QED
    BY <2>1, <2>2
<1>13. CASE StartService \/ Drop \/ Replace \/ Unrestart \/ Launched
  <2>1. UNCHANGED <<ws, content, vols, stopped>> /\ pc \notin {"ending", "over"}
    BY <1>13 DEF StartService, Drop, Replace, Unrestart, Launched
  <2>2. Thrown \/ pc' \notin {"create", "start"}
    BY <1>13, Throws DEF StartService, Drop, Replace, Unrestart, Launched, Goto
  <2> QED
    BY <1>1, <1>3, <2>1, <2>2
<1>14. CASE Gate \/ InstallDied \/ Verified
  <2>1. UNCHANGED <<ws, content, vols, stopped>> /\ pc \notin {"ending", "over"}
    BY <1>14 DEF Gate, InstallDied, Verified
  <2>2. Thrown \/ pc' \notin {"create", "start"}
    BY <1>14, Throws DEF Gate, InstallDied, Verified, Restart, Proceed, Died, Goto
  <2> QED
    BY <1>1, <1>3, <2>1, <2>2
<1>15. ASSUME NEW s \in Started, Readiness(s) PROVE Goal
  BY <1>1, <1>15 DEF Readiness
<1>16. ASSUME Launch PROVE Goal
  BY <1>7, <1>8, <1>9, <1>10, <1>11, <1>12, <1>13, <1>14, <1>15, <1>16 DEF Launch
<1> QED
  BY <1>4, <1>5, <1>6, <1>7, <1>16 DEF Next, Container

\* Nothing is reused at first.
LEMMA ReuseInit == Init => Reuse
<1> SUFFICES ASSUME Init PROVE Reuse
  OBVIOUS
<1>1. Ids = {} /\ Len(content) = 0
  BY DEF Init, Ids
<1>2. \A k \in Services : ws[k].vol = 0 /\ ws[k].installed = 0
  BY DEF Init
<1>3. pc = "databases"
  BY DEF Init
<1> QED
  BY <1>1, <1>2, <1>3 DEF Reuse, Mounts, Preparing, Workspaces, Trusted

\* Every step, and a stutter, keep the reuse.
LEMMA ReuseNext == IInv /\ Reuse /\ [Next]_vars => Reuse'
<1> SUFFICES ASSUME IInv, Reuse, [Next]_vars PROVE Reuse'
  OBVIOUS
<1> USE DEF IInv
<1>1. CASE Next
  BY <1>1, ReuseKept
<1>2. CASE UNCHANGED vars
  BY <1>2 DEF vars, runVars, boxVars, diskVars, Reuse, Mounts, Preparing, Workspaces, Trusted, Written,
              Fresh, Ids
<1> QED
  BY <1>1, <1>2

\* A container that skips its install mounts a workspace in which that very install has
\* finished, and in which no other container is installing: whatever finished, was
\* restarted or was removed between the choice of the workspace and the container's start,
\* and whichever repair changed the install command meanwhile.
THEOREM ReuseIsSound == Spec => []ReusedIsInstalled
<1>1. Init => Reuse
  BY ReuseInit
<1>2. IInv /\ Reuse /\ [Next]_vars => Reuse'
  BY ReuseNext
<1>3. ASSUME Reuse PROVE ReusedIsInstalled
  <2> SUFFICES ASSUME NEW b \in Ids, boxes[b].reused, ~stopped
               PROVE  /\ content[boxes[b].vol] = boxes[b].sig
                      /\ \A c \in Ids : boxes[c].vol = boxes[b].vol => boxes[c].state # "installing"
    BY DEF ReusedIsInstalled
  <2>1. content[boxes[b].vol] = boxes[b].sig /\ Written(boxes[b].vol)
    BY <1>3 DEF Reuse, Trusted
  <2>2. ASSUME NEW c \in Ids, boxes[c].vol = boxes[b].vol PROVE boxes[c].state # "installing"
    BY <1>3, <2>1, <2>2 DEF Written, Fresh, Reuse, Mounts
  <2> QED
    BY <2>1, <2>2
<1> QED
  BY <1>1, <1>2, <1>3, LaunchInv, PTL DEF Spec
=============================================================================
