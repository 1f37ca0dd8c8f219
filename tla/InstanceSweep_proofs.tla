----------------------- MODULE InstanceSweep_proofs -----------------------
(***************************************************************************)
(* For any number of processes and deployments: a process that has swept   *)
(* has removed every container it found orphaned when it started, and one  *)
(* that takes requests has settled every record of a process that was gone *)
(* then.                                                                   *)
(***************************************************************************)
EXTENDS InstanceSweep, TLAPS

\* A deployment whose process is gone for good: no pid of it answers.
Left(d) == owner[d] \in Procs /\ phase[owner[d]] \in Gone /\ owner[d] \notin reused

\* Every deployment's process has been started.
OwnersStarted == \A d \in Deployments : owner[d] \in Procs => phase[owner[d]] # "new"

\* A process not started yet has read nothing.
Unread(p) == phase[p] = "new" => live[p] = {}

\* What p found left when it started is still left, and not taken for a living process's.
StaysLeft(p) == \A d \in bereft[p] : Left(d) /\ owner[d] \notin live[p]

OldBoxes(p) == \A d \in orphaned[p] : d \in bereft[p] /\ box[d] \in {"live", "gone"}

\* Once p has listed the containers, those it found are on its list or removed;
Listed(p) ==
  phase[p] = "removing" /\ "docker" \notin met[p] =>
    \A d \in orphaned[p] \ refused[p] : box[d] = "live" => d \in toRemove[p]

Cleared(p) ==
  Swept(p) /\ "docker" \notin met[p] => \A d \in orphaned[p] \ refused[p] : box[d] # "live"

\* and once it has listed the records, so are those.
ToSettle(p) ==
  phase[p] = "marking" /\ "records" \notin met[p] => \A d \in bereft[p] : record[d] = "running" => d \in toMark[p]

AllSettled(p) ==
  phase[p] \in {"up"} \cup Closing /\ "records" \notin met[p] => \A d \in bereft[p] : record[d] # "running"

SweepInv(p) ==
  /\ Unread(p) /\ StaysLeft(p) /\ OldBoxes(p)
  /\ Listed(p) /\ Cleared(p) /\ ToSettle(p) /\ AllSettled(p)

IInv == TypeOK /\ OwnersStarted /\ \A p \in Procs : SweepInv(p)

-----------------------------------------------------------------------------

\* What a process met is only added to, and only by its own step.
LEMMA MetGrows ==
  ASSUME TypeOK, NEW p \in Procs, NEW fault, NEW harmed,
         UNCHANGED met \/ Meets(p, fault, harmed)
  PROVE  /\ met' \in [Procs -> SUBSET Faults]
         /\ met[p] \subseteq met'[p]
         /\ \A q \in Procs \ {p} : met'[q] = met[q]
         /\ fault \notin met'[p] => UNCHANGED met \/ harmed = {}
<1>1. CASE UNCHANGED met
  BY <1>1 DEF TypeOK
<1>2. CASE Meets(p, fault, harmed)
  <2>1. CASE harmed = {}
    BY <1>2, <2>1 DEF Meets, TypeOK
  <2>2. CASE harmed # {}
    <3>1. met' = [met EXCEPT ![p] = @ \cup {fault}] /\ fault \in Faults
      BY <1>2, <2>2 DEF Meets
    <3> QED
      BY <2>2, <3>1 DEF TypeOK
  <2> QED
    BY <2>1, <2>2
<1> QED
  BY <1>1, <1>2

\* Every variable keeps its type, for any number of processes and deployments.
THEOREM TypeCorrect == Spec => []TypeOK
<1> USE BoundsAssumption, FaultsAssumption
    DEF Phases, Starting, Closing, Gone, Goes, startVars, deployVars, histVars, faultVars, leftVars
<1>1. Init => TypeOK
  BY DEF Init, TypeOK
<1>2. TypeOK /\ [Next]_vars => TypeOK'
  <2> SUFFICES ASSUME TypeOK, [Next]_vars PROVE TypeOK'
    OBVIOUS
  <2>1. ASSUME NEW p \in Procs, Start(p) PROVE TypeOK'
    <3>1. met' \in [Procs -> SUBSET Faults]
      BY <2>1, MetGrows DEF Start
    <3>2. toRead' \in [Procs -> SUBSET Procs]
      <4>1. PICK some \in SUBSET Procs : toRead' = [toRead EXCEPT ![p] = some]
        <5>1. CASE UNCHANGED toRead
          BY <5>1 DEF TypeOK
        <5>2. CASE toRead' = [toRead EXCEPT ![p] = {q \in Procs : file[q] # "none"}]
          BY <5>2
        <5> QED
          BY <2>1, <5>1, <5>2 DEF Start
      <4> QED
        BY <4>1 DEF TypeOK
    <3>3. known' \in [Procs -> SUBSET Procs]
      <4>1. known' = [known EXCEPT ![p] = {q \in Procs : Alive(q) /\ file[q] = "written"}]
        BY <2>1 DEF Start
      <4> QED
        BY <4>1 DEF TypeOK
    <3>4. /\ bereft' \in [Procs -> SUBSET Deployments]
          /\ orphaned' \in [Procs -> SUBSET Deployments]
      <4>1. Bereft \in SUBSET Deployments /\ {d \in Bereft : box[d] = "live"} \in SUBSET Deployments
        BY DEF Bereft
      <4>2. /\ bereft' = [bereft EXCEPT ![p] = Bereft]
            /\ orphaned' = [orphaned EXCEPT ![p] = {d \in Bereft : box[d] = "live"}]
        BY <2>1 DEF Start
      <4> QED
        BY <4>1, <4>2 DEF TypeOK
    <3>5. /\ phase[p] = "new" /\ phase' = [phase EXCEPT ![p] = "reading"]
          /\ UNCHANGED <<file, stale, live, toRemove, toMark, list, flush, deployVars, record,
                         reused, refused, unsaved, lost, late>>
      BY <2>1 DEF Start
    <3> QED
      BY <3>1, <3>2, <3>3, <3>4, <3>5 DEF TypeOK
  <2>2. ASSUME NEW p \in Procs, NEW q \in Procs, ReadFile(p, q) PROVE TypeOK'
    <3>1. CASE UNCHANGED stale
      BY <2>2, <3>1 DEF TypeOK, ReadFile
    <3>2. CASE stale' = [stale EXCEPT ![p] = q] /\ UNCHANGED live
      BY <2>2, <3>2 DEF TypeOK, ReadFile
    <3> QED
      BY <2>2, <3>1, <3>2 DEF ReadFile
  <2>3. ASSUME NEW p \in Procs, RemoveFile(p) PROVE TypeOK'
    <3>1. stale' \in [Procs -> Procs \cup {Nobody}] /\ stale'[p] = Nobody
      BY <2>3 DEF TypeOK, RemoveFile
    <3>2. met' \in [Procs -> SUBSET Faults]
      BY <2>3, MetGrows DEF RemoveFile
    <3>3. /\ file' \in [Procs -> {"none", "empty", "written"}]
          /\ lost' \in SUBSET Procs
      <4>1. CASE UNCHANGED <<file, lost>>
        BY <4>1 DEF TypeOK
      <4>2. CASE file' = [file EXCEPT ![stale[p]] = "none"]
        BY <2>3, <4>2 DEF TypeOK, RemoveFile
      <4> QED
        BY <2>3, <4>1, <4>2 DEF RemoveFile
    <3>4. toRead' \in [Procs -> SUBSET Procs] /\ live' \in [Procs -> SUBSET Procs]
      <4>1. CASE UNCHANGED <<toRead, live>>
        BY <4>1 DEF TypeOK
      <4>2. CASE toRead' = [toRead EXCEPT ![p] = {}] /\ live' = [live EXCEPT ![p] = {}]
        BY <4>2 DEF TypeOK
      <4> QED
        BY <2>3, <4>1, <4>2 DEF RemoveFile
    <3>5. phase[p] = "reading" /\ \A q \in Procs \ {p} : stale'[q] = stale[q]
      BY <2>3 DEF TypeOK, RemoveFile
    <3>6. phase' \in [Procs -> Phases] /\ \A q \in Procs \ {p} : phase'[q] = phase[q]
      <4>1. CASE phase' = phase
        BY <4>1 DEF TypeOK
      <4>2. CASE phase' = [phase EXCEPT ![p] = "registering"]
        BY <4>2 DEF TypeOK
      <4> QED
        BY <2>3, <4>1, <4>2 DEF RemoveFile
    <3> QED
      BY <2>3, <3>1, <3>2, <3>3, <3>4, <3>5, <3>6 DEF TypeOK, RemoveFile
  <2>4. ASSUME NEW p \in Procs, RegisterOpen(p) PROVE TypeOK'
    <3>2. phase' \in [Procs -> Phases] /\ \A q \in Procs \ {p} : phase'[q] = phase[q]
      <4>1. PICK ph \in {"writing", "listing"} : phase' = [phase EXCEPT ![p] = ph]
        BY <2>4 DEF RegisterOpen
      <4> QED
        BY <4>1 DEF TypeOK
    <3>3. file' \in [Procs -> {"none", "empty", "written"}]
      BY <2>4 DEF TypeOK, RegisterOpen
    <3>4. phase[p] \in {"reading", "registering"} /\ stale[p] = Nobody
      BY <2>4 DEF TypeOK, RegisterOpen
    <3> QED
      BY <2>4, <3>2, <3>3, <3>4 DEF TypeOK, RegisterOpen
  <2>5. ASSUME NEW p \in Procs, RegisterWrite(p) PROVE TypeOK'
    BY <2>5 DEF TypeOK, RegisterWrite
  <2>6. ASSUME NEW p \in Procs, ListBoxes(p) PROVE TypeOK'
    <3>1. met' \in [Procs -> SUBSET Faults]
      BY <2>6, MetGrows DEF ListBoxes
    <3>2. toRemove' \in [Procs -> SUBSET Deployments]
      BY <2>6 DEF TypeOK, ListBoxes, Orphans
    <3>3. /\ phase[p] = "listing" /\ phase' = [phase EXCEPT ![p] = "removing"]
          /\ \A q \in Procs \ {p} : toRemove'[q] = toRemove[q]
      BY <2>6 DEF TypeOK, ListBoxes
    <3>4. UNCHANGED <<file, startVars, list, flush, deployVars, record, reused, refused, unsaved,
                      lost, leftVars, late>>
      BY <2>6 DEF ListBoxes
    <3> QED
      BY <3>1, <3>2, <3>3, <3>4 DEF TypeOK
  <2>7. ASSUME NEW p \in Procs, ListRecords(p) PROVE TypeOK'
    <3>1. met' \in [Procs -> SUBSET Faults]
      BY <2>7, MetGrows DEF ListRecords
    <3>2. PICK some \in SUBSET Deployments : toMark' = [toMark EXCEPT ![p] = some]
      BY <2>7 DEF ListRecords, Orphans
    <3>3. phase' = [phase EXCEPT ![p] = "marking"] /\ phase[p] = "removing" /\ toRemove[p] = {}
      BY <2>7 DEF ListRecords
    <3> QED
      BY <2>7, <3>1, <3>2, <3>3 DEF TypeOK, ListRecords
  <2>8. ASSUME NEW p \in Procs, NEW d \in Deployments, RemoveBox(p, d) PROVE TypeOK'
    <3>1. /\ box' \in [Deployments -> {"none", "asked", "live", "gone"}]
          /\ refused' \in [Procs -> SUBSET Deployments]
      <4>1. CASE box' = [box EXCEPT ![d] = "gone"] /\ UNCHANGED refused
        BY <4>1 DEF TypeOK
      <4>2. CASE refused' = [refused EXCEPT ![p] = @ \cup {d}] /\ UNCHANGED box
        BY <4>2 DEF TypeOK
      <4> QED
        BY <2>8, <4>1, <4>2 DEF RemoveBox
    <3>2. toRemove' \in [Procs -> SUBSET Deployments] /\ \A q \in Procs : toRemove'[q] \subseteq toRemove[q]
      BY <2>8 DEF TypeOK, RemoveBox
    <3>3. UNCHANGED <<phase, file, startVars, list, flush, owner, mem, dirty, record, reused, met,
                      unsaved, lost, leftVars, late>>
      BY <2>8 DEF RemoveBox
    <3> QED
      BY <3>1, <3>2, <3>3 DEF TypeOK
  <2>9. ASSUME NEW p \in Procs, NEW d \in Deployments, Mark(p, d) PROVE TypeOK'
    <3>1. met' \in [Procs -> SUBSET Faults]
      BY <2>9, MetGrows DEF Mark
    <3>2. PICK some \in SUBSET Deployments : toMark' = [toMark EXCEPT ![p] = some]
      <4>1. CASE toMark' = [toMark EXCEPT ![p] = @ \ {d}]
        BY <4>1 DEF TypeOK
      <4>2. CASE toMark' = [toMark EXCEPT ![p] = {}]
        BY <4>2
      <4> QED
        BY <2>9, <4>1, <4>2 DEF Mark
    <3>3. record' \in [Deployments -> {"none", "running", "ended", "interrupted"}]
      <4>1. CASE record' = [record EXCEPT ![d] = "interrupted"]
        BY <4>1 DEF TypeOK
      <4>2. CASE UNCHANGED record
        BY <4>2 DEF TypeOK
      <4> QED
        BY <2>9, <4>1, <4>2 DEF Mark
    <3>4. /\ phase[p] = "marking"
          /\ UNCHANGED <<phase, file, toRead, stale, live, toRemove, list, flush, deployVars,
                         reused, refused, unsaved, lost, leftVars, late>>
      BY <2>9 DEF Mark
    <3> QED
      BY <3>1, <3>2, <3>3, <3>4 DEF TypeOK
  <2>10. ASSUME NEW p \in Procs, Listen(p) PROVE TypeOK'
    BY <2>10 DEF TypeOK, Listen
  <2>11. ASSUME NEW p \in Procs, Close(p) PROVE TypeOK'
    BY <2>11 DEF TypeOK, Close, Of
  <2>12. ASSUME NEW p \in Procs, Cancelled(p) PROVE TypeOK'
    BY <2>12 DEF TypeOK, Cancelled, Of
  <2>13. ASSUME NEW p \in Procs, Flushed(p) PROVE TypeOK'
    BY <2>13 DEF TypeOK, Flushed
  <2>14. ASSUME NEW p \in Procs, ListOwnBoxes(p) PROVE TypeOK'
    <3>1. met' \in [Procs -> SUBSET Faults]
      BY <2>14, MetGrows DEF ListOwnBoxes
    <3>2. PICK some \in SUBSET Deployments : toRemove' = [toRemove EXCEPT ![p] = some]
      BY <2>14 DEF ListOwnBoxes, Of, TypeOK
    <3>3. phase' = [phase EXCEPT ![p] = "ownRemoving"] /\ phase[p] = "ownListing"
      BY <2>14 DEF ListOwnBoxes
    <3> QED
      BY <2>14, <3>1, <3>2, <3>3 DEF TypeOK, ListOwnBoxes
  <2>15. ASSUME NEW p \in Procs, Unregister(p) PROVE TypeOK'
    <3>1. file' \in [Procs -> {"none", "empty", "written"}]
      <4>1. CASE file' = [file EXCEPT ![p] = "none"]
        BY <4>1 DEF TypeOK
      <4>2. CASE UNCHANGED file
        BY <4>2 DEF TypeOK
      <4> QED
        BY <2>15, <4>1, <4>2 DEF Unregister
    <3>2. /\ phase[p] = "ownRemoving" /\ phase' = [phase EXCEPT ![p] = "unregistering"]
          /\ toRemove[p] = {}
          /\ UNCHANGED <<startVars, toRemove, list, flush, deployVars, record, histVars>>
      BY <2>15 DEF Unregister
    <3> QED
      BY <3>1, <3>2 DEF TypeOK
  <2>16. ASSUME NEW p \in Procs, Exit(p) PROVE TypeOK'
    <3>1. met' \in [Procs -> SUBSET Faults] /\ reused' \in SUBSET Procs
      BY <2>16 DEF TypeOK, Exit, PidReused
    <3>2. /\ mem' \in [Deployments -> {"none", "running", "ended"}]
          /\ dirty' \in [Deployments -> BOOLEAN]
          /\ \A d \in Deployments : owner[d] = Nobody => mem'[d] = "none"
      BY <2>16 DEF TypeOK, Exit, Forgets
    <3> QED
      BY <2>16, <3>1, <3>2 DEF TypeOK, Exit, Forgets
  <2>17. ASSUME NEW p \in Procs, Crash(p) PROVE TypeOK'
    <3>1. /\ met' \in [Procs -> SUBSET Faults] /\ reused' \in SUBSET Procs
          /\ refused' \in [Procs -> SUBSET Deployments] /\ unsaved' \in SUBSET Deployments
      BY <2>17 DEF TypeOK, Crash, PidReused
    <3>2. /\ mem' \in [Deployments -> {"none", "running", "ended"}]
          /\ dirty' \in [Deployments -> BOOLEAN]
          /\ \A d \in Deployments : owner[d] = Nobody => mem'[d] = "none"
      BY <2>17 DEF TypeOK, Crash, Forgets
    <3> QED
      BY <2>17, <3>1, <3>2 DEF TypeOK, Crash, Forgets
  <2>18. ASSUME NEW p \in Procs, NEW d \in Deployments, Launch(p, d) PROVE TypeOK'
    BY <2>18 DEF TypeOK, Launch
  <2>19. ASSUME NEW d \in Deployments, AskBox(d) PROVE TypeOK'
    BY <2>19 DEF TypeOK, AskBox
  <2>20. ASSUME NEW d \in Deployments, BoxCreated(d) PROVE TypeOK'
    BY <2>20 DEF TypeOK, BoxCreated
  <2>21. ASSUME NEW d \in Deployments, TearDown(d) PROVE TypeOK'
    BY <2>21 DEF TypeOK, TearDown
  <2>22. ASSUME NEW d \in Deployments, Ends(d) PROVE TypeOK'
    BY <2>22 DEF TypeOK, Ends
  <2>23. ASSUME NEW d \in Deployments, Persist(d) PROVE TypeOK'
    <3>1. PICK rec \in {"none", "running", "ended"} :
            record' = record \/ record' = [record EXCEPT ![d] = rec]
      BY <2>23 DEF TypeOK, Persist
    <3>2. record' \in [Deployments -> {"none", "running", "ended", "interrupted"}]
      BY <3>1 DEF TypeOK
    <3>3. unsaved' \in SUBSET Deployments /\ dirty' \in [Deployments -> BOOLEAN]
      BY <2>23 DEF TypeOK, Persist
    <3>4. UNCHANGED <<phase, file, startVars, toRemove, list, flush, owner, mem, box, reused, met,
                      refused, lost, leftVars, late>>
      BY <2>23 DEF Persist
    <3> QED
      BY <3>2, <3>3, <3>4 DEF TypeOK
  <2>24. CASE UNCHANGED vars
    BY <2>24 DEF TypeOK, vars
  <2> QED
    BY <2>1, <2>2, <2>3, <2>4, <2>5, <2>6, <2>7, <2>8, <2>9, <2>10, <2>11, <2>12, <2>13,
       <2>14, <2>15, <2>16, <2>17, <2>18, <2>19, <2>20, <2>21, <2>22, <2>23, <2>24
    DEF Next, Startup, Shutdown, Deployment
<1> QED
  BY <1>1, <1>2, PTL DEF Spec

-----------------------------------------------------------------------------
\* What no step undoes: a deployment left behind stays left behind and is not shown
\* running again, and a container that is gone stays gone.

Settled(d) ==
  /\ Left(d) => Left(d)' /\ owner'[d] = owner[d]
  /\ Left(d) /\ record[d] # "running" => record'[d] # "running"
  /\ box[d] \in {"live", "gone"} => box'[d] \in {"live", "gone"}
  /\ box[d] = "gone" => box'[d] = "gone"

\* What was left of a gone process is only ever taken away: a container does not come back, a record not to running.
LEMMA Settling ==
  ASSUME TypeOK, [Next]_vars, NEW d \in Deployments
  PROVE  Settled(d)
<1> USE DEF Settled, Left, Alive, Gone, Starting, Closing, Goes, startVars, deployVars, histVars, faultVars,
            leftVars, TypeOK
<1>1. ASSUME NEW p \in Procs, Start(p) PROVE Settled(d)
  BY <1>1 DEF Start
<1>2. ASSUME NEW p \in Procs, NEW q \in Procs, ReadFile(p, q) PROVE Settled(d)
  BY <1>2 DEF ReadFile
<1>3. ASSUME NEW p \in Procs, RemoveFile(p) PROVE Settled(d)
  BY <1>3 DEF RemoveFile
<1>4. ASSUME NEW p \in Procs, RegisterOpen(p) PROVE Settled(d)
  BY <1>4 DEF RegisterOpen
<1>5. ASSUME NEW p \in Procs, RegisterWrite(p) PROVE Settled(d)
  BY <1>5 DEF RegisterWrite
<1>6. ASSUME NEW p \in Procs, ListBoxes(p) PROVE Settled(d)
  BY <1>6 DEF ListBoxes
<1>7. ASSUME NEW p \in Procs, ListRecords(p) PROVE Settled(d)
  BY <1>7 DEF ListRecords
<1>8. ASSUME NEW p \in Procs, NEW e \in Deployments, RemoveBox(p, e) PROVE Settled(d)
  BY <1>8 DEF RemoveBox
<1>9. ASSUME NEW p \in Procs, NEW e \in Deployments, Mark(p, e) PROVE Settled(d)
  BY <1>9 DEF Mark
<1>10. ASSUME NEW p \in Procs, Listen(p) PROVE Settled(d)
  BY <1>10 DEF Listen
<1>11. ASSUME NEW p \in Procs, Close(p) PROVE Settled(d)
  BY <1>11 DEF Close
<1>12. ASSUME NEW p \in Procs, Cancelled(p) PROVE Settled(d)
  BY <1>12 DEF Cancelled
<1>13. ASSUME NEW p \in Procs, Flushed(p) PROVE Settled(d)
  BY <1>13 DEF Flushed
<1>14. ASSUME NEW p \in Procs, ListOwnBoxes(p) PROVE Settled(d)
  BY <1>14 DEF ListOwnBoxes
<1>15. ASSUME NEW p \in Procs, Unregister(p) PROVE Settled(d)
  BY <1>15 DEF Unregister
<1>16. ASSUME NEW p \in Procs, Exit(p) PROVE Settled(d)
  BY <1>16 DEF Exit, PidReused
<1>17. ASSUME NEW p \in Procs, Crash(p) PROVE Settled(d)
  BY <1>17 DEF Crash, PidReused
<1>18. ASSUME NEW p \in Procs, NEW e \in Deployments, Launch(p, e) PROVE Settled(d)
  BY <1>18, BoundsAssumption DEF Launch
<1>19. ASSUME NEW e \in Deployments, AskBox(e) \/ BoxCreated(e) PROVE Settled(d)
  BY <1>19 DEF AskBox, BoxCreated
<1>20. ASSUME NEW e \in Deployments, TearDown(e) \/ Ends(e) PROVE Settled(d)
  BY <1>20 DEF TearDown, Ends
<1>21. ASSUME NEW e \in Deployments, Persist(e) PROVE Settled(d)
  BY <1>21 DEF Persist
<1>22. CASE UNCHANGED vars
  BY <1>22 DEF vars
<1> QED
  BY <1>1, <1>2, <1>3, <1>4, <1>5, <1>6, <1>7, <1>8, <1>9, <1>10, <1>11, <1>12, <1>13, <1>14,
     <1>15, <1>16, <1>17, <1>18, <1>19, <1>20, <1>21, <1>22
  DEF Next, Startup, Shutdown, Deployment

\* A process whose own part does not change keeps its invariant.
LEMMA OthersKeep ==
  ASSUME TypeOK, NEW p \in Procs, SweepInv(p),
         phase'[p] = phase[p], live'[p] = live[p], toRemove'[p] = toRemove[p],
         toMark'[p] = toMark[p], met'[p] = met[p], bereft'[p] = bereft[p],
         orphaned'[p] = orphaned[p], refused'[p] = refused[p],
         \A d \in Deployments : Settled(d)
  PROVE  SweepInv(p)'
<1>1. bereft[p] \subseteq Deployments /\ orphaned[p] \subseteq Deployments
  BY DEF TypeOK
<1>2. Unread(p)'
  BY DEF SweepInv, Unread
<1>3. StaysLeft(p)'
  BY <1>1 DEF SweepInv, StaysLeft, Settled, Left
<1>4. OldBoxes(p)'
  BY <1>1 DEF SweepInv, OldBoxes, Settled
<1>5. \A d \in orphaned[p] : box[d] # "live" => box'[d] # "live"
  BY <1>1 DEF SweepInv, OldBoxes, Settled
<1>6. Listed(p)'
  BY <1>5 DEF SweepInv, Listed
<1>7. Cleared(p)'
  BY <1>5 DEF SweepInv, Cleared, Swept
<1>8. \A d \in bereft[p] : record'[d] = "running" => record[d] = "running"
  BY <1>1 DEF SweepInv, StaysLeft, Settled, Left
<1>9. ToSettle(p)' /\ AllSettled(p)'
  BY <1>8 DEF SweepInv, ToSettle, AllSettled
<1> QED
  BY <1>2, <1>3, <1>4, <1>6, <1>7, <1>9 DEF SweepInv

\* A process that starts finds nothing but what is left for good.
LEMMA StartKeeps ==
  ASSUME TypeOK, OwnersStarted, NEW p \in Procs, SweepInv(p), Start(p),
         \A d \in Deployments : Settled(d)
  PROVE  SweepInv(p)'
<1>1. phase[p] = "new" /\ phase'[p] = "reading" /\ live'[p] = live[p] /\ owner' = owner
  BY DEF Start, Goes, TypeOK, deployVars
<1>2. bereft'[p] = Bereft /\ orphaned'[p] = {d \in Bereft : box[d] = "live"} /\ box' = box
  BY DEF Start, TypeOK, deployVars
<1>3. \A d \in Bereft : d \in Deployments /\ Left(d)
  <2> SUFFICES ASSUME NEW d \in Bereft PROVE d \in Deployments /\ Left(d)
    OBVIOUS
  <2>1. d \in Deployments /\ owner[d] \in Procs
    BY DEF Bereft, TypeOK
  <2>2. phase[owner[d]] # "new"
    BY <2>1 DEF OwnersStarted
  <2> QED
    BY <2>1, <2>2 DEF Bereft, Left, Alive, Gone
<1>4. StaysLeft(p)'
  BY <1>1, <1>2, <1>3 DEF StaysLeft, Settled, SweepInv, Unread, Left
<1>5. OldBoxes(p)'
  BY <1>1, <1>2 DEF OldBoxes
<1> QED
  BY <1>1, <1>4, <1>5
  DEF SweepInv, Unread, Listed, Cleared, Swept, ToSettle, AllSettled, Closing

\* Reading the registry takes no process for alive that is gone for good.
LEMMA ReadKeeps ==
  ASSUME TypeOK, NEW p \in Procs, SweepInv(p), phase[p] # "new",
         \A d \in Deployments : Settled(d),
         (\E q \in Procs : ReadFile(p, q)) \/ RemoveFile(p)
  PROVE  SweepInv(p)'
<1>1. /\ phase'[p] \in {"reading", "registering"}
      /\ bereft' = bereft /\ orphaned' = orphaned /\ owner' = owner /\ box' = box
  BY DEF ReadFile, RemoveFile, Goes, TypeOK, histVars, faultVars, leftVars, deployVars
<1>2. \A q \in live'[p] \ live[p] : PidAlive(q)
  BY DEF ReadFile, RemoveFile, TypeOK
<1>3. \A d \in bereft[p] : d \in Deployments /\ ~PidAlive(owner[d])
  BY DEF SweepInv, StaysLeft, Left, PidAlive, Alive, TypeOK
<1>4. StaysLeft(p)'
  BY <1>1, <1>2, <1>3 DEF SweepInv, StaysLeft, Settled, Left
<1>5. OldBoxes(p)'
  BY <1>1 DEF SweepInv, OldBoxes
<1> QED
  BY <1>1, <1>4, <1>5
  DEF SweepInv, Unread, Listed, Cleared, Swept, ToSettle, AllSettled, Closing

\* The rest of a process's own steps: it registers, sweeps, settles the records and
\* serves.  What it found left changes only when it ends.
LEMMA OwnStepsKeep ==
  ASSUME TypeOK, NEW p \in Procs, SweepInv(p), \A d \in Deployments : Settled(d),
         \/ RegisterOpen(p) \/ RegisterWrite(p) \/ ListBoxes(p) \/ ListRecords(p)
         \/ Listen(p) \/ Shutdown(p) \/ Crash(p)
         \/ \E d \in Deployments : RemoveBox(p, d) \/ Mark(p, d)
  PROVE  SweepInv(p)'
<1> USE DEF Goes, startVars, deployVars, histVars, faultVars, leftVars
\* What p found is left is so after any of these steps, while it remembers it.
<1>0. ASSUME live'[p] = live[p], bereft'[p] = bereft[p], orphaned'[p] = orphaned[p], owner' = owner
      PROVE  StaysLeft(p)' /\ OldBoxes(p)'
  BY <1>0 DEF SweepInv, StaysLeft, OldBoxes, Settled, TypeOK
<1>1. CASE RegisterOpen(p) \/ RegisterWrite(p)
  <2>1. /\ phase'[p] \in {"writing", "listing"}
        /\ live' = live /\ bereft' = bereft /\ orphaned' = orphaned /\ owner' = owner
    BY <1>1 DEF RegisterOpen, RegisterWrite, TypeOK
  <2> QED
    BY <1>0, <2>1
    DEF SweepInv, Unread, Listed, Cleared, Swept, ToSettle, AllSettled, Closing
<1>2. CASE ListBoxes(p)
  <2>1. /\ phase'[p] = "removing"
        /\ live' = live /\ bereft' = bereft /\ orphaned' = orphaned
        /\ owner' = owner /\ box' = box
    BY <1>2 DEF ListBoxes, TypeOK
  <2>2. \A d \in orphaned[p] : d \in Orphans(p)
    BY BoundsAssumption DEF SweepInv, OldBoxes, StaysLeft, Left, Orphans, TypeOK
  <2>3. "docker" \notin met'[p] =>
          orphaned[p] = {} \/ toRemove'[p] = {d \in Orphans(p) : box[d] = "live"}
    <3>1. CASE toRemove' = [toRemove EXCEPT ![p] = {d \in Orphans(p) : box[d] = "live"}]
      BY <3>1 DEF TypeOK
    <3>2. CASE Meets(p, "docker", orphaned[p])
      BY <3>2 DEF Meets, TypeOK
    <3> QED
      BY <1>2, <3>1, <3>2 DEF ListBoxes
  <2>4. Listed(p)'
    BY <2>1, <2>2, <2>3 DEF Listed
  <2> QED
    BY <1>0, <2>1, <2>4
    DEF SweepInv, Unread, Cleared, Swept, ToSettle, AllSettled, Closing
<1>3. CASE \E d \in Deployments : RemoveBox(p, d)
  <2>1. PICK e \in Deployments : RemoveBox(p, e)
    BY <1>3
  <2>2. /\ phase' = phase /\ live' = live /\ bereft' = bereft /\ orphaned' = orphaned
        /\ owner' = owner /\ record' = record /\ met' = met /\ toMark' = toMark
        /\ phase[p] \in {"removing", "ownRemoving"}
        /\ toRemove'[p] = toRemove[p] \ {e}
    BY <2>1 DEF RemoveBox, TypeOK
  <2>3. /\ e \in refused'[p] \/ box'[e] # "live"
        /\ \A d \in Deployments : box'[d] = "live" => box[d] = "live"
        /\ \A d \in refused[p] : d \in refused'[p]
    BY <2>1 DEF RemoveBox, TypeOK
  <2>4. \A d \in orphaned[p] : d \in Deployments
    BY DEF TypeOK
  <2>5. Listed(p)' /\ Cleared(p)'
    BY <2>2, <2>3, <2>4 DEF SweepInv, Listed, Cleared, Swept
  <2> QED
    BY <1>0, <2>2, <2>5 DEF SweepInv, Unread, ToSettle, AllSettled
<1>4. CASE ListRecords(p)
  <2>1. /\ phase[p] = "removing" /\ phase'[p] = "marking" /\ toRemove[p] = {}
        /\ live' = live /\ bereft' = bereft /\ orphaned' = orphaned
        /\ owner' = owner /\ box' = box /\ record' = record /\ refused' = refused
    BY <1>4 DEF ListRecords, TypeOK
  <2>2. "docker" \notin met'[p] => "docker" \notin met[p]
    BY <1>4, MetGrows DEF ListRecords
  <2>3. Cleared(p)'
    BY <2>1, <2>2 DEF SweepInv, Listed, Cleared
  <2>4. \A d \in bereft[p] : d \in Orphans(p)
    BY BoundsAssumption DEF SweepInv, StaysLeft, Left, Orphans, TypeOK
  <2>5. "records" \notin met'[p] =>
          bereft[p] = {} \/ toMark'[p] = {d \in Orphans(p) : record[d] = "running"}
    <3>1. CASE toMark' = [toMark EXCEPT ![p] = {d \in Orphans(p) : record[d] = "running"}]
      BY <3>1 DEF TypeOK
    <3>2. CASE Meets(p, "records", bereft[p])
      BY <3>2 DEF Meets, TypeOK
    <3> QED
      BY <1>4, <3>1, <3>2 DEF ListRecords
  <2>6. ToSettle(p)'
    BY <2>1, <2>4, <2>5 DEF ToSettle
  <2> QED
    BY <1>0, <2>1, <2>3, <2>6 DEF SweepInv, Unread, Listed, AllSettled, Closing
<1>5. CASE \E d \in Deployments : Mark(p, d)
  <2>1. PICK e \in Deployments : Mark(p, e)
    BY <1>5
  <2>2. /\ phase' = phase /\ live' = live /\ bereft' = bereft /\ orphaned' = orphaned
        /\ owner' = owner /\ box' = box /\ refused' = refused /\ phase[p] = "marking"
    BY <2>1 DEF Mark, TypeOK
  <2>3. "docker" \notin met'[p] => "docker" \notin met[p]
    BY <2>1, MetGrows DEF Mark
  <2>4. ToSettle(p)'
    <3>1. CASE /\ toMark' = [toMark EXCEPT ![p] = @ \ {e}]
               /\ record' = [record EXCEPT ![e] = "interrupted"] /\ UNCHANGED met
      BY <2>2, <3>1 DEF SweepInv, ToSettle, TypeOK
    <3>2. CASE Meets(p, "records", bereft[p])
      BY <2>2, <3>2 DEF ToSettle, Meets, TypeOK
    <3> QED
      BY <2>1, <3>1, <3>2 DEF Mark
  <2> QED
    BY <1>0, <2>2, <2>3, <2>4
    DEF SweepInv, Unread, Listed, Cleared, Swept, AllSettled, Closing
<1>6. CASE Listen(p)
  <2>1. /\ phase[p] = "marking" /\ phase'[p] = "up" /\ toMark[p] = {}
        /\ live' = live /\ bereft' = bereft /\ orphaned' = orphaned /\ refused' = refused
        /\ owner' = owner /\ box' = box /\ record' = record /\ met' = met
    BY <1>6 DEF Listen, TypeOK
  <2> QED
    BY <1>0, <2>1
    DEF SweepInv, Unread, Listed, Cleared, Swept, ToSettle, AllSettled, Closing
<1>7. CASE Close(p) \/ Cancelled(p) \/ Flushed(p) \/ ListOwnBoxes(p) \/ Unregister(p)
  <2>1. /\ phase[p] \in {"up"} \cup Closing /\ phase'[p] \in Closing
        /\ live' = live /\ bereft' = bereft /\ orphaned' = orphaned /\ refused' = refused
        /\ owner' = owner /\ box' = box /\ record' = record
    BY <1>7 DEF Close, Cancelled, Flushed, ListOwnBoxes, Unregister, TypeOK, Closing
  <2>2. met[p] \subseteq met'[p]
    BY <1>7, MetGrows DEF Close, Cancelled, Flushed, ListOwnBoxes, Unregister
  <2> QED
    BY <1>0, <2>1, <2>2
    DEF SweepInv, Unread, Listed, Cleared, Swept, ToSettle, AllSettled, Closing
<1>8. CASE Exit(p) \/ Crash(p)
  <2>1. live'[p] = {} /\ bereft'[p] = {} /\ orphaned'[p] = {}
    BY <1>8 DEF Exit, Crash, Forgets, TypeOK
  <2> QED
    BY <2>1
    DEF SweepInv, Unread, StaysLeft, OldBoxes, Listed, Cleared, ToSettle, AllSettled
<1> QED
  BY <1>1, <1>2, <1>3, <1>4, <1>5, <1>6, <1>7, <1>8 DEF Shutdown

\* A deployment belongs to a process that was up when it launched it.
LEMMA OwnersAreStarted ==
  ASSUME TypeOK, OwnersStarted, [Next]_vars
  PROVE  OwnersStarted'
<1> USE DEF Goes, Starting, Closing, Gone, startVars, deployVars, histVars, faultVars, leftVars
<1>1. \A q \in Procs : phase[q] # "new" => phase'[q] # "new"
  <2> SUFFICES ASSUME NEW q \in Procs, phase[q] # "new" PROVE phase'[q] # "new"
    OBVIOUS
  <2>1. ASSUME NEW p \in Procs, Startup(p) PROVE phase'[q] # "new"
    BY <2>1
    DEF Startup, Start, ReadFile, RemoveFile, RegisterOpen, RegisterWrite, ListBoxes,
        ListRecords, Listen, RemoveBox, Mark, TypeOK
  <2>2. ASSUME NEW p \in Procs, Shutdown(p) \/ Crash(p) PROVE phase'[q] # "new"
    BY <2>2
    DEF Shutdown, Close, Cancelled, Flushed, ListOwnBoxes, Unregister, Exit, Crash, TypeOK
  <2>3. ASSUME NEW p \in Procs, NEW d \in Deployments, Launch(p, d) PROVE phase' = phase
    BY <2>3 DEF Launch
  <2>4. ASSUME NEW d \in Deployments, Deployment(d) PROVE phase' = phase
    BY <2>4 DEF Deployment, AskBox, BoxCreated, TearDown, Ends, Persist
  <2>5. CASE UNCHANGED vars
    BY <2>5 DEF vars
  <2> QED
    BY <2>1, <2>2, <2>3, <2>4, <2>5 DEF Next
<1>2. CASE \E p \in Procs, d \in Deployments : Launch(p, d)
  BY <1>1, <1>2 DEF Launch, OwnersStarted, TypeOK
<1>3. CASE owner' = owner
  BY <1>1, <1>3 DEF OwnersStarted
<1>4. ASSUME NEW p \in Procs, Startup(p) \/ Shutdown(p) \/ Crash(p) PROVE owner' = owner
  BY <1>4
  DEF Startup, Start, ReadFile, RemoveFile, RegisterOpen, RegisterWrite, ListBoxes,
      ListRecords, Listen, RemoveBox, Mark, Shutdown, Close, Cancelled, Flushed,
      ListOwnBoxes, Unregister, Exit, Crash
<1>5. ASSUME NEW d \in Deployments, Deployment(d) PROVE owner' = owner
  BY <1>5 DEF Deployment, AskBox, BoxCreated, TearDown, Ends, Persist
<1>6. ASSUME UNCHANGED vars PROVE owner' = owner
  BY <1>6 DEF vars
<1>7. (\E p \in Procs, d \in Deployments : Launch(p, d)) \/ owner' = owner
  BY <1>4, <1>5, <1>6 DEF Next
<1> QED
  BY <1>2, <1>3, <1>7

\* What is proved of the sweeps: the invariant holds at every step of every process.
LEMMA Inductive ==
  ASSUME IInv, TypeOK', [Next]_vars
  PROVE  IInv'
<1>1. OwnersStarted'
  BY OwnersAreStarted DEF IInv
<1>2. \A d \in Deployments : Settled(d)
  BY Settling DEF IInv
<1>3. ASSUME NEW p \in Procs PROVE SweepInv(p)'
  <2>1. TypeOK /\ OwnersStarted /\ SweepInv(p)
    BY DEF IInv
  <2> DEFINE Kept == /\ phase'[p] = phase[p] /\ live'[p] = live[p]
                     /\ toRemove'[p] = toRemove[p] /\ toMark'[p] = toMark[p]
                     /\ met'[p] = met[p] /\ bereft'[p] = bereft[p]
                     /\ orphaned'[p] = orphaned[p] /\ refused'[p] = refused[p]
  <2>2. ASSUME Kept PROVE SweepInv(p)'
    BY <1>2, <2>1, <2>2, OthersKeep
  <2> USE DEF Goes, startVars, deployVars, histVars, faultVars, leftVars
  <2>3. ASSUME NEW q \in Procs, q # p, Startup(q) PROVE Kept
    <3>1. CASE Start(q) \/ (\E r \in Procs : ReadFile(q, r)) \/ RemoveFile(q)
      BY <2>1, <2>3, <3>1 DEF Start, ReadFile, RemoveFile, Meets, TypeOK
    <3>2. CASE RegisterOpen(q) \/ RegisterWrite(q) \/ ListBoxes(q) \/ Listen(q)
      BY <2>1, <2>3, <3>2 DEF RegisterOpen, RegisterWrite, ListBoxes, Listen, Meets, TypeOK
    <3>3. CASE ListRecords(q)
      BY <2>1, <2>3, <3>3 DEF ListRecords, Meets, TypeOK
    <3>4. CASE \E d \in Deployments : RemoveBox(q, d)
      BY <2>1, <2>3, <3>4 DEF RemoveBox, TypeOK
    <3>5. CASE \E d \in Deployments : Mark(q, d)
      BY <2>1, <2>3, <3>5 DEF Mark, Meets, TypeOK
    <3> HIDE DEF Kept
    <3> QED
      BY <2>3, <3>1, <3>2, <3>3, <3>4, <3>5 DEF Startup
  <2>4. ASSUME NEW q \in Procs, q # p, Shutdown(q) \/ Crash(q) PROVE Kept
    <3>1. CASE Close(q) \/ Cancelled(q) \/ Flushed(q) \/ Unregister(q)
      BY <2>1, <2>4, <3>1 DEF Close, Cancelled, Flushed, Unregister, TypeOK
    <3>2. CASE ListOwnBoxes(q)
      BY <2>1, <2>4, <3>2 DEF ListOwnBoxes, Meets, TypeOK
    <3>3. CASE Exit(q) \/ Crash(q)
      BY <2>1, <2>4, <3>3 DEF Exit, Crash, Forgets, TypeOK
    <3> HIDE DEF Kept
    <3> QED
      BY <2>4, <3>1, <3>2, <3>3 DEF Shutdown
  <2>5. ASSUME NEW q \in Procs, NEW d \in Deployments, Launch(q, d) PROVE Kept
    BY <2>5 DEF Launch
  <2>6. ASSUME NEW d \in Deployments, Deployment(d) PROVE Kept
    BY <2>6 DEF Deployment, AskBox, BoxCreated, TearDown, Ends, Persist
  <2>7. ASSUME UNCHANGED vars PROVE Kept
    BY <2>7 DEF vars
  <2>8. ASSUME Start(p) PROVE SweepInv(p)'
    BY <1>2, <2>1, <2>8, StartKeeps
  <2>9. ASSUME (\E q \in Procs : ReadFile(p, q)) \/ RemoveFile(p) PROVE SweepInv(p)'
    <3>1. phase[p] # "new"
      BY <2>1, <2>9 DEF ReadFile, RemoveFile, TypeOK
    <3> QED
      BY <1>2, <2>1, <2>9, <3>1, ReadKeeps
  <2>10. ASSUME \/ RegisterOpen(p) \/ RegisterWrite(p) \/ ListBoxes(p) \/ ListRecords(p)
                \/ Listen(p) \/ Shutdown(p) \/ Crash(p)
                \/ \E d \in Deployments : RemoveBox(p, d) \/ Mark(p, d)
         PROVE SweepInv(p)'
    BY <1>2, <2>1, <2>10, OwnStepsKeep
  <2>11. Startup(p) => SweepInv(p)'
    BY <2>8, <2>9, <2>10 DEF Startup
  <2>12. Shutdown(p) \/ Crash(p) => SweepInv(p)'
    BY <2>10
  <2>13. ASSUME NEW q \in Procs, Startup(q) \/ Shutdown(q) \/ Crash(q) PROVE SweepInv(p)'
    BY <2>2, <2>3, <2>4, <2>11, <2>12, <2>13
  <2> HIDE DEF Kept
  <2> QED
    BY <2>2, <2>5, <2>6, <2>7, <2>13 DEF Next
<1> QED
  BY <1>1, <1>3 DEF IInv

\* The invariant of the sweeps holds in every state.
LEMMA Invariance == Spec => []IInv
<1>1. Init => IInv
  <2>1. ASSUME Init PROVE TypeOK
    BY <2>1 DEF Init, TypeOK, Phases
  <2>2. ASSUME Init PROVE OwnersStarted /\ \A p \in Procs : SweepInv(p)
    BY <2>2, BoundsAssumption
    DEF Init, OwnersStarted, SweepInv, Unread, StaysLeft, OldBoxes, Listed, Cleared,
        ToSettle, AllSettled
  <2> QED
    BY <2>1, <2>2 DEF IInv
<1>2. IInv /\ TypeOK' /\ [Next]_vars => IInv'
  BY Inductive
<1> QED
  BY <1>1, <1>2, TypeCorrect, PTL DEF Spec

\* A process that has swept has removed every container it found left behind, unless
\* Docker did not answer it: whatever the others do meanwhile (sweepAllOrphans).
THEOREM SweepIsThorough == Spec => []OrphansSwept
<1>1. IInv => OrphansSwept
  BY DEF IInv, SweepInv, Cleared, OrphansSwept
<1> QED
  BY <1>1, Invariance, PTL

\* When a process takes requests, nothing a gone process left says it is running
\* (recoverInterrupted).
THEOREM RecordsAreSettled == Spec => []RecordsSettled
<1>1. IInv => RecordsSettled
  BY DEF IInv, SweepInv, AllSettled, RecordsSettled
<1> QED
  BY <1>1, Invariance, PTL

-----------------------------------------------------------------------------
\* Who is spared: the invariant
\*
\* The file of a process is whole only once it has written it, and stays whole until it
\* unregisters or another one removes it.  What p found whole when it started it has
\* still to read, is going to remove or has read as a living process's.

Early(q)   == phase[q] \in {"new", "reading", "registering", "writing"}
Holding(q) == phase[q] \in {"listing", "removing", "marking"} \cup Serving

Whole(q) == Early(q) => file[q] # "written"

Known(p) ==
  \A q \in known[p] :
    /\ q # p /\ ~Early(q)
    /\ Holding(q) /\ q \notin lost =>
         /\ file[q] = "written"
         /\ "live" \notin met[p] =>
              q \in live[p] \/ (phase[p] = "reading" /\ q \in toRead[p] \cup {stale[p]})

\* What p is going to remove or to overwrite is of no process it found alive, or its own.
Lists(p) ==
  /\ \A d \in toMark[p] : owner[d] \in Procs \ live[p]
  /\ \A d \in toRemove[p] :
       /\ owner[d] \in Procs
       /\ phase[p] = "removing" => owner[d] \notin live[p]
       /\ phase[p] = "ownRemoving" => owner[d] = p

SpareInv(p) == Whole(p) /\ Known(p) /\ Lists(p)

\* What a step may do to the file of a process, and to what is known of it.
LEMMA FileSteps ==
  ASSUME TypeOK, [Next]_vars, NEW q \in Procs, ~Early(q)
  PROVE  /\ ~Early(q)'
         /\ Holding(q)' => Holding(q)
         /\ q \in lost => q \in lost'
         /\ Holding(q)' /\ file[q] = "written" /\ q \notin lost' => file'[q] = "written"
<1> DEFINE Goal == /\ ~Early(q)'
                   /\ Holding(q)' => Holding(q)
                   /\ q \in lost => q \in lost'
                   /\ Holding(q)' /\ file[q] = "written" /\ q \notin lost' => file'[q] = "written"
<1> USE DEF Early, Holding, Serving, Goes, Closing, startVars, deployVars, histVars, faultVars, leftVars
<1>1. ASSUME NEW p \in Procs, Start(p) \/ \E r \in Procs : ReadFile(p, r) PROVE Goal
  BY <1>1 DEF Start, ReadFile, TypeOK
<1>2. ASSUME NEW p \in Procs, RemoveFile(p) PROVE Goal
  BY <1>2 DEF RemoveFile, TypeOK
<1>3. ASSUME NEW p \in Procs, RegisterOpen(p) \/ RegisterWrite(p) PROVE Goal
  BY <1>3 DEF RegisterOpen, RegisterWrite, TypeOK
<1>4. ASSUME NEW p \in Procs, ListBoxes(p) \/ ListRecords(p) \/ Listen(p) PROVE Goal
  BY <1>4 DEF ListBoxes, ListRecords, Listen, TypeOK
<1>5. ASSUME NEW p \in Procs, NEW d \in Deployments, RemoveBox(p, d) \/ Mark(p, d) PROVE Goal
  BY <1>5 DEF RemoveBox, Mark
<1>6. ASSUME NEW p \in Procs, Close(p) \/ Cancelled(p) \/ Flushed(p) \/ ListOwnBoxes(p) PROVE Goal
  BY <1>6 DEF Close, Cancelled, Flushed, ListOwnBoxes, TypeOK
<1>7. ASSUME NEW p \in Procs, Unregister(p) PROVE Goal
  BY <1>7 DEF Unregister, TypeOK
<1>8. ASSUME NEW p \in Procs, Exit(p) \/ Crash(p) PROVE Goal
  BY <1>8 DEF Exit, Crash, TypeOK
<1>9. ASSUME NEW p \in Procs, NEW d \in Deployments, Launch(p, d) PROVE Goal
  BY <1>9 DEF Launch
<1>10. ASSUME NEW d \in Deployments, Deployment(d) PROVE Goal
  BY <1>10 DEF Deployment, AskBox, BoxCreated, TearDown, Ends, Persist
<1>11. ASSUME UNCHANGED vars PROVE Goal
  BY <1>11 DEF vars
<1> HIDE DEF Goal
<1> QED
  BY <1>1, <1>2, <1>3, <1>4, <1>5, <1>6, <1>7, <1>8, <1>9, <1>10, <1>11
  DEF Next, Startup, Shutdown, Goal

\* A file that is whole stays whole until its process, or one that found it dead, removes it.
LEMMA WholeKept ==
  ASSUME TypeOK, [Next]_vars, NEW q \in Procs, Whole(q)
  PROVE  Whole(q)'
<1> USE DEF Whole, Early, Goes, startVars, deployVars, histVars, faultVars, leftVars
<1>1. ASSUME NEW p \in Procs, Start(p) \/ \E r \in Procs : ReadFile(p, r) PROVE Whole(q)'
  BY <1>1 DEF Start, ReadFile, TypeOK
<1>2. ASSUME NEW p \in Procs, RemoveFile(p) PROVE Whole(q)'
  BY <1>2 DEF RemoveFile, TypeOK
<1>3. ASSUME NEW p \in Procs, RegisterOpen(p) \/ RegisterWrite(p) PROVE Whole(q)'
  BY <1>3 DEF RegisterOpen, RegisterWrite, TypeOK
<1>4. ASSUME NEW p \in Procs, ListBoxes(p) \/ ListRecords(p) \/ Listen(p) PROVE Whole(q)'
  BY <1>4 DEF ListBoxes, ListRecords, Listen, TypeOK
<1>5. ASSUME NEW p \in Procs, NEW d \in Deployments, RemoveBox(p, d) \/ Mark(p, d) PROVE Whole(q)'
  BY <1>5 DEF RemoveBox, Mark
<1>6. ASSUME NEW p \in Procs, Shutdown(p) \/ Crash(p) PROVE Whole(q)'
  BY <1>6 DEF Shutdown, Close, Cancelled, Flushed, ListOwnBoxes, Unregister, Exit, Crash, TypeOK
<1>7. ASSUME NEW p \in Procs, NEW d \in Deployments, Launch(p, d) PROVE Whole(q)'
  BY <1>7 DEF Launch
<1>8. ASSUME NEW d \in Deployments, Deployment(d) PROVE Whole(q)'
  BY <1>8 DEF Deployment, AskBox, BoxCreated, TearDown, Ends, Persist
<1>9. ASSUME UNCHANGED vars PROVE Whole(q)'
  BY <1>9 DEF vars
<1> QED
  BY <1>1, <1>2, <1>3, <1>4, <1>5, <1>6, <1>7, <1>8, <1>9 DEF Next, Startup

\* What a process remembers changes by its own steps.
Remembers(p) ==
  /\ phase'[p] = phase[p] /\ known'[p] = known[p] /\ live'[p] = live[p]
  /\ toRead'[p] = toRead[p] /\ met'[p] = met[p] /\ toRemove'[p] = toRemove[p]
  /\ toMark'[p] = toMark[p] /\ list'[p] = list[p] /\ flush'[p] = flush[p]
  /\ stale'[p] = stale[p]

\* A step of the others leaves a process what it remembers.
LEMMA OthersRemember ==
  ASSUME TypeOK, [Next]_vars, NEW p \in Procs, ~Startup(p), ~Shutdown(p), ~Crash(p)
  PROVE  Remembers(p)
<1> USE DEF Remembers, Goes, startVars, deployVars, histVars, faultVars, leftVars, TypeOK
<1>1. ASSUME NEW q \in Procs, q # p, Start(q) \/ (\E r \in Procs : ReadFile(q, r)) \/ RemoveFile(q)
      PROVE  Remembers(p)
  BY <1>1 DEF Start, ReadFile, RemoveFile, Meets
<1>2. ASSUME NEW q \in Procs, q # p, Startup(q),
             ~Start(q), \A r \in Procs : ~ReadFile(q, r), ~RemoveFile(q)
      PROVE  Remembers(p)
  <2>1. CASE RegisterOpen(q) \/ RegisterWrite(q) \/ Listen(q)
    BY <1>2, <2>1 DEF RegisterOpen, RegisterWrite, Listen
  <2>2. CASE ListBoxes(q) \/ ListRecords(q)
    BY <1>2, <2>2 DEF ListBoxes, ListRecords, Meets
  <2>3. CASE \E d \in Deployments : RemoveBox(q, d)
    BY <1>2, <2>3 DEF RemoveBox
  <2>4. CASE \E d \in Deployments : Mark(q, d)
    BY <1>2, <2>4 DEF Mark, Meets
  <2> HIDE DEF Remembers
  <2> QED
    BY <1>2, <2>1, <2>2, <2>3, <2>4 DEF Startup
<1>3. ASSUME NEW q \in Procs, q # p, Shutdown(q) PROVE Remembers(p)
  <2>1. CASE Close(q) \/ Cancelled(q) \/ Flushed(q) \/ Unregister(q)
    BY <1>3, <2>1 DEF Close, Cancelled, Flushed, Unregister
  <2>2. CASE ListOwnBoxes(q)
    BY <1>3, <2>2 DEF ListOwnBoxes, Meets
  <2>3. CASE Exit(q)
    BY <1>3, <2>3 DEF Exit, Forgets
  <2> HIDE DEF Remembers
  <2> QED
    BY <1>3, <2>1, <2>2, <2>3 DEF Shutdown
<1>4. ASSUME NEW q \in Procs, q # p, Crash(q) PROVE Remembers(p)
  BY <1>4 DEF Crash, Forgets
<1>5. ASSUME NEW q \in Procs, NEW d \in Deployments, Launch(q, d) PROVE Remembers(p)
  BY <1>5 DEF Launch
<1>6. ASSUME NEW d \in Deployments, Deployment(d) PROVE Remembers(p)
  BY <1>6 DEF Deployment, AskBox, BoxCreated, TearDown, Ends, Persist
<1>7. ASSUME UNCHANGED vars PROVE Remembers(p)
  BY <1>7 DEF vars
<1> HIDE DEF Remembers
<1> QED
  BY <1>1, <1>2, <1>3, <1>4, <1>5, <1>6, <1>7 DEF Next, Startup

\* What a starting process knows stays so, while the files it has read are whole.
LEMMA KnownKept ==
  ASSUME TypeOK, \A q \in Procs : Whole(q), [Next]_vars, NEW p \in Procs, Known(p)
  PROVE  Known(p)'
<1> USE DEF Goes, startVars, deployVars, histVars, faultVars, leftVars
<1>0. known[p] \subseteq Procs
  BY DEF TypeOK
<1> DEFINE Read(q) == q \in live[p] \/ (phase[p] = "reading" /\ q \in toRead[p] \cup {stale[p]})
           Goal == /\ known'[p] = known[p] /\ met[p] \subseteq met'[p]
                   /\ \A q \in known[p] :
                        /\ "live" \notin met'[p] /\ q \notin lost' /\ Read(q) /\ Holding(q)
                           /\ file[q] = "written"
                        => Read(q)'
<1>1. ASSUME Goal PROVE Known(p)'
  <2> SUFFICES ASSUME NEW q \in known[p]
               PROVE  /\ q # p /\ ~Early(q)'
                      /\ Holding(q)' /\ q \notin lost' =>
                           /\ file'[q] = "written"
                           /\ "live" \notin met'[p] => Read(q)'
    BY <1>1 DEF Known
  <2>1. q \in Procs /\ q # p /\ ~Early(q)
    BY <1>0 DEF Known
  <2>2. Holding(q) /\ q \notin lost =>
          file[q] = "written" /\ ("live" \notin met[p] => Read(q))
    BY DEF Known
  <2>3. /\ ~Early(q)' /\ (Holding(q)' => Holding(q)) /\ (q \in lost => q \in lost')
        /\ Holding(q)' /\ file[q] = "written" /\ q \notin lost' => file'[q] = "written"
    BY <2>1, FileSteps
  <2>4. "live" \notin met'[p] => "live" \notin met[p]
    BY <1>1
  <2> QED
    BY <1>1, <2>1, <2>2, <2>3, <2>4
<1>2. CASE Start(p)
  <2>1. /\ phase[p] = "new" /\ phase' = [phase EXCEPT ![p] = "reading"]
        /\ UNCHANGED <<file, live, lost>>
    BY <1>2 DEF Start
  <2>2. known'[p] = {q \in Procs : Alive(q) /\ file[q] = "written"}
    <3>1. known' = [known EXCEPT ![p] = {q \in Procs : Alive(q) /\ file[q] = "written"}]
      BY <1>2 DEF Start
    <3> QED
      BY <3>1 DEF TypeOK
  <2>3. phase'[p] = "reading" /\ \A q \in Procs \ {p} : phase'[q] = phase[q]
    BY <2>1 DEF TypeOK
  <2>4. ASSUME NEW q \in known'[p]
        PROVE  q \in Procs /\ q # p /\ ~Early(q)' /\ file'[q] = "written"
    <3>1. q \in Procs /\ Alive(q) /\ file[q] = "written"
      BY <2>2, <2>4
    <3>2. q # p /\ ~Early(q)
      BY <2>1, <3>1 DEF Alive, Whole
    <3> QED
      BY <2>1, <2>3, <3>1, <3>2 DEF Early
  <2>5. ASSUME NEW q \in known'[p], "live" \notin met'[p] PROVE q \in toRead'[p]
    <3>1. CASE toRead' = [toRead EXCEPT ![p] = {r \in Procs : file[r] # "none"}]
      BY <2>2, <2>5, <3>1 DEF TypeOK
    <3>2. CASE Meets(p, "live", known'[p])
      BY <2>5, <3>2 DEF Meets, TypeOK
    <3> QED
      BY <1>2, <3>1, <3>2 DEF Start
  <2> QED
    BY <2>3, <2>4, <2>5 DEF Known
<1>3. ASSUME NEW r \in Procs, ReadFile(p, r) PROVE Goal
  <2>1. /\ phase[p] = "reading" /\ stale[p] = Nobody /\ UNCHANGED <<phase, known, met, lost, file>>
        /\ toRead'[p] = toRead[p] \ {r}
    BY <1>3 DEF ReadFile, TypeOK
  <2>2. live[p] \subseteq live'[p] /\ (r \in live'[p] \/ r = stale'[p])
    <3>1. CASE live' = [live EXCEPT ![p] = @ \cup {r}]
      BY <3>1 DEF TypeOK
    <3>2. CASE stale' = [stale EXCEPT ![p] = r] /\ UNCHANGED live
      BY <3>2 DEF TypeOK
    <3> QED
      BY <1>3, <3>1, <3>2 DEF ReadFile
  <2> QED
    BY <1>0, <2>1, <2>2, BoundsAssumption
<1>4. ASSUME RemoveFile(p) PROVE Goal
  <2>1. known' = known /\ phase[p] = "reading"
    BY <1>4 DEF RemoveFile, TypeOK
  <2>2. CASE /\ lost' = lost \cup {q \in {stale[p]} : file[q] # "none"}
             /\ UNCHANGED <<phase, toRead, live, met>>
    BY <2>1, <2>2
  <2>3. CASE Meets(p, "live", known[p])
    BY <2>1, <2>3 DEF Meets, TypeOK
  <2> QED
    BY <1>4, <2>2, <2>3 DEF RemoveFile
<1>5. ASSUME RegisterOpen(p) PROVE Goal
  <2>1. /\ known' = known /\ live' = live /\ met' = met
        /\ phase[p] = "reading" => toRead[p] = {} /\ stale[p] = Nobody
    BY <1>5 DEF RegisterOpen
  <2> QED
    BY <1>0, <2>1, BoundsAssumption
<1>6. ASSUME ListBoxes(p) PROVE Goal
  <2>1. known' = known /\ live' = live /\ phase[p] = "listing"
    BY <1>6 DEF ListBoxes
  <2>2. met[p] \subseteq met'[p]
    BY <1>6, MetGrows DEF ListBoxes
  <2> QED
    BY <2>1, <2>2
<1>7. ASSUME RegisterWrite(p) \/ ListRecords(p) \/ Listen(p) PROVE Goal
  <2>1. known' = known /\ live' = live /\ phase[p] \in {"writing", "removing", "marking"}
    BY <1>7 DEF RegisterWrite, ListRecords, Listen
  <2>2. met[p] \subseteq met'[p]
    BY <1>7, MetGrows DEF RegisterWrite, ListRecords, Listen
  <2> QED
    BY <2>1, <2>2
<1>8. ASSUME NEW d \in Deployments, RemoveBox(p, d) \/ Mark(p, d) PROVE Goal
  <2>1. UNCHANGED <<phase, known, live, toRead, stale>>
    BY <1>8 DEF RemoveBox, Mark
  <2>2. met[p] \subseteq met'[p]
    BY <1>8, MetGrows DEF RemoveBox, Mark
  <2> QED
    BY <2>1, <2>2
<1>9. ASSUME Close(p) \/ Cancelled(p) \/ Flushed(p) \/ ListOwnBoxes(p) \/ Unregister(p) PROVE Goal
  <2>1. known' = known /\ live' = live /\ phase[p] # "reading"
    BY <1>9 DEF Close, Cancelled, Flushed, ListOwnBoxes, Unregister
  <2>2. met[p] \subseteq met'[p]
    BY <1>9, MetGrows DEF Close, Cancelled, Flushed, ListOwnBoxes, Unregister
  <2> QED
    BY <2>1, <2>2
<1>10. CASE Exit(p) \/ Crash(p)
  <2>1. known'[p] = {}
    BY <1>10 DEF Exit, Crash, Forgets, TypeOK
  <2> QED
    BY <2>1 DEF Known
<1>11. ASSUME ~Startup(p), ~Shutdown(p), ~Crash(p) PROVE Goal
  <2>1. Remembers(p)
    BY <1>11, OthersRemember
  <2> QED
    BY <2>1 DEF Remembers
<1> HIDE DEF Goal
<1> QED
  BY <1>1, <1>2, <1>3, <1>4, <1>5, <1>6, <1>7, <1>8, <1>9, <1>10, <1>11 DEF Startup, Shutdown

\* A deployment stays its process's.
LEMMA OwnerStays ==
  ASSUME TypeOK, [Next]_vars, NEW d \in Deployments
  PROVE  /\ owner[d] \in Procs => owner'[d] = owner[d]
         /\ owner'[d] = owner[d] \/ \E p \in Procs : Launch(p, d)
<1> USE DEF startVars, deployVars, histVars, faultVars, leftVars
<1>1. ASSUME NEW p \in Procs, NEW e \in Deployments, Launch(p, e)
      PROVE  (owner[d] \in Procs => owner'[d] = owner[d]) /\ (owner'[d] = owner[d] \/ d = e)
  BY <1>1, BoundsAssumption DEF Launch, TypeOK
<1>2. ASSUME NEW p \in Procs, Startup(p) PROVE owner' = owner
  BY <1>2 DEF Startup, Start, ReadFile, RemoveFile, RegisterOpen, RegisterWrite, ListBoxes,
              ListRecords, Listen, RemoveBox, Mark
<1>3. ASSUME NEW p \in Procs, Shutdown(p) \/ Crash(p) PROVE owner' = owner
  BY <1>3 DEF Shutdown, Close, Cancelled, Flushed, ListOwnBoxes, Unregister, Exit, Crash
<1>4. ASSUME NEW e \in Deployments, Deployment(e) PROVE owner' = owner
  BY <1>4 DEF Deployment, AskBox, BoxCreated, TearDown, Ends, Persist
<1>5. ASSUME UNCHANGED vars PROVE owner' = owner
  BY <1>5 DEF vars
<1> QED
  BY <1>1, <1>2, <1>3, <1>4, <1>5 DEF Next

\* Whatever is on a process's lists stays what it may remove or mark.
LEMMA ListsKept ==
  ASSUME TypeOK, [Next]_vars, NEW p \in Procs, Lists(p)
  PROVE  Lists(p)'
<1> USE DEF Goes, startVars, deployVars, histVars, faultVars, leftVars
<1>1. \A d \in Deployments : owner[d] \in Procs => owner'[d] = owner[d]
  BY OwnerStays
<1>2. toMark[p] \subseteq Deployments /\ toRemove[p] \subseteq Deployments
  BY DEF TypeOK
<1>3. /\ toMark[p] # {} => phase[p] = "marking"
      /\ toRemove[p] # {} => phase[p] \in {"removing", "ownRemoving"}
  BY DEF TypeOK
<1>4. \A d \in Deployments, q \in Procs : d \in Orphans(q) => owner[d] \in Procs \ live[q]
  BY DEF Orphans, TypeOK
<1>5. CASE ListBoxes(p)
  <2>1. /\ phase'[p] = "removing" /\ toMark'[p] = toMark[p] /\ live' = live
        /\ \A d \in toRemove'[p] : d \in toRemove[p] \/ d \in Orphans(p)
    BY <1>5 DEF ListBoxes, TypeOK
  <2>2. toMark[p] = {} /\ toRemove[p] = {}
    BY <1>3, <1>5 DEF ListBoxes
  <2>3. \A d \in toRemove'[p] : d \in Deployments /\ owner[d] \in Procs \ live[p]
    BY <1>4, <2>1, <2>2 DEF Orphans
  <2> QED
    BY <1>1, <2>1, <2>2, <2>3 DEF Lists
<1>6. CASE ListRecords(p)
  <2>1. /\ phase[p] = "removing" /\ phase'[p] = "marking" /\ live' = live
        /\ toRemove[p] = {} /\ toRemove' = toRemove
        /\ \A d \in toMark'[p] : d \in Orphans(p)
    BY <1>6 DEF ListRecords, TypeOK
  <2>2. \A d \in toMark'[p] : d \in Deployments /\ owner[d] \in Procs \ live[p]
    BY <1>4, <2>1 DEF Orphans
  <2> QED
    BY <1>1, <2>1, <2>2 DEF Lists
<1>7. CASE ListOwnBoxes(p)
  <2>1. phase[p] = "ownListing" /\ phase'[p] = "ownRemoving" /\ toMark' = toMark
    BY <1>7 DEF ListOwnBoxes, TypeOK
  <2>2. \A d \in toRemove'[p] : d \in toRemove[p] \/ (d \in Deployments /\ owner[d] = p)
    <3>1. CASE toRemove' = [toRemove EXCEPT ![p] = {d \in Of(p) : box[d] = "live"}]
      BY <3>1 DEF Of, TypeOK
    <3>2. CASE UNCHANGED toRemove
      BY <3>2
    <3> QED
      BY <1>7, <3>1, <3>2 DEF ListOwnBoxes
  <2> QED
    BY <1>1, <1>3, <2>1, <2>2 DEF Lists
<1>8. CASE \E d \in Deployments : RemoveBox(p, d) \/ Mark(p, d)
  <2>1. /\ phase' = phase /\ live' = live
        /\ toMark'[p] \subseteq toMark[p] /\ toRemove'[p] \subseteq toRemove[p]
    BY <1>8 DEF RemoveBox, Mark, TypeOK
  <2> QED
    BY <1>1, <1>2, <2>1 DEF Lists
<1>9. CASE Exit(p) \/ Crash(p)
  <2>1. toMark'[p] = {} /\ toRemove'[p] = {}
    BY <1>9 DEF Exit, Crash, Forgets, TypeOK
  <2> QED
    BY <2>1 DEF Lists
<1>10. CASE \/ Start(p) \/ (\E q \in Procs : ReadFile(p, q)) \/ RemoveFile(p) \/ RegisterOpen(p)
            \/ RegisterWrite(p)
  <2>1. /\ UNCHANGED <<toMark, toRemove>>
        /\ phase[p] \notin {"marking", "removing", "ownRemoving"}
    BY <1>10 DEF Start, ReadFile, RemoveFile, RegisterOpen, RegisterWrite, TypeOK
  <2> QED
    BY <1>3, <2>1 DEF Lists
<1>11. CASE Listen(p) \/ Close(p) \/ Cancelled(p) \/ Flushed(p) \/ Unregister(p)
  <2>1. UNCHANGED <<toMark, toRemove>> /\ toMark[p] = {} /\ toRemove[p] = {}
    BY <1>3, <1>11 DEF Listen, Close, Cancelled, Flushed, Unregister
  <2> QED
    BY <2>1 DEF Lists
<1>12. CASE ~Startup(p) /\ ~Shutdown(p) /\ ~Crash(p)
  <2>1. Remembers(p)
    BY <1>12, OthersRemember
  <2> QED
    BY <1>1, <1>2, <2>1 DEF Remembers, Lists
<1> QED
  BY <1>5, <1>6, <1>7, <1>8, <1>9, <1>10, <1>11, <1>12 DEF Startup, Shutdown

SparedInv == TypeOK /\ \A p \in Procs : SpareInv(p)

\* What the lists of a process spare holds in every state.
LEMMA SparedInvariance == Spec => []SparedInv
<1>1. Init => \A p \in Procs : SpareInv(p)
  BY DEF Init, SpareInv, Whole, Known, Lists
<1>2. TypeOK /\ (\A p \in Procs : SpareInv(p)) /\ [Next]_vars => \A p \in Procs : SpareInv(p)'
  BY WholeKept, KnownKept, ListsKept DEF SpareInv
<1> DEFINE All == \A p \in Procs : SpareInv(p)
<1>3. Init => All
  BY <1>1
<1>4. All /\ TypeOK /\ [Next]_vars => All'
  BY <1>2
<1>5. TypeOK /\ All => SparedInv
  BY DEF SparedInv
<1> HIDE DEF All
<1> QED
  BY <1>3, <1>4, <1>5, TypeCorrect, PTL DEF Spec

\* A process whose file was whole when another one read the registry, and that no third
\* process has unregistered, has none of its containers and records on that one's lists
\* (InstanceRegistry.live, sweepAllOrphans, recoverInterrupted).
THEOREM LivingAreSpared == Spec => []RegisteredAreSpared
<1>1. SparedInv => RegisteredAreSpared
  <2> SUFFICES ASSUME SparedInv, NEW p \in Procs, NEW d \in toRemove[p] \cup toMark[p],
                      phase[owner[d]] \in Serving, owner[d] \in known[p], "live" \notin met[p]
               PROVE  owner[d] \in lost
    BY DEF RegisteredAreSpared
  <2> USE DEF SparedInv, SpareInv
  <2>1. /\ toRemove[p] # {} => phase[p] \in {"removing", "ownRemoving"}
        /\ toMark[p] # {} => phase[p] = "marking"
    BY DEF TypeOK
  <2>2. owner[d] # p /\ (owner[d] \in lost \/ owner[d] \in live[p] \/ phase[p] = "reading")
    BY DEF Known, Holding
  <2>3. owner[d] \notin live[p]
    BY <2>1, <2>2 DEF Lists
  <2> QED
    BY <2>1, <2>2, <2>3
<1> QED
  BY <1>1, SparedInvariance, PTL

-----------------------------------------------------------------------------
\* What a process that closes leaves: the invariant
\*
\* The deployments it had when it began to close have ended before their writes are
\* waited for, and their records are what they say, or could not be written, before its
\* containers are listed.  What is its own once it has listed them is on the list, or was
\* refused, or came up after.

Told(d) == mem[d] = "ended" /\ ~dirty[d] /\ record[d] = "running" => d \in unsaved

Unowned(d) == owner[d] = Nobody => box[d] = "none"

HasListed == OwnListed \cup {"closed"}

OnDisk(d) == ~dirty[d] /\ (record[d] = "running" => d \in unsaved)

Closes(p) ==
  /\ list[p] # {} => phase[p] \in Closing \cup {"closed"}
  /\ \A d \in list[p] :
       /\ owner[d] = p
       /\ phase[p] # "cancelling" => mem[d] # "running"
       /\ phase[p] \notin {"cancelling", "closed"} => mem[d] = "ended"
       /\ phase[p] = "flushing" /\ dirty[d] => d \in flush[p]
       /\ phase[p] \in {"ownListing"} \cup HasListed => OnDisk(d)

Cleaned(p) ==
  phase[p] \in HasListed /\ "own" \notin met[p] =>
    \A d \in Of(p) : box[d] = "live" => d \in toRemove[p] \cup late \cup refused[p]

\* What a step may do to a deployment, and to one of a process that neither exits nor is
\* killed by it.
Ours(d, p) ==
  /\ mem[d] = "ended" => mem'[d] = "ended"
  /\ mem[d] # "running" => mem'[d] # "running"
  /\ mem[d] # "running" /\ OnDisk(d) => OnDisk(d)'
  /\ mem[d] # "running" /\ ~dirty[d] => ~dirty'[d]
  /\ phase[p] \in HasListed /\ box'[d] = "live" => box[d] = "live" \/ d \in late'
  /\ d \in late => d \in late'
  /\ d \in refused[p] => d \in refused'[p]

\* An ended deployment of p's stays so, and what is on disk of it too.
LEMMA ListedSteps ==
  ASSUME TypeOK, \A q \in Procs : Lists(q), [Next]_vars,
         NEW d \in Deployments, NEW p \in Procs, Told(d), Unowned(d)
  PROVE  /\ Told(d)' /\ Unowned(d)'
         /\ owner[d] = p /\ ~Exit(p) /\ ~Crash(p) => Ours(d, p)
<1> DEFINE Goal == /\ Told(d)' /\ Unowned(d)'
                   /\ owner[d] = p /\ ~Exit(p) /\ ~Crash(p) => Ours(d, p)
<1> USE DEF Told, Unowned, Ours, OnDisk, startVars, deployVars, histVars, faultVars, leftVars
<1>0. /\ mem \in [Deployments -> {"none", "running", "ended"}]
      /\ record \in [Deployments -> {"none", "running", "ended", "interrupted"}]
      /\ box \in [Deployments -> {"none", "asked", "live", "gone"}]
      /\ dirty \in [Deployments -> BOOLEAN] /\ owner \in [Deployments -> Procs \cup {Nobody}]
      /\ refused \in [Procs -> SUBSET Deployments]
      /\ owner[d] = Nobody => mem[d] = "none"
  BY DEF TypeOK
<1>1. ASSUME NEW q \in Procs,
             \/ Start(q) \/ (\E r \in Procs : ReadFile(q, r)) \/ RemoveFile(q)
             \/ RegisterOpen(q) \/ RegisterWrite(q) \/ ListBoxes(q) \/ ListRecords(q) \/ Listen(q)
      PROVE  Goal
  <2>1. UNCHANGED <<owner, mem, box, dirty, record, refused, unsaved, late>>
    BY <1>1 DEF Start, ReadFile, RemoveFile, RegisterOpen, RegisterWrite, ListBoxes, ListRecords,
                Listen
  <2> QED
    BY <1>0, <2>1
<1>2. ASSUME NEW q \in Procs, NEW e \in Deployments, RemoveBox(q, e) PROVE Goal
  <2>1. /\ UNCHANGED <<owner, mem, dirty, record, unsaved, late>>
        /\ owner[e] \in Procs
    BY <1>2 DEF RemoveBox, Lists
  <2>2. box'[d] = box[d] \/ (d = e /\ box'[d] = "gone")
    BY <1>0, <1>2 DEF RemoveBox
  <2>3. d \in refused[p] => d \in refused'[p]
    BY <1>0, <1>2 DEF RemoveBox
  <2> QED
    BY <1>0, <2>1, <2>2, <2>3, BoundsAssumption
<1>3. ASSUME NEW q \in Procs, NEW e \in Deployments, Mark(q, e) PROVE Goal
  <2>1. UNCHANGED <<owner, mem, dirty, box, refused, unsaved, late>>
    BY <1>3 DEF Mark
  <2>2. record'[d] = record[d] \/ record'[d] = "interrupted"
    BY <1>0, <1>3 DEF Mark
  <2> QED
    BY <1>0, <2>1, <2>2
<1>4. ASSUME NEW q \in Procs,
             Close(q) \/ Cancelled(q) \/ Flushed(q) \/ ListOwnBoxes(q) \/ Unregister(q)
      PROVE  Goal
  <2>1. UNCHANGED <<owner, mem, box, dirty, record, refused, unsaved, late>>
    BY <1>4 DEF Close, Cancelled, Flushed, ListOwnBoxes, Unregister
  <2> QED
    BY <1>0, <2>1
<1>5. ASSUME NEW q \in Procs, Exit(q) \/ Crash(q) PROVE Goal
  <2>1. /\ UNCHANGED <<owner, box, record, late>>
        /\ mem'[d] = IF owner[d] = q THEN "none" ELSE mem[d]
        /\ dirty'[d] = (dirty[d] /\ owner[d] # q)
    BY <1>0, <1>5 DEF Exit, Crash, Forgets
  <2>2. d \in unsaved /\ owner[d] # q => d \in unsaved'
    BY <1>5 DEF Exit, Crash, Of
  <2>3. d \in refused[p] /\ (p # q \/ Exit(q)) => d \in refused'[p]
    BY <1>0, <1>5 DEF Exit, Crash
  <2> QED
    BY <1>0, <1>5, <2>1, <2>2, <2>3
<1>6. ASSUME NEW q \in Procs, NEW e \in Deployments, Launch(q, e) PROVE Goal
  <2>1. UNCHANGED <<box, record, refused, unsaved, late>> /\ owner[e] = Nobody
    BY <1>6 DEF Launch
  <2>2. CASE e # d
    BY <1>0, <1>6, <2>1, <2>2 DEF Launch
  <2>3. CASE e = d
    BY <1>0, <1>6, <2>1, <2>3, BoundsAssumption DEF Launch
  <2> QED
    BY <2>2, <2>3
<1>7. ASSUME NEW e \in Deployments, AskBox(e) \/ TearDown(e) PROVE Goal
  <2>1. UNCHANGED <<owner, mem, dirty, record, refused, unsaved, late>>
    BY <1>7 DEF AskBox, TearDown
  <2>2. box'[d] = box[d] \/ (d = e /\ box'[d] # "live")
    BY <1>0, <1>7 DEF AskBox, TearDown
  <2>3. d = e /\ box'[d] # box[d] => owner[d] # Nobody
    BY <1>0, <1>7 DEF AskBox, TearDown
  <2> QED
    BY <1>0, <2>1, <2>2, <2>3
<1>8. ASSUME NEW e \in Deployments, BoxCreated(e) PROVE Goal
  <2>1. /\ UNCHANGED <<owner, mem, dirty, record, refused, unsaved>> /\ late \subseteq late'
        /\ box[e] = "asked" /\ box' = [box EXCEPT ![e] = "live"]
    BY <1>8 DEF BoxCreated
  <2>2. d = e /\ owner[d] = p /\ phase[p] \in HasListed => d \in late'
    BY <1>8 DEF BoxCreated, HasListed
  <2> QED
    BY <1>0, <2>1, <2>2
<1>9. ASSUME NEW e \in Deployments, Ends(e) PROVE Goal
  BY <1>0, <1>9 DEF Ends
<1>10. ASSUME NEW e \in Deployments, Persist(e) PROVE Goal
  <2>1. UNCHANGED <<owner, mem, box, refused, late>> /\ dirty[e] /\ dirty' = [dirty EXCEPT ![e] = FALSE]
    BY <1>10 DEF Persist
  <2>2. CASE e # d
    <3>1. record'[d] = record[d] /\ (d \in unsaved => d \in unsaved')
      BY <1>0, <1>10, <2>2 DEF Persist
    <3> QED
      BY <1>0, <2>1, <2>2, <3>1
  <2>3. CASE e = d
    <3>1. record'[d] = mem[d] \/ d \in unsaved'
      BY <1>0, <1>10, <2>3 DEF Persist
    <3> QED
      BY <1>0, <2>1, <2>3, <3>1
  <2> QED
    BY <2>2, <2>3
<1>11. ASSUME UNCHANGED vars PROVE Goal
  <2>1. UNCHANGED <<owner, mem, box, dirty, record, refused, unsaved, late>>
    BY <1>11 DEF vars
  <2> QED
    BY <1>0, <2>1
<1> HIDE DEF Goal
<1>12. Goal
  BY <1>1, <1>2, <1>3, <1>4, <1>5, <1>6, <1>7, <1>8, <1>9, <1>10, <1>11
  DEF Next, Startup, Shutdown, Deployment
<1> QED
  BY <1>12 DEF Goal

\* A step keeps what a process's closing relies on of its records.
LEMMA ClosesKept ==
  ASSUME TypeOK, \A q \in Procs : Lists(q), \A d \in Deployments : Told(d) /\ Unowned(d),
         [Next]_vars, NEW p \in Procs, Closes(p)
  PROVE  Closes(p)'
<1> USE DEF Closing, HasListed, OwnListed, Goes, startVars, deployVars, histVars, faultVars, leftVars
<1>1. list[p] \subseteq Deployments
  BY DEF TypeOK
<1>2. \A d \in Deployments :
        owner[d] = p => owner'[d] = p /\ (~Exit(p) /\ ~Crash(p) => Ours(d, p))
  BY ListedSteps, OwnerStays
<1> DEFINE Kept == /\ list'[p] = list[p] /\ flush'[p] = flush[p] /\ phase'[p] = phase[p]
                   /\ ~Exit(p) /\ ~Crash(p)
<1>3. ASSUME Kept PROVE Closes(p)'
  BY <1>1, <1>2, <1>3 DEF Closes, Ours, OnDisk
<1>4. CASE Startup(p)
  <2> DEFINE Begins == {"new", "reading", "registering", "writing", "listing", "removing",
                        "marking"}
  <2>1. list' = list /\ (phase[p] \in Begins \/ \E d \in Deployments : RemoveBox(p, d))
    <3>1. CASE Start(p) \/ (\E q \in Procs : ReadFile(p, q))
      BY <3>1 DEF Start, ReadFile
    <3>3. CASE RemoveFile(p)
      <4>1. list' = list /\ stale[p] # Nobody
        BY <3>3 DEF RemoveFile
      <4>2. phase[p] = "reading"
        BY <4>1 DEF TypeOK
      <4> QED
        BY <4>1, <4>2
    <3>2. CASE \/ RegisterOpen(p) \/ RegisterWrite(p) \/ ListBoxes(p) \/ ListRecords(p)
               \/ Listen(p) \/ \E d \in Deployments : RemoveBox(p, d) \/ Mark(p, d)
      BY <3>2 DEF RegisterOpen, RegisterWrite, ListBoxes, ListRecords, Listen, RemoveBox, Mark
    <3> QED
      BY <1>4, <3>1, <3>2, <3>3 DEF Startup
  <2>2. CASE \E d \in Deployments : RemoveBox(p, d)
    <3>1. UNCHANGED <<phase, list, flush>> /\ phase[p] \in Phases /\ p \in DOMAIN phase
      BY <2>2 DEF RemoveBox, TypeOK
    <3>2. ~Exit(p) /\ ~Crash(p)
      BY <3>1 DEF Exit, Crash, Alive, Gone
    <3> QED
      BY <1>3, <3>1, <3>2
  <2>3. CASE phase[p] \in Begins
    <3>1. list'[p] = {}
      BY <2>1, <2>3 DEF Closes
    <3> QED
      BY <3>1 DEF Closes
  <2> QED
    BY <2>1, <2>2, <2>3
<1>5. CASE Close(p)
  <2>1. phase'[p] = "cancelling" /\ list'[p] = Of(p) /\ owner' = owner
    BY <1>5 DEF Close, TypeOK
  <2> QED
    BY <2>1 DEF Closes, Of
<1>6. CASE Cancelled(p)
  <2>1. /\ phase'[p] = "flushing" /\ list'[p] = list[p] /\ UNCHANGED <<owner, mem, dirty>>
        /\ flush'[p] = {d \in Of(p) : dirty[d]} /\ \A d \in list[p] : mem[d] = "ended"
    BY <1>6 DEF Cancelled, TypeOK
  <2>2. \A d \in list[p] : owner[d] = p /\ (dirty[d] => d \in flush'[p])
    BY <1>1, <2>1 DEF Closes, Of
  <2> QED
    BY <2>1, <2>2 DEF Closes
<1>7. CASE Flushed(p)
  <2>1. /\ phase[p] = "flushing" /\ phase'[p] = "ownListing" /\ list'[p] = list[p]
        /\ UNCHANGED <<owner, mem, dirty, record, unsaved>> /\ \A d \in flush[p] : ~dirty[d]
    BY <1>7 DEF Flushed, TypeOK
  <2>2. \A d \in list[p] : OnDisk(d)
    BY <1>1, <2>1 DEF Closes, Told, OnDisk
  <2> QED
    BY <2>1, <2>2 DEF Closes, OnDisk
<1>8. CASE ListOwnBoxes(p) \/ Unregister(p)
  <2>1. /\ phase[p] \in {"ownListing", "ownRemoving"}
        /\ phase'[p] \in OwnListed /\ list'[p] = list[p]
        /\ UNCHANGED <<owner, mem, dirty, record, unsaved>>
    BY <1>8 DEF ListOwnBoxes, Unregister, TypeOK
  <2> QED
    BY <2>1 DEF Closes, OnDisk
<1>9. CASE Exit(p)
  <2>1. /\ phase[p] = "unregistering" /\ phase'[p] = "closed" /\ list'[p] = list[p]
        /\ UNCHANGED <<owner, record, unsaved>>
        /\ \A d \in Deployments : owner[d] = p => mem'[d] = "none" /\ ~dirty'[d]
    BY <1>9 DEF Exit, Forgets, TypeOK
  <2> QED
    BY <1>1, <2>1 DEF Closes, OnDisk
<1>10. CASE Crash(p)
  <2>1. list'[p] = {}
    BY <1>10 DEF Crash, TypeOK
  <2> QED
    BY <2>1 DEF Closes
<1>11. ASSUME ~Startup(p), ~Shutdown(p), ~Crash(p) PROVE Kept
  <2>1. Remembers(p)
    BY <1>11, OthersRemember
  <2> QED
    BY <1>11, <2>1 DEF Remembers, Shutdown
<1> HIDE DEF Kept
<1> QED
  BY <1>3, <1>4, <1>5, <1>6, <1>7, <1>8, <1>9, <1>10, <1>11 DEF Shutdown

\* A step keeps what a process's closing relies on of its containers.
LEMMA CleanedKept ==
  ASSUME TypeOK, \A q \in Procs : Lists(q), \A d \in Deployments : Told(d) /\ Unowned(d),
         [Next]_vars, NEW p \in Procs, Cleaned(p)
  PROVE  Cleaned(p)'
<1> USE DEF HasListed, OwnListed, Goes, startVars, deployVars, histVars, faultVars, leftVars
<1>1. \A d \in Deployments : owner[d] = p /\ ~Exit(p) /\ ~Crash(p) => Ours(d, p)
  BY ListedSteps
\* What a deployment launched by this very step leaves is nothing yet.
<1>2. \A d \in Deployments : owner'[d] = p => owner[d] = p \/ box'[d] = "none"
  <2> SUFFICES ASSUME NEW d \in Deployments, owner'[d] = p, owner[d] # p PROVE box'[d] = "none"
    OBVIOUS
  <2>1. PICK q \in Procs : Launch(q, d)
    BY OwnerStays
  <2> QED
    BY <2>1 DEF Launch, Unowned
<1> DEFINE Kept == /\ phase'[p] = phase[p] /\ met'[p] = met[p] /\ ~Exit(p) /\ ~Crash(p)
                   /\ \A d \in toRemove[p] : d \in toRemove'[p] \cup refused'[p] \/ box'[d] # "live"
<1>3. ASSUME Kept PROVE Cleaned(p)'
  BY <1>1, <1>2, <1>3 DEF Cleaned, Ours, Of
<1>4. CASE Startup(p)
  <2>1. ASSUME NEW d \in Deployments, RemoveBox(p, d) PROVE Kept
    <3>1. UNCHANGED <<phase, met>> /\ toRemove'[p] = toRemove[p] \ {d}
      BY <2>1 DEF RemoveBox, TypeOK
    <3>2. box'[d] # "live" \/ d \in refused'[p]
      BY <2>1 DEF RemoveBox, TypeOK
    <3>3. ~Exit(p) /\ ~Crash(p)
      BY <2>1 DEF RemoveBox, Exit, Crash, TypeOK
    <3> QED
      BY <3>1, <3>2, <3>3
  <2>2. (\A d \in Deployments : ~RemoveBox(p, d)) => phase'[p] \notin HasListed
    BY <1>4 DEF Startup, Start, ReadFile, RemoveFile, RegisterOpen, RegisterWrite, ListBoxes,
                ListRecords, Listen, Mark, TypeOK
  <2> QED
    BY <1>3, <2>1, <2>2 DEF Cleaned
<1>5. CASE Close(p) \/ Cancelled(p) \/ Flushed(p)
  <2>1. phase'[p] \notin HasListed
    BY <1>5 DEF Close, Cancelled, Flushed, TypeOK
  <2> QED
    BY <2>1 DEF Cleaned
<1>6. CASE ListOwnBoxes(p)
  <2>1. UNCHANGED <<owner, box>>
    BY <1>6 DEF ListOwnBoxes
  <2>2. CASE toRemove' = [toRemove EXCEPT ![p] = {d \in Of(p) : box[d] = "live"}]
    BY <2>1, <2>2 DEF Cleaned, Of, TypeOK
  <2>3. CASE Meets(p, "own", Of(p))
    BY <2>1, <2>3 DEF Cleaned, Of, Meets, TypeOK
  <2> QED
    BY <1>6, <2>2, <2>3 DEF ListOwnBoxes
<1>7. CASE Unregister(p)
  <2>1. phase[p] = "ownRemoving" /\ UNCHANGED <<owner, box, met, late, refused, toRemove>>
    BY <1>7 DEF Unregister
  <2> QED
    BY <2>1 DEF Cleaned, Of
<1>8. CASE Exit(p)
  <2>1. /\ phase[p] = "unregistering" /\ UNCHANGED <<owner, box, late, refused>>
        /\ met'[p] = met[p] \cap {"own"} /\ toRemove[p] = {}
    BY <1>8 DEF Exit, TypeOK
  <2> QED
    BY <2>1 DEF Cleaned, Of
<1>9. CASE Crash(p)
  <2>1. phase'[p] = "dead"
    BY <1>9 DEF Crash, TypeOK
  <2> QED
    BY <2>1 DEF Cleaned
<1>10. ASSUME ~Startup(p), ~Shutdown(p), ~Crash(p) PROVE Kept
  <2>1. Remembers(p)
    BY <1>10, OthersRemember
  <2> QED
    BY <1>10, <2>1 DEF Remembers, Shutdown
<1> HIDE DEF Kept
<1> QED
  BY <1>3, <1>4, <1>5, <1>6, <1>7, <1>8, <1>9, <1>10 DEF Shutdown

ClosedInv == /\ \A d \in Deployments : Told(d) /\ Unowned(d)
             /\ \A p \in Procs : Closes(p) /\ Cleaned(p)

\* What closing relies on holds in every state.
LEMMA ClosedInvariance == Spec => [](TypeOK /\ ClosedInv)
<1>1. Init => ClosedInv
  BY DEF Init, ClosedInv, Told, Unowned, Closes, Cleaned, HasListed, OwnListed
<1>2. SparedInv /\ ClosedInv /\ [Next]_vars => ClosedInv'
  <2> SUFFICES ASSUME SparedInv, ClosedInv, [Next]_vars PROVE ClosedInv'
    OBVIOUS
  <2>1. /\ TypeOK /\ \A q \in Procs : Lists(q)
        /\ \A d \in Deployments : Told(d) /\ Unowned(d)
    BY DEF SparedInv, SpareInv, ClosedInv
  <2>2. ASSUME NEW p \in Procs PROVE Closes(p)' /\ Cleaned(p)'
    BY <2>1, <2>2, ClosesKept, CleanedKept DEF ClosedInv
  <2>3. ASSUME NEW d \in Deployments, NEW p \in Procs PROVE Told(d)' /\ Unowned(d)'
    BY <2>1, <2>3, ListedSteps
  <2>4. ASSUME NEW d \in Deployments, Procs = {} PROVE Told(d)' /\ Unowned(d)'
    <3>1. \A e \in Deployments : mem[e] = "none" /\ owner[e] = Nobody
      BY <2>1, <2>4 DEF TypeOK
    <3>2. UNCHANGED <<mem, box, owner>>
      BY <2>1, <2>4, <3>1
      DEF Next, Deployment, AskBox, BoxCreated, TearDown, Ends, Persist, vars, Unowned
    <3> QED
      BY <2>1, <3>1, <3>2 DEF Told, Unowned
  <2> QED
    BY <2>2, <2>3, <2>4 DEF ClosedInv
<1>3. SparedInv => TypeOK
  BY DEF SparedInv
<1> QED
  BY <1>1, <1>2, <1>3, SparedInvariance, PTL DEF Spec

\* A process that has closed has ended on disk what it had when it began to, but for writes
\* that failed, and left no container of its own that it could list and Docker would
\* remove (server.ts close, SessionManager.shutdown, sweepOrphans).
THEOREM ClosingIsClean == Spec => []ClosedIsClean
<1>1. TypeOK /\ ClosedInv => ClosedIsClean
  <2> SUFFICES ASSUME TypeOK, ClosedInv, NEW p \in Procs, phase[p] = "closed"
               PROVE  /\ \A d \in list[p] : record[d] = "running" => d \in unsaved
                      /\ "own" \notin met[p] =>
                           \A d \in Of(p) : box[d] = "live" => d \in late \cup refused[p]
    BY DEF ClosedIsClean
  <2>1. toRemove[p] = {}
    BY DEF TypeOK
  <2> QED
    BY <2>1 DEF ClosedInv, Closes, Cleaned, OnDisk, HasListed
<1> QED
  BY <1>1, ClosedInvariance, PTL

=============================================================================
