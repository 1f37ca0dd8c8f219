---------------------- MODULE DeploymentRecords_proofs ----------------------
(***************************************************************************)
(* For any number of deployments, changes, crashes and failing writes, and *)
(* whatever the store keeps: the writes of a record follow one another, the *)
(* record catches up and never goes back, no write survives the request     *)
(* that forgets it, a restart leaves nothing that claims to run, and only   *)
(* a DELETE or newer records take one away.                                 *)
(***************************************************************************)
EXTENDS DeploymentRecords, FiniteSetTheorems, TLAPS

\* The changes of a deployment are numbered as they come, and each queues one write.
Numbered(s) == \A n \in Changes : step[s][n] # "none" <=> n <= change[s]

\* The chain: a write that has begun has every one before it behind it, one that
\* waits for nobody too, and the others wait for the one just before.
Before(s, n) == \A m \in Changes : m < n => step[s][m] = "done"

Chain(s) ==
  /\ \A n \in Changes :
       /\ step[s][n] \in InFlight \cup {"done"} => Before(s, n)
       /\ step[s][n] = "waiting" /\ after[s][n] = 0 => Before(s, n)
       /\ after[s][n] # 0 => after[s][n] = n - 1
  /\ saving[s] # 0 => saving[s] = change[s] /\ step[s][saving[s]] # "done"
  /\ saving[s] = 0 => \A n \in Changes : step[s][n] \in {"none", "done"}

\* What a write under way is going to rename over the record: not older than the
\* record, and what the deployment shows unless it has changed since.
Text(s) ==
  \A n \in Changes : step[s][n] \in InFlight =>
    /\ step[s][n] = "renaming" => tmp[s] = text[s][n]
    /\ text[s][n].change \in n..change[s]
    /\ text[s][n].change >= disk[s].change
    /\ text[s][n].change = change[s] => text[s][n].state = state[s]
    /\ text[s][n].state \in {"active", "cleaning", "ended"}

\* The record is of a change the deployment had, and of the last one when its last
\* write was not lost.
OnDisk(s) ==
  /\ disk[s].change <= change[s]
  /\ disk[s] = NoRecord <=> disk[s].change = 0
  /\ disk[s].state # "torn"
  /\ disk[s] # NoRecord => landed[s]
  /\ change[s] # 0 => state[s] \in {"active", "cleaning", "ended"}

Caught(s) ==
  Alive(s) /\ change[s] # 0 /\ step[s][change[s]] = "done" /\ failed[s] # change[s] =>
    disk[s] \in {NoRecord, Record(state[s], change[s])}

\* Who may still change a deployment: nobody one that has ended, unless the startup
\* bound ended it.
EndedForGood(s) == state[s] = "ended" /\ ~abandoned[s]

Drivers(s) ==
  /\ session[s] \in {"new", "lost"} => ~pipe[s] /\ ending[s] = {} /\ request[s] # "cancelling"
  /\ session[s] \in {"new", "lost"} => saving[s] = 0
  /\ session[s] = "new" => change[s] = 0 /\ state[s] = "none"
  /\ session[s] = "dropped" /\ ~abandoned[s] => state[s] = "ended"
  /\ ending[s] # {} \/ request[s] = "cancelling" => stopped[s] \/ abandoned[s]
  /\ EndedForGood(s) => stopped[s] \/ ~pipe[s]

\* An ended record is of a deployment that has ended, and so is every later one.
Ended(s) ==
  /\ disk[s].state = "ended" /\ ~abandoned[s] => state[s] = "ended"
  /\ \A n \in Changes : step[s][n] \in InFlight /\ ~abandoned[s] =>
       /\ text[s][n].state = "ended" => state[s] = "ended"
       /\ disk[s].state = "ended" => text[s][n].state = "ended"

\* DELETE: the writes there were when the record was forgotten are waited for.
Flushing(s) ==
  /\ forgotAt[s] <= change[s]
  /\ request[s] = "flushing" =>
       \A n \in Pending(s) : n <= forgotAt[s] => <<s, forgotAt[s]>> \in waits[s]
  /\ request[s] \in {"removing", "answered"} => \A n \in Pending(s) : n > forgotAt[s]

\* Until a process is up it runs nothing and takes no requests.
Quiet ==
  process # "up" =>
    \A s \in Ids : session[s] \in {"new", "lost"} /\ request[s] \in {"none", "answered"}

\* What a restart finds: the listing has every record, the marking every one that
\* claims to run.
Claims(s) == disk[s].state \in {"active", "cleaning"}

Found(s) ==
  /\ process = "starting" /\ disk[s] # NoRecord => s \in toRead \cup seen \cup toTrim
  /\ process = "marking" /\ Claims(s) => s \in toMark \/ unmarked[s]
  /\ process = "up" /\ session[s] = "lost" /\ Claims(s) => unmarked[s]
  /\ s \in toMark => Claims(s)

Listing ==
  /\ process = "starting" => lister \in {"reading", "trimming"}
  /\ process = "marking" => lister = "idle"
  /\ lister # "reading" => toRead = {}
  /\ lister \notin {"reading", "trimming"} => seen = {}
  /\ lister # "trimming" => toTrim = {}

\* The list trims what Keep newer records outnumber.
Newer(s) == {t \in Ids : t > s /\ landed[t]}

Kept(s) ==
  /\ s \in toRead \cup seen => landed[s]
  /\ s \in toTrim => Cardinality(Newer(s)) >= Keep
  /\ landed[s] /\ disk[s] = NoRecord =>
       request[s] = "answered" \/ Cardinality(Newer(s)) >= Keep

RecordInv(s) ==
  /\ Numbered(s) /\ Chain(s) /\ Text(s) /\ OnDisk(s) /\ Caught(s) /\ Drivers(s)
  /\ Ended(s) /\ Flushing(s) /\ Found(s) /\ Kept(s)

IInv == TypeOK /\ Quiet /\ Listing /\ \A s \in Ids : RecordInv(s)

-----------------------------------------------------------------------------
\* What a step may do to the writes of a deployment.

Queues(t) ==
  /\ change' = [change EXCEPT ![t] = @ + 1]
  /\ \E st \in {"active", "cleaning", "ended"} : state' = [state EXCEPT ![t] = st]
  /\ Persist(t, change[t] + 1)
  /\ UNCHANGED <<process, crashes, text, tmp, disk, listVars, histVars>>

\* While there is room for one more change, every deployment has had fewer than all.
LEMMA ChangeFits ==
  ASSUME TypeOK, NEW s \in Ids, Numbered(s), MayChange
  PROVE  change[s] + 1 \in Changes
<1> DEFINE W == {w \in Ids \X Changes : step[w[1]][w[2]] # "none"}
           f == [n \in 1..change[s] |-> <<s, n>>]
<1>1. change[s] \in Nat /\ 1..change[s] \subseteq Changes
  BY BoundsAssumption DEF TypeOK, Changes
<1>2. IsFiniteSet(W)
  <2>1. IsFiniteSet(Ids) /\ IsFiniteSet(Changes)
    BY FS_Interval, BoundsAssumption DEF Ids, Changes
  <2>2. IsFiniteSet(Ids \X Changes)
    BY <2>1, FS_Product
  <2> QED
    BY <2>2, FS_Subset
<1>3. f \in Injection(1..change[s], W)
  BY <1>1 DEF Injection, IsInjective, Numbered
<1>4. Cardinality(1..change[s]) <= Cardinality(W)
  BY <1>2, <1>3, FS_Injection
<1>5. Cardinality(1..change[s]) = change[s]
  BY <1>1, FS_Interval
<1>6. Cardinality(W) < MaxChanges
  BY DEF MayChange
<1>7. Cardinality(W) \in Nat
  BY <1>2, FS_CardinalityType
<1> QED
  BY <1>1, <1>4, <1>5, <1>6, <1>7, BoundsAssumption DEF Changes

\* A step queues a write, takes one further, is a crash, or leaves the writes alone.
LEMMA Kinds ==
  ASSUME Next
  PROVE  \/ \E t \in Ids : MayChange /\ Queues(t)
         \/ \E t \in Ids, n \in Changes : Turn(t, n) \/ Write(t, n) \/ Rename(t, n) \/ WriteFails(t, n)
         \/ Crash
         \/ /\ UNCHANGED <<writeVars, change, failed>>
            /\ UNCHANGED state \/ \E t \in Ids : Launch(t)
<1> DEFINE Quiets == /\ UNCHANGED <<writeVars, change, failed>>
                     /\ UNCHANGED state \/ \E t \in Ids : Launch(t)
           Queued == \E t \in Ids : MayChange /\ Queues(t)
<1> USE DEF sessionVars, writeVars, deleteVars, listVars, histVars
<1>1. ASSUME NEW t \in Ids, NEW st \in {"active", "cleaning", "ended"}, SetState(t, st) PROVE Queued
  BY <1>1 DEF SetState, Queues
<1>2. ASSUME NEW t \in Ids, Launch(t) PROVE Quiets
  BY <1>2 DEF Launch
<1>3. ASSUME NEW t \in Ids, Advance(t) \/ Fails(t) PROVE Queued
  BY <1>1, <1>3 DEF Advance, Fails
<1>4. ASSUME NEW t \in Ids, NEW e \in Enders, Begin(t, e) PROVE Queued
  BY <1>1, <1>4 DEF Begin, Begins
<1>5. ASSUME NEW t \in Ids, NEW e \in Enders, Finish(t, e) PROVE Queued \/ Quiets
  BY <1>1, <1>5 DEF Finish
<1>6. ASSUME NEW t \in Ids, Delete(t) PROVE Queued \/ Quiets
  BY <1>1, <1>6 DEF Delete, Begins
<1>7. ASSUME NEW t \in Ids, Cancelled(t) PROVE Queued
  BY <1>1, <1>7 DEF Cancelled
<1>8. ASSUME NEW t \in Ids, Flushed(t) \/ Removed(t) PROVE Quiets
  BY <1>8 DEF Flushed, Removed
<1>9. ASSUME Store PROVE Quiets
  BY <1>9 DEF Store, ListRecords, ListNames, ReadRecord, ListTrim, Trim, Listed
<1>10. ASSUME Listen \/ \E t \in Ids : Mark(t) \/ MarkFails(t) PROVE Quiets
  BY <1>10 DEF Listen, Mark, MarkFails
<1> QED
  BY <1>2, <1>3, <1>4, <1>5, <1>6, <1>7, <1>8, <1>9, <1>10
  DEF Next, Deployment, Writing, Recovery

-----------------------------------------------------------------------------
\* Types

\* What is held in memory loses only what has ended.
LEMMA EvictedOnes ==
  ASSUME NEW sn \in [Ids -> {"new", "held", "dropped", "lost"}], NEW st
  PROVE  /\ Evicted(sn, st) \in [Ids -> {"new", "held", "dropped", "lost"}]
         /\ \A s \in Ids :
              \/ Evicted(sn, st)[s] = sn[s]
              \/ sn[s] = "held" /\ st[s] = "ended" /\ Evicted(sn, st)[s] = "dropped"
  BY DEF Evicted, Finished

\* Forgetting the oldest of the finished sessions keeps the types.
LEMMA TypedEviction ==
  ASSUME TypeOK, Evicts
  PROVE  session' \in [Ids -> {"new", "held", "dropped", "lost"}]
<1>1. session \in [Ids -> {"new", "held", "dropped", "lost"}]
  BY DEF TypeOK
<1> QED
  BY <1>1, EvictedOnes DEF Evicts

\* A change of state, and the write it queues, keep the types.
LEMMA TypedChange ==
  ASSUME TypeOK, NEW t \in Ids, Numbered(t), NEW st \in {"active", "cleaning", "ended"},
         SetState(t, st)
  PROVE  /\ state' \in [Ids -> States]
         /\ change' \in [Ids -> 0..MaxChanges]
         /\ step' \in [Ids -> [Changes -> {"none", "waiting", "done"} \cup InFlight]]
         /\ after' \in [Ids -> [Changes -> 0..MaxChanges]]
         /\ saving' \in [Ids -> 0..MaxChanges]
         /\ \A s \in Ids, n \in Changes : after'[s][n] # 0 => step'[s][n] = "waiting"
         /\ UNCHANGED <<process, crashes, text, tmp, disk, listVars, histVars>>
<1>1. change[t] + 1 \in Changes
  BY ChangeFits DEF SetState
<1>2. change[t] + 1 \in 0..MaxChanges /\ change[t] \in Nat
  BY <1>1, BoundsAssumption DEF TypeOK, Changes
<1>3. state' \in [Ids -> States] /\ change' \in [Ids -> 0..MaxChanges]
  BY <1>2 DEF SetState, TypeOK, States
<1>4. step' \in [Ids -> [Changes -> {"none", "waiting", "done"} \cup InFlight]]
  BY <1>1 DEF SetState, Persist, TypeOK
<1>5. after' \in [Ids -> [Changes -> 0..MaxChanges]]
  BY <1>1 DEF SetState, Persist, TypeOK
<1>6. saving' \in [Ids -> 0..MaxChanges]
  BY <1>2 DEF SetState, Persist, TypeOK
<1>7. \A s \in Ids, n \in Changes : after'[s][n] # 0 => step'[s][n] = "waiting"
  BY <1>1 DEF SetState, Persist, TypeOK
<1> QED
  BY <1>3, <1>4, <1>5, <1>6, <1>7 DEF SetState

\* A write's steps keep the types.
LEMMA TypedWrite ==
  ASSUME TypeOK, \A s \in Ids : OnDisk(s) /\ Numbered(s), NEW t \in Ids, NEW n \in Changes,
         Turn(t, n) \/ Write(t, n) \/ Rename(t, n) \/ WriteFails(t, n)
  PROVE  TypeOK'
<1> USE DEF sessionVars, writeVars, deleteVars, listVars, histVars
<1>1. n \in 0..MaxChanges /\ 0 \in 0..MaxChanges
  BY BoundsAssumption DEF Changes
<1>2. CASE Turn(t, n)
  <2>1. Record(state[t], change[t]) \in Records /\ Torn \in Records
    <3>1. change[t] \in Changes \cup {0}
      BY DEF TypeOK, Changes
    <3> QED
      BY <3>1 DEF TypeOK, Records, Record, Torn, States
  <2>2. text' \in [Ids -> [Changes -> Records]] /\ tmp' \in [Ids -> Records]
    BY <1>2, <2>1 DEF Turn, TypeOK
  <2>3. /\ step' \in [Ids -> [Changes -> {"none", "waiting", "done"} \cup InFlight]]
        /\ after' \in [Ids -> [Changes -> 0..MaxChanges]]
        /\ \A s \in Ids, m \in Changes : after'[s][m] # 0 => step'[s][m] = "waiting"
    BY <1>1, <1>2 DEF Turn, TypeOK, InFlight
  <2> QED
    BY <1>2, <2>2, <2>3 DEF Turn, TypeOK
<1>3. CASE Write(t, n)
  <2>1. tmp' \in [Ids -> Records]
    BY <1>3 DEF Write, TypeOK
  <2>2. /\ step' \in [Ids -> [Changes -> {"none", "waiting", "done"} \cup InFlight]]
        /\ \A s \in Ids, m \in Changes : after'[s][m] # 0 => step'[s][m] = "waiting"
    BY <1>3 DEF Write, TypeOK, InFlight
  <2> QED
    BY <1>3, <2>1, <2>2 DEF Write, TypeOK
<1>4. CASE Rename(t, n) \/ WriteFails(t, n)
  <2>1. NoRecord \in Records
    BY DEF Records, Record, NoRecord, States
  <2>2. /\ step[t][n] \in InFlight
        /\ step' = [step EXCEPT ![t][n] = "done"]
        /\ text' = [text EXCEPT ![t][n] = NoRecord]
        /\ saving' = [saving EXCEPT ![t] = IF @ = n THEN 0 ELSE @]
        /\ UNCHANGED <<process, crashes, sessionVars, after, deleteVars, listVars, unmarked>>
    BY <1>4 DEF Rename, WriteFails, Settled, InFlight
  <2>3. text' \in [Ids -> [Changes -> Records]] /\ saving' \in [Ids -> 0..MaxChanges]
    BY <1>1, <2>1, <2>2 DEF TypeOK
  <2>4. /\ step' \in [Ids -> [Changes -> {"none", "waiting", "done"} \cup InFlight]]
        /\ \A s \in Ids, m \in Changes : after'[s][m] # 0 => step'[s][m] = "waiting"
    BY <2>2 DEF TypeOK, InFlight
  <2>5. CASE Rename(t, n)
    BY <2>1, <2>2, <2>3, <2>4, <2>5 DEF Rename, TypeOK
  <2>6. CASE WriteFails(t, n)
    BY <1>1, <2>2, <2>3, <2>4, <2>6 DEF WriteFails, TypeOK
  <2> QED
    BY <1>4, <2>5, <2>6
<1> QED
  BY <1>2, <1>3, <1>4

\* What a deployment does keeps the types.
LEMMA TypedDeployment ==
  ASSUME TypeOK, NEW t \in Ids, Numbered(t), Deployment(t)
  PROVE  TypeOK'
<1> USE EndersAssumption DEF sessionVars, deleteVars, listVars, histVars
<1>1. CASE Launch(t)
  <2>1. session' \in [Ids -> {"new", "held", "dropped", "lost"}]
    <3>1. [session EXCEPT ![t] = "held"] \in [Ids -> {"new", "held", "dropped", "lost"}]
      BY DEF TypeOK
    <3> QED
      BY <1>1, <3>1, EvictedOnes DEF Launch
  <2> QED
    BY <1>1, <2>1 DEF Launch, TypeOK, States, writeVars
<1>2. CASE Advance(t)
  BY <1>2, TypedChange DEF Advance, TypeOK
<1>3. CASE Fails(t)
  <2>1. session' \in [Ids -> {"new", "held", "dropped", "lost"}]
    BY <1>3, TypedEviction DEF Fails
  <2>2. SetState(t, "ended")
    BY <1>3 DEF Fails
  <2>3. pipe' \in [Ids -> BOOLEAN] /\ UNCHANGED <<stopped, ending, abandoned, deleteVars>>
    BY <1>3 DEF Fails, TypeOK
  <2> QED
    BY <2>1, <2>2, <2>3, TypedChange DEF TypeOK
<1>4. ASSUME NEW e \in Enders \cup {"delete"}, Begins(t, e)
      PROVE  /\ ending' \in [Ids -> SUBSET (Enders \cup {"delete"})]
             /\ stopped' \in [Ids -> BOOLEAN] /\ abandoned' \in [Ids -> BOOLEAN]
  <2>1. ending' \in [Ids -> SUBSET (Enders \cup {"delete"})]
    BY <1>4 DEF Begins, TypeOK
  <2>2. stopped[t] \in BOOLEAN /\ abandoned[t] \in BOOLEAN
    BY DEF TypeOK
  <2>3. stopped' \in [Ids -> BOOLEAN] /\ abandoned' \in [Ids -> BOOLEAN]
    BY <1>4, <2>2 DEF Begins, TypeOK
  <2> QED
    BY <2>1, <2>3
<1>5. ASSUME NEW e \in Enders, Begin(t, e) PROVE TypeOK'
  BY <1>4, <1>5, TypedChange DEF Begin, Begins, TypeOK
<1>6. ASSUME NEW e \in Enders, Finish(t, e) PROVE TypeOK'
  <2>1. ending' \in [Ids -> SUBSET (Enders \cup {"delete"})]
    BY <1>6 DEF Finish, TypeOK
  <2>2. CASE e = "abandon" /\ stopped[t]
    BY <1>6, <2>1, <2>2 DEF Finish, TypeOK, writeVars
  <2>3. CASE ~(e = "abandon" /\ stopped[t])
    <3>1. session' \in [Ids -> {"new", "held", "dropped", "lost"}]
      BY <1>6, <2>3, TypedEviction DEF Finish
    <3>2. SetState(t, "ended") /\ UNCHANGED <<stopped, pipe, abandoned, deleteVars>>
      BY <1>6, <2>3 DEF Finish
    <3> QED
      BY <2>1, <3>1, <3>2, TypedChange DEF TypeOK
  <2> QED
    BY <2>2, <2>3
<1>7. CASE Delete(t)
  <2>1. CASE session[t] = "held" /\ state[t] # "ended"
    <3>1. Begins(t, "delete") /\ request' = [request EXCEPT ![t] = "cancelling"]
          /\ UNCHANGED <<waits, forgotAt>> /\ request[t] = "none"
      BY <1>7, <2>1 DEF Delete
    <3>2. waits[t] = {}
      BY <3>1 DEF TypeOK
    <3> QED
      BY <1>4, <3>1, <3>2, TypedChange DEF Begins, TypeOK
  <2>2. CASE ~(session[t] = "held" /\ state[t] # "ended")
    <3>1. Forget(t) /\ session' = Forgotten(session, t)
          /\ UNCHANGED <<process, crashes, state, change, stopped, pipe, ending,
                           abandoned, writeVars, disk, listVars, histVars>>
      BY <1>7, <2>2 DEF Delete
    <3>2. Chains' \subseteq Ids \X Changes
      BY <3>1, BoundsAssumption DEF Chains, TypeOK, Changes, writeVars
    <3>3. session' \in [Ids -> {"new", "held", "dropped", "lost"}]
      BY <3>1 DEF Forgotten, TypeOK
    <3>4. /\ waits' \in [Ids -> SUBSET (Ids \X Changes)]
          /\ request' \in [Ids -> {"none", "cancelling", "flushing", "removing", "answered"}]
          /\ forgotAt' \in [Ids -> 0..MaxChanges]
          /\ \A s \in Ids : waits'[s] # {} => request'[s] = "flushing"
      BY <3>1, <3>2 DEF Forget, TypeOK
    <3> QED
      BY <3>1, <3>3, <3>4 DEF TypeOK, writeVars
  <2> QED
    BY <2>1, <2>2
<1>8. CASE Cancelled(t)
  <2>1. SetState(t, "ended") /\ Forget(t) /\ session' = Forgotten(Evicted(session, state'), t)
        /\ UNCHANGED <<stopped, pipe, abandoned>>
        /\ ending' = [ending EXCEPT ![t] = @ \ {"delete"}]
    BY <1>8 DEF Cancelled
  <2>2. /\ saving' \in [Ids -> 0..MaxChanges] /\ change' \in [Ids -> 0..MaxChanges]
    BY <2>1, TypedChange
  <2>3. Chains' \subseteq Ids \X Changes
    BY <2>2, BoundsAssumption DEF Chains, Changes
  <2>4. session' \in [Ids -> {"new", "held", "dropped", "lost"}]
    <3>1. session \in [Ids -> {"new", "held", "dropped", "lost"}]
      BY DEF TypeOK
    <3>2. Evicted(session, state') \in [Ids -> {"new", "held", "dropped", "lost"}]
      BY <3>1, EvictedOnes
    <3> QED
      BY <2>1, <3>2 DEF Forgotten
  <2>5. /\ waits' \in [Ids -> SUBSET (Ids \X Changes)]
        /\ request' \in [Ids -> {"none", "cancelling", "flushing", "removing", "answered"}]
        /\ forgotAt' \in [Ids -> 0..MaxChanges]
        /\ \A s \in Ids : waits'[s] # {} => request'[s] = "flushing"
    <3>1. change'[t] \in 0..MaxChanges
      BY <2>2
    <3>2. /\ request' = [request EXCEPT ![t] = "flushing"]
          /\ waits' = [waits EXCEPT ![t] = Chains']
          /\ forgotAt' = [forgotAt EXCEPT ![t] = change'[t]]
      BY <2>1 DEF Forget
    <3> QED
      BY <2>3, <3>1, <3>2 DEF TypeOK
  <2>6. ending' \in [Ids -> SUBSET (Enders \cup {"delete"})]
    BY <2>1 DEF TypeOK
  <2> QED
    BY <2>1, <2>4, <2>5, <2>6, TypedChange DEF TypeOK
<1>9. CASE Flushed(t) \/ Removed(t)
  <2>1. NoRecord \in Records
    BY DEF Records, Record, NoRecord, States
  <2>2. CASE Flushed(t)
    BY <2>2 DEF Flushed, TypeOK, writeVars
  <2>3. CASE Removed(t)
    <3>1. request[t] = "removing" /\ waits[t] = {}
      BY <2>3 DEF Removed, TypeOK
    <3> QED
      BY <2>1, <2>3, <3>1 DEF Removed, TypeOK, writeVars
  <2> QED
    BY <1>9, <2>2, <2>3
<1> QED
  BY <1>1, <1>2, <1>3, <1>5, <1>6, <1>7, <1>8, <1>9 DEF Deployment

\* What list, DELETE, a crash and a start do keeps the types.
LEMMA TypedStore ==
  ASSUME TypeOK, \A s \in Ids : OnDisk(s), Store \/ Recovery
  PROVE  TypeOK'
<1> USE BoundsAssumption DEF sessionVars, writeVars, deleteVars, listVars, histVars
<1>1. NoRecord \in Records
  BY DEF Records, Record, NoRecord, States
<1>2. CASE ListRecords
  <2>1. Chains \subseteq Ids \X Changes
    BY DEF Chains, TypeOK, Changes
  <2> QED
    BY <1>2, <2>1 DEF ListRecords, TypeOK
<1>3. CASE ListNames
  BY <1>3 DEF ListNames, TypeOK
<1>4. ASSUME NEW t \in Ids, ReadRecord(t) PROVE TypeOK'
  BY <1>4 DEF ReadRecord, TypeOK
<1>5. CASE ListTrim
  <2>1. lister' = "trimming" /\ listWaits' = listWaits /\ listWaits = {}
    BY <1>5 DEF ListTrim, TypeOK
  <2>2. toTrim' \in SUBSET Ids /\ seen' \in SUBSET Ids
    BY <1>5 DEF ListTrim, Oldest, TypeOK
  <2> QED
    BY <1>5, <2>1, <2>2 DEF ListTrim, TypeOK
<1>6. ASSUME NEW t \in Ids, Trim(t) PROVE TypeOK'
  BY <1>1, <1>6 DEF Trim, TypeOK
<1>7. CASE Listed
  BY <1>7 DEF Listed, Claiming, TypeOK
<1>8. CASE Crash
  <2>1. /\ step' \in [Ids -> [Changes -> {"none", "waiting", "done"} \cup InFlight]]
        /\ after' \in [Ids -> [Changes -> 0..MaxChanges]]
        /\ text' \in [Ids -> [Changes -> Records]]
        /\ \A s \in Ids, n \in Changes : after'[s][n] = 0
    BY <1>1, <1>8 DEF Crash, TypeOK
  <2>2. /\ session' \in [Ids -> {"new", "held", "dropped", "lost"}]
        /\ pipe' \in [Ids -> BOOLEAN]
        /\ ending' \in [Ids -> SUBSET (Enders \cup {"delete"})]
        /\ saving' \in [Ids -> 0..MaxChanges]
        /\ tmp' \in [Ids -> Records]
        /\ request' \in [Ids -> {"none", "cancelling", "flushing", "removing", "answered"}]
        /\ waits' \in [Ids -> SUBSET (Ids \X Changes)]
        /\ \A s \in Ids : waits'[s] = {}
    BY <1>1, <1>8 DEF Crash, TypeOK
  <2>3. /\ process' = "starting" /\ crashes' \in 0..MaxCrashes /\ lister' = "reading"
        /\ listWaits' = {} /\ toRead' \in SUBSET Ids /\ seen' = {} /\ toTrim' = {} /\ toMark' = {}
        /\ UNCHANGED <<state, change, stopped, abandoned, disk, forgotAt, failed, unmarked, landed>>
    BY <1>8 DEF Crash, TypeOK
  <2> QED
    BY <2>1, <2>2, <2>3 DEF TypeOK
<1>9. ASSUME NEW t \in Ids, Mark(t) PROVE TypeOK'
  <2>1. [disk[t] EXCEPT !.state = "interrupted"] \in Records
    <3>1. disk[t] \in Records
      BY DEF TypeOK
    <3> QED
      BY <3>1 DEF Records
  <2>2. disk' \in [Ids -> Records]
    BY <1>9, <2>1 DEF Mark, TypeOK
  <2> QED
    BY <1>9, <2>2 DEF Mark, TypeOK
<1>10. ASSUME NEW t \in Ids, MarkFails(t) PROVE TypeOK'
  <2>1. unmarked' \in [Ids -> BOOLEAN]
    BY <1>10 DEF MarkFails, TypeOK
  <2> QED
    BY <1>10, <2>1 DEF MarkFails, TypeOK
<1>11. CASE Listen
  BY <1>11 DEF Listen, TypeOK
<1> QED
  BY <1>2, <1>3, <1>4, <1>5, <1>6, <1>7, <1>8, <1>9, <1>10, <1>11 DEF Store, Recovery

\* Every step keeps the types.
LEMMA Typed ==
  ASSUME TypeOK, \A s \in Ids : Numbered(s) /\ OnDisk(s), [Next]_vars
  PROVE  TypeOK'
<1>1. CASE UNCHANGED vars
  BY <1>1 DEF vars, TypeOK, sessionVars, writeVars, deleteVars, listVars, histVars
<1> QED
  BY <1>1, TypedWrite, TypedDeployment, TypedStore DEF Next, Writing

-----------------------------------------------------------------------------
\* The writes of a deployment follow one another

\* Changes keep being numbered in the order they come.
LEMMA NumbersKept ==
  ASSUME TypeOK, \A t \in Ids : Numbered(t), Next, NEW s \in Ids
  PROVE  Numbered(s)'
<1>1. ASSUME NEW t \in Ids, MayChange, Queues(t) PROVE Numbered(s)'
  <2>1. change[t] + 1 \in Changes /\ change[s] \in Nat
    BY <1>1, ChangeFits, BoundsAssumption DEF TypeOK
  <2>2. CASE s # t
    BY <1>1, <2>2 DEF Queues, Persist, Numbered, TypeOK
  <2>3. CASE s = t
    <3>1. /\ change'[s] = change[s] + 1
          /\ \A n \in Changes :
               step'[s][n] = IF n = change[s] + 1 THEN "waiting" ELSE step[s][n]
      BY <1>1, <2>1, <2>3 DEF Queues, Persist, TypeOK
    <3> QED
      BY <2>1, <3>1 DEF Numbered, Changes
  <2> QED
    BY <2>2, <2>3
<1>2. ASSUME NEW t \in Ids, NEW n \in Changes,
             Turn(t, n) \/ Write(t, n) \/ Rename(t, n) \/ WriteFails(t, n)
      PROVE Numbered(s)'
  <2>1. change' = change
    BY <1>2 DEF Turn, Write, Rename, WriteFails, sessionVars
  <2>2. step[t][n] # "none"
    BY <1>2 DEF Turn, Write, Rename, WriteFails, InFlight
  <2>3. \A m \in Changes : step'[s][m] # "none" <=> step[s][m] # "none"
    BY <1>2, <2>2 DEF Turn, Write, Rename, WriteFails, Settled, InFlight, TypeOK
  <2> QED
    BY <2>1, <2>3 DEF Numbered
<1>3. CASE Crash
  BY <1>3 DEF Crash, Numbered, TypeOK
<1>4. CASE UNCHANGED <<writeVars, change>>
  BY <1>4 DEF Numbered, writeVars
<1> QED
  BY <1>1, <1>2, <1>3, <1>4, Kinds

\* Each write goes on waiting for the one queued before it.
LEMMA ChainKept ==
  ASSUME TypeOK, \A t \in Ids : Numbered(t), Next, NEW s \in Ids, Chain(s)
  PROVE  Chain(s)'
<1> USE DEF Chain, Before, InFlight
<1>1. ASSUME NEW t \in Ids, MayChange, Queues(t) PROVE Chain(s)'
  <2>1. change[t] + 1 \in Changes /\ change[s] \in Nat
    BY <1>1, ChangeFits, BoundsAssumption DEF TypeOK
  <2>2. CASE s # t
    BY <1>1, <2>2 DEF Queues, Persist, TypeOK
  <2>3. CASE s = t
    <3> DEFINE c == change[s] + 1
    <3>1. /\ change'[s] = c /\ saving'[s] = c /\ c \in Changes /\ c # 0
          /\ step'[s] = [step[s] EXCEPT ![c] = "waiting"]
          /\ after'[s] = [after[s] EXCEPT ![c] = saving[s]]
      BY <1>1, <2>1, <2>3 DEF Queues, Persist, TypeOK, Changes
    <3>2. \A n \in Changes : n # c => step'[s][n] = step[s][n] /\ after'[s][n] = after[s][n]
      BY <3>1 DEF TypeOK
    <3>3. step'[s][c] = "waiting" /\ after'[s][c] = saving[s]
      BY <3>1 DEF TypeOK
    <3>4. step[s][c] = "none"
      BY <2>1, <3>1 DEF Numbered, TypeOK
    <3>5. \A n \in Changes : step[s][n] # "none" => n < c
      BY <2>1, <3>1 DEF Numbered, Changes
    <3>6. saving[s] = 0 => \A m \in Changes : m < c => step[s][m] = "done"
      BY <2>1 DEF Numbered, Changes, TypeOK
    <3> QED
      <4>1. \A n \in Changes :
              /\ step'[s][n] \in InFlight \cup {"done"} => \A m \in Changes : m < n => step'[s][m] = "done"
              /\ step'[s][n] = "waiting" /\ after'[s][n] = 0 => \A m \in Changes : m < n => step'[s][m] = "done"
        <5> SUFFICES ASSUME NEW n \in Changes, NEW m \in Changes, m < n,
                            \/ step'[s][n] \in InFlight \cup {"done"}
                            \/ step'[s][n] = "waiting" /\ after'[s][n] = 0
                     PROVE  step'[s][m] = "done"
          OBVIOUS
        <5>1. CASE n = c
          BY <3>2, <3>3, <3>6, <5>1 DEF Changes
        <5>2. CASE n # c
          <6>1. step[s][n] # "none" /\ n < c
            BY <3>2, <3>5, <5>2
          <6>2. m # c /\ step[s][m] = "done"
            BY <2>1, <3>2, <5>2, <6>1 DEF Changes
          <6> QED
            BY <3>2, <6>2
        <5> QED
          BY <5>1, <5>2
      <4>2. \A n \in Changes : after'[s][n] # 0 => after'[s][n] = n - 1
        BY <2>1, <3>2, <3>3
      <4> QED
        BY <3>1, <3>3, <4>1, <4>2
  <2> QED
    BY <2>2, <2>3
<1>2. ASSUME NEW t \in Ids, NEW n \in Changes, Turn(t, n) PROVE Chain(s)'
  <2>1. CASE s # t
    BY <1>2, <2>1 DEF Turn, TypeOK, sessionVars
  <2>2. CASE s = t
    <3>1. /\ step[s][n] = "waiting" /\ HasTurn(s, n)
          /\ step'[s] = [step[s] EXCEPT ![n] = "writing"]
          /\ after'[s] = [after[s] EXCEPT ![n] = 0]
          /\ change'[s] = change[s] /\ saving'[s] = saving[s]
      BY <1>2, <2>2 DEF Turn, TypeOK, sessionVars
    <3>2. \A m \in Changes : m < n => step[s][m] = "done"
      <4>1. CASE after[s][n] = 0
        BY <3>1, <4>1
      <4>2. CASE after[s][n] # 0
        <5>1. n - 1 \in Changes /\ step[s][n - 1] = "done"
          BY <3>1, <4>2, BoundsAssumption DEF HasTurn, Changes, TypeOK
        <5>2. \A m \in Changes : m < n => m = n - 1 \/ m < n - 1
          BY DEF Changes
        <5> QED
          BY <5>1, <5>2
      <4> QED
        BY <4>1, <4>2
    <3>3. \A m \in Changes : m # n => step'[s][m] = step[s][m] /\ after'[s][m] = after[s][m]
      BY <3>1 DEF TypeOK
    <3>4. step'[s][n] = "writing" /\ after'[s][n] = 0
      BY <3>1 DEF TypeOK
    <3>5. \A k, m \in Changes : m < k /\ step[s][m] # "done" /\ step'[s][k] \in InFlight \cup {"done"} => FALSE
      BY <3>1, <3>2, <3>3 DEF Changes
    <3>6. saving[s] # 0 => saving[s] \in Changes
      BY DEF TypeOK, Changes
    <3> QED
      BY <3>1, <3>2, <3>3, <3>4, <3>5, <3>6 DEF Changes
  <2> QED
    BY <2>1, <2>2
<1>3. ASSUME NEW t \in Ids, NEW n \in Changes, Write(t, n) PROVE Chain(s)'
  BY <1>3 DEF Write, TypeOK, sessionVars
<1>4. ASSUME NEW t \in Ids, NEW n \in Changes, Rename(t, n) \/ WriteFails(t, n) PROVE Chain(s)'
  <2>1. /\ step[t][n] \in InFlight
        /\ step' = [step EXCEPT ![t][n] = "done"]
        /\ saving' = [saving EXCEPT ![t] = IF @ = n THEN 0 ELSE @]
        /\ change' = change /\ after' = after
    BY <1>4 DEF Rename, WriteFails, Settled, sessionVars
  <2>2. CASE s # t
    BY <2>1, <2>2 DEF TypeOK
  <2>3. CASE s = t
    <3>1. /\ step'[s][n] = "done"
          /\ \A m \in Changes : m # n => step'[s][m] = step[s][m]
          /\ saving'[s] = IF saving[s] = n THEN 0 ELSE saving[s]
      BY <2>1, <2>3 DEF TypeOK
    <3>2. \A m \in Changes : m < n => step[s][m] = "done"
      BY <2>1, <2>3
    <3>3. saving[s] \in Changes
      <4>1. saving[s] # 0
        BY <2>1, <2>3
      <4> QED
        BY <4>1 DEF TypeOK, Changes
    <3>4. CASE saving[s] = n
      <4>1. \A m \in Changes : step[s][m] # "none" => m <= n
        BY <3>3, <3>4 DEF Numbered, Changes
      <4>2. \A m \in Changes : step'[s][m] \in {"none", "done"}
        <5>1. \A m \in Changes : m < n \/ m = n \/ ~(m <= n)
          BY DEF Changes
        <5> QED
          BY <3>1, <3>2, <4>1, <5>1
      <4> QED
        BY <2>1, <3>1, <3>2, <3>4, <4>2 DEF Changes
    <3>5. CASE saving[s] # n
      BY <2>1, <3>1, <3>2, <3>3, <3>5 DEF Changes
    <3> QED
      BY <3>4, <3>5
  <2> QED
    BY <2>2, <2>3
<1>5. CASE Crash
  <2>1. \A n \in Changes : step'[s][n] = (IF step[s][n] = "none" THEN "none" ELSE "done") /\ after'[s][n] = 0
    BY <1>5 DEF Crash
  <2>2. saving'[s] = 0 /\ change' = change
    BY <1>5 DEF Crash
  <2>3. \A n, m \in Changes : step[s][n] # "none" /\ m < n => step[s][m] # "none"
    BY DEF Numbered, Changes, TypeOK
  <2> QED
    BY <2>1, <2>2, <2>3
<1>6. CASE UNCHANGED <<writeVars, change>>
  BY <1>6 DEF writeVars
<1> QED
  BY <1>1, <1>2, <1>3, <1>4, <1>5, <1>6, Kinds

-----------------------------------------------------------------------------
\* Who may still change a deployment

\* What an action of t leaves alone of every other deployment, and of t.
LEMMA OthersSession ==
  ASSUME TypeOK, NEW t \in Ids, Deployment(t), NEW s \in Ids
  PROVE  /\ \/ session'[s] = session[s]
            \/ session[s] = "held" /\ state'[s] = "ended" /\ session'[s] = "dropped"
            \/ s = t /\ Launch(t)
         /\ s # t => /\ state'[s] = state[s] /\ change'[s] = change[s] /\ pipe'[s] = pipe[s]
                     /\ stopped'[s] = stopped[s] /\ abandoned'[s] = abandoned[s]
                     /\ ending'[s] = ending[s] /\ request'[s] = request[s]
                     /\ saving'[s] = saving[s] /\ waits'[s] = waits[s]
                     /\ forgotAt'[s] = forgotAt[s]
<1> USE DEF sessionVars, writeVars, deleteVars, listVars, histVars
<1> DEFINE Same == /\ state'[s] = state[s] /\ change'[s] = change[s] /\ pipe'[s] = pipe[s]
                   /\ stopped'[s] = stopped[s] /\ abandoned'[s] = abandoned[s]
                   /\ ending'[s] = ending[s] /\ request'[s] = request[s]
                   /\ saving'[s] = saving[s] /\ waits'[s] = waits[s]
                   /\ forgotAt'[s] = forgotAt[s]
           Goes == \/ session'[s] = session[s]
                   \/ session[s] = "held" /\ state'[s] = "ended" /\ session'[s] = "dropped"
<1>1. session \in [Ids -> {"new", "held", "dropped", "lost"}]
  BY DEF TypeOK
<1>2. Evicts => Goes
  BY <1>1, EvictedOnes DEF Evicts
<1>3. ASSUME NEW st, SetState(t, st), s # t
      PROVE  state'[s] = state[s] /\ change'[s] = change[s] /\ saving'[s] = saving[s]
  BY <1>3 DEF SetState, Persist, TypeOK
<1>4. CASE Launch(t)
  <2>1. s # t => Goes
    <3> DEFINE sn == [session EXCEPT ![t] = "held"]
    <3>1. sn \in [Ids -> {"new", "held", "dropped", "lost"}] /\ (s # t => sn[s] = session[s])
      BY <1>1
    <3>2. session' = Evicted(sn, state')
      BY <1>4 DEF Launch
    <3> HIDE DEF sn
    <3>3. \/ Evicted(sn, state')[s] = sn[s]
          \/ sn[s] = "held" /\ state'[s] = "ended" /\ Evicted(sn, state')[s] = "dropped"
      BY <3>1, EvictedOnes
    <3> QED
      BY <3>1, <3>2, <3>3
  <2>2. s # t => Same
    BY <1>4 DEF Launch, TypeOK
  <2> QED
    BY <1>4, <2>1, <2>2
<1>5. CASE Advance(t)
  BY <1>3, <1>5 DEF Advance
<1>6. CASE Fails(t)
  <2>1. s # t => pipe'[s] = pipe[s]
    BY <1>6 DEF Fails, TypeOK
  <2> QED
    BY <1>2, <1>3, <1>6, <2>1 DEF Fails
<1>7. ASSUME NEW e, Begins(t, e), s # t
      PROVE  ending'[s] = ending[s] /\ stopped'[s] = stopped[s] /\ abandoned'[s] = abandoned[s]
  BY <1>7 DEF Begins, TypeOK
<1>8. ASSUME NEW e \in Enders, Begin(t, e) PROVE Goes /\ (s # t => Same)
  BY <1>3, <1>7, <1>8 DEF Begin, Begins
<1>9. ASSUME NEW e \in Enders, Finish(t, e) PROVE Goes /\ (s # t => Same)
  <2>1. s # t => ending'[s] = ending[s]
    BY <1>9 DEF Finish, TypeOK
  <2> QED
    BY <1>2, <1>3, <1>9, <2>1 DEF Finish
<1>10. CASE Delete(t)
  <2>1. CASE session[t] = "held" /\ state[t] # "ended"
    <3>1. s # t => request'[s] = request[s]
      BY <1>10, <2>1 DEF Delete, TypeOK
    <3> QED
      BY <1>3, <1>7, <1>10, <2>1, <3>1 DEF Delete, Begins
  <2>2. CASE ~(session[t] = "held" /\ state[t] # "ended")
    <3>1. Goes
      BY <1>10, <2>2 DEF Delete, Forgotten, TypeOK
    <3>2. s # t => request'[s] = request[s] /\ waits'[s] = waits[s] /\ forgotAt'[s] = forgotAt[s]
      BY <1>10, <2>2 DEF Delete, Forget, TypeOK
    <3> QED
      BY <1>10, <2>2, <3>1, <3>2 DEF Delete
  <2> QED
    BY <2>1, <2>2
<1>11. CASE Cancelled(t)
  <2>1. Evicted(session, state') \in [Ids -> {"new", "held", "dropped", "lost"}]
    BY <1>1, EvictedOnes
  <2>2. SetState(t, "ended") /\ session' = Forgotten(Evicted(session, state'), t) /\ Forget(t)
        /\ UNCHANGED <<stopped, pipe, abandoned>> /\ ending' = [ending EXCEPT ![t] = @ \ {"delete"}]
    BY <1>11 DEF Cancelled
  <2>3. state'[t] = "ended"
    BY <2>2 DEF SetState, TypeOK
  <2>4. \/ session'[s] = Evicted(session, state')[s]
        \/ s = t /\ Evicted(session, state')[s] = "held" /\ session'[s] = "dropped"
    BY <2>1, <2>2 DEF Forgotten
  <2>5. \/ Evicted(session, state')[s] = session[s]
        \/ session[s] = "held" /\ state'[s] = "ended" /\ Evicted(session, state')[s] = "dropped"
    BY <1>1, EvictedOnes
  <2>6. Goes
    BY <2>3, <2>4, <2>5
  <2>7. s # t => /\ ending'[s] = ending[s] /\ request'[s] = request[s]
                 /\ waits'[s] = waits[s] /\ forgotAt'[s] = forgotAt[s]
    BY <2>2 DEF Forget, TypeOK
  <2> QED
    BY <1>3, <2>2, <2>6, <2>7
<1>12. CASE Flushed(t)
  <2>1. s # t => request'[s] = request[s] /\ waits'[s] = waits[s]
    BY <1>12 DEF Flushed, TypeOK
  <2> QED
    BY <1>12, <2>1 DEF Flushed
<1>13. CASE Removed(t)
  <2>1. s # t => request'[s] = request[s]
    BY <1>13 DEF Removed, TypeOK
  <2> QED
    BY <1>13, <2>1 DEF Removed
<1> QED
  BY <1>4, <1>5, <1>6, <1>8, <1>9, <1>10, <1>11, <1>12, <1>13 DEF Deployment

\* Writes, the store and a restart leave the deployments themselves alone.
LEMMA OnlyDeployments ==
  ASSUME Next, ~Crash, ~\E t \in Ids : Deployment(t)
  PROVE  /\ UNCHANGED <<crashes, sessionVars, deleteVars>>
         /\ \/ UNCHANGED saving
            \/ \E t \in Ids, n \in Changes :
                 saving' = [saving EXCEPT ![t] = IF @ = n THEN 0 ELSE @]
<1> USE DEF writeVars, listVars, histVars
<1>1. CASE Store
  BY <1>1 DEF Store, ListRecords, ListNames, ReadRecord, ListTrim, Trim, Listed
<1>2. CASE Listen \/ \E t \in Ids : Mark(t) \/ MarkFails(t)
  BY <1>2 DEF Listen, Mark, MarkFails
<1>3. ASSUME NEW t \in Ids, NEW n \in Changes,
             Turn(t, n) \/ Write(t, n) \/ Rename(t, n) \/ WriteFails(t, n)
      PROVE  /\ UNCHANGED <<crashes, sessionVars, deleteVars>>
             /\ saving' = saving \/ saving' = [saving EXCEPT ![t] = IF @ = n THEN 0 ELSE @]
  BY <1>3 DEF Turn, Write, Rename, WriteFails, Settled
<1> QED
  BY <1>1, <1>2, <1>3 DEF Next, Writing, Recovery

\* At most one write of a record goes on being past its turn.
LEMMA DriversKept ==
  ASSUME TypeOK, Next, NEW s \in Ids, Drivers(s)
  PROVE  Drivers(s)'
<1>1. CASE Crash
  BY <1>1 DEF Crash, Drivers, EndedForGood, TypeOK
<1>2. CASE ~Crash /\ ~\E t \in Ids : Deployment(t)
  <2>1. UNCHANGED <<sessionVars, deleteVars>>
    BY <1>2, OnlyDeployments
  <2>2. saving[s] = 0 => saving'[s] = 0
    BY <1>2, OnlyDeployments DEF TypeOK
  <2> QED
    BY <2>1, <2>2 DEF Drivers, EndedForGood, sessionVars, deleteVars
<1>3. ASSUME NEW t \in Ids, Deployment(t), t # s PROVE Drivers(s)'
  <2>1. \/ session'[s] = session[s]
        \/ session[s] = "held" /\ state'[s] = "ended" /\ session'[s] = "dropped"
    BY <1>3, OthersSession
  <2>2. /\ state'[s] = state[s] /\ change'[s] = change[s] /\ pipe'[s] = pipe[s]
        /\ stopped'[s] = stopped[s] /\ abandoned'[s] = abandoned[s]
        /\ ending'[s] = ending[s] /\ request'[s] = request[s] /\ saving'[s] = saving[s]
    BY <1>3, OthersSession
  <2> QED
    BY <2>1, <2>2 DEF Drivers, EndedForGood
<1>4. CASE Deployment(s)
  <2> USE DEF Drivers, EndedForGood
  <2>1. \/ session'[s] = session[s]
        \/ session[s] = "held" /\ state'[s] = "ended" /\ session'[s] = "dropped"
        \/ Launch(s)
    BY <1>4, OthersSession
  <2>2. ASSUME NEW st, SetState(s, st) PROVE state'[s] = st
    BY <2>2 DEF SetState, TypeOK
  <2>3. CASE Launch(s)
    <3>1. session'[s] = "held"
      <4> DEFINE sn == [session EXCEPT ![s] = "held"]
      <4>1. sn \in [Ids -> {"new", "held", "dropped", "lost"}] /\ sn[s] = "held"
        BY DEF TypeOK
      <4>2. session' = Evicted(sn, state') /\ state'[s] # "ended"
        BY <2>3 DEF Launch, TypeOK
      <4> HIDE DEF sn
      <4> QED
        BY <4>1, <4>2, EvictedOnes
    <3>2. session[s] = "new" /\ state'[s] = "active"
      BY <2>3 DEF Launch, TypeOK
    <3>3. UNCHANGED <<stopped, ending, abandoned, request>>
      BY <2>3 DEF Launch, deleteVars
    <3> QED
      BY <3>1, <3>2, <3>3
  <2>4. CASE Advance(s)
    <3>1. SetState(s, "active") /\ pipe[s] /\ UNCHANGED <<session, stopped, pipe, ending, abandoned, request>>
      BY <2>4 DEF Advance, deleteVars
    <3>2. state'[s] = "active" /\ session[s] \in {"held", "dropped"} /\ ~stopped[s]
      BY <2>2, <2>4, <3>1 DEF Advance, TypeOK
    <3> QED
      BY <3>1, <3>2
  <2>5. CASE Fails(s)
    <3>1. /\ SetState(s, "ended") /\ pipe[s] /\ pipe'[s] = FALSE
          /\ UNCHANGED <<stopped, ending, abandoned, request>>
      BY <2>5 DEF Fails, deleteVars, TypeOK
    <3>2. state'[s] = "ended" /\ session[s] \in {"held", "dropped"} /\ ~Launch(s)
      BY <2>2, <3>1 DEF Launch, TypeOK
    <3> QED
      BY <2>1, <3>1, <3>2
  <2>6. ASSUME NEW e, Begins(s, e)
        PROVE  /\ state'[s] = "cleaning" /\ session[s] = "held" /\ session' = session
               /\ (stopped'[s] \/ abandoned'[s]) /\ pipe'[s] = pipe[s]
               /\ abandoned[s] => abandoned'[s]
    <3>1. state'[s] = "cleaning" /\ session[s] = "held" /\ UNCHANGED <<session, pipe>>
      BY <2>2, <2>6 DEF Begins
    <3>2. stopped'[s] = (stopped[s] \/ e # "abandon")
      BY <2>6 DEF Begins, TypeOK
    <3>3. abandoned'[s] = (abandoned[s] \/ e = "abandon")
      BY <2>6 DEF Begins, TypeOK
    <3> QED
      BY <3>1, <3>2, <3>3
  <2>7. ASSUME NEW e \in Enders, Begin(s, e) PROVE Drivers(s)'
    BY <2>6, <2>7 DEF Begin
  <2>8. ASSUME NEW e \in Enders, Finish(s, e) PROVE Drivers(s)'
    <3>1. /\ UNCHANGED <<stopped, pipe, abandoned, request>> /\ ending[s] # {}
          /\ session[s] \in {"held", "dropped"} /\ ~Launch(s)
      BY <2>8 DEF Finish, deleteVars, Launch, TypeOK
    <3>2. CASE e = "abandon" /\ stopped[s]
      BY <2>8, <3>1, <3>2 DEF Finish
    <3>3. CASE ~(e = "abandon" /\ stopped[s])
      <4>1. state'[s] = "ended"
        BY <2>2, <2>8, <3>3 DEF Finish
      <4> QED
        BY <2>1, <3>1, <4>1
    <3> QED
      BY <3>2, <3>3
  <2>9. CASE Delete(s)
    <3>1. CASE session[s] = "held" /\ state[s] # "ended"
      BY <2>6, <2>9, <3>1 DEF Delete
    <3>2. CASE ~(session[s] = "held" /\ state[s] # "ended")
      <4>1. /\ UNCHANGED <<state, change, stopped, pipe, ending, abandoned, saving>>
            /\ request'[s] = "flushing" /\ session' = Forgotten(session, s)
        BY <2>9, <3>2 DEF Delete, Forget, writeVars, TypeOK
      <4>2. session'[s] = IF session[s] = "held" THEN "dropped" ELSE session[s]
        BY <4>1 DEF Forgotten, TypeOK
      <4> QED
        BY <3>2, <4>1, <4>2
    <3> QED
      BY <3>1, <3>2
  <2>10. CASE Cancelled(s)
    <3>1. /\ SetState(s, "ended") /\ request[s] = "cancelling" /\ request'[s] = "flushing"
          /\ UNCHANGED <<stopped, pipe, abandoned>>
      BY <2>10 DEF Cancelled, Forget, TypeOK
    <3>2. state'[s] = "ended" /\ session[s] \in {"held", "dropped"} /\ ~Launch(s)
      BY <2>2, <3>1 DEF TypeOK, Launch, deleteVars
    <3> QED
      BY <2>1, <3>1, <3>2
  <2>11. CASE Flushed(s) \/ Removed(s)
    <3>1. UNCHANGED <<sessionVars, saving>> /\ request'[s] # "cancelling"
      BY <2>11 DEF Flushed, Removed, writeVars, TypeOK
    <3> QED
      BY <3>1 DEF sessionVars
  <2> QED
    BY <1>4, <2>3, <2>4, <2>5, <2>7, <2>8, <2>9, <2>10, <2>11 DEF Deployment
<1> QED
  BY <1>1, <1>2, <1>3, <1>4

-----------------------------------------------------------------------------
\* The record: what is on disk, what is being written, what the deployment shows

Data(s) == Text(s) /\ OnDisk(s) /\ Caught(s) /\ Ended(s)

\* An ending begins with a deployment that has not ended, and keeps its session.
LEMMA BeginsSays ==
  ASSUME TypeOK, NEW t \in Ids, NEW e, Begins(t, e), NEW s \in Ids
  PROVE  /\ abandoned[s] => abandoned'[s]
         /\ state[t] # "ended" /\ session' = session
<1>1. abandoned' = [abandoned EXCEPT ![t] = @ \/ e = "abandon"]
  BY DEF Begins
<1> QED
  BY <1>1 DEF Begins, TypeOK

\* What ended for good stays ended, and no deployment comes back to life.
LEMMA Steady ==
  ASSUME TypeOK, Next, NEW s \in Ids, Drivers(s)
  PROVE  /\ abandoned[s] => abandoned'[s]
         /\ EndedForGood(s) => state'[s] = "ended"
         /\ Alive(s)' => Alive(s) \/ session[s] = "new"
<1>1. CASE Crash
  BY <1>1 DEF Crash, EndedForGood, Alive
<1>2. CASE ~Crash /\ ~\E t \in Ids : Deployment(t)
  BY <1>2, OnlyDeployments DEF EndedForGood, Alive, sessionVars
<1>3. ASSUME NEW t \in Ids, Deployment(t), t # s
      PROVE  /\ abandoned'[s] = abandoned[s] /\ state'[s] = state[s]
             /\ Alive(s)' => Alive(s) \/ session[s] = "new"
  BY <1>3, OthersSession DEF Alive
<1>4. CASE Deployment(s)
  <2>1. Alive(s)' => Alive(s) \/ session[s] = "new"
    BY <1>4, OthersSession DEF Alive, Launch
  <2>2. ASSUME NEW st, SetState(s, st) PROVE state'[s] = st
    BY <2>2 DEF SetState, TypeOK
  <2>3. CASE Launch(s)
    BY <2>1, <2>3 DEF Launch, EndedForGood, Drivers
  <2>4. CASE Advance(s)
    BY <2>1, <2>4 DEF Advance, EndedForGood, Drivers
  <2>5. CASE Fails(s)
    BY <2>1, <2>2, <2>5 DEF Fails
  <2>6. ASSUME NEW e \in Enders, Begin(s, e)
        PROVE  (abandoned[s] => abandoned'[s]) /\ state[s] # "ended"
    BY <2>6, BeginsSays DEF Begin
  <2>7. ASSUME NEW e \in Enders, Finish(s, e)
        PROVE  abandoned'[s] = abandoned[s] /\ (state'[s] = "ended" \/ state' = state)
    BY <2>2, <2>7 DEF Finish
  <2>8. CASE Delete(s)
    <3>1. CASE session[s] = "held" /\ state[s] # "ended"
      <4>1. Begins(s, "delete")
        BY <2>8, <3>1 DEF Delete
      <4>2. (abandoned[s] => abandoned'[s]) /\ state[s] # "ended"
        BY <4>1, BeginsSays
      <4> QED
        BY <2>1, <4>2 DEF EndedForGood
    <3>2. CASE ~(session[s] = "held" /\ state[s] # "ended")
      BY <2>1, <2>8, <3>2 DEF Delete, EndedForGood
    <3> QED
      BY <3>1, <3>2
  <2>9. CASE Cancelled(s)
    BY <2>1, <2>2, <2>9 DEF Cancelled
  <2>10. CASE Flushed(s) \/ Removed(s)
    BY <2>1, <2>10 DEF Flushed, Removed, EndedForGood, sessionVars
  <2> QED
    BY <1>4, <2>1, <2>3, <2>4, <2>5, <2>6, <2>7, <2>8, <2>9, <2>10 DEF Deployment, EndedForGood
<1> QED
  BY <1>1, <1>2, <1>3, <1>4 DEF EndedForGood

\* A record changes only by the rename of a write of it, by its removal, and by the
\* marking of a restart.
LEMMA DiskSteps ==
  ASSUME TypeOK, Next, NEW s \in Ids
  PROVE  /\ \/ disk'[s] = disk[s]
            \/ disk'[s] = NoRecord /\ (Removed(s) \/ Trim(s))
            \/ Mark(s)
            \/ \E n \in Changes : Rename(s, n)
         /\ landed[s] => landed'[s]
         /\ landed'[s] = landed[s] \/ \E n \in Changes : Rename(s, n)
<1> USE DEF sessionVars, writeVars, deleteVars, listVars, histVars
<1>1. ASSUME NEW t \in Ids, Deployment(t), ~Removed(t) PROVE disk' = disk /\ landed' = landed
  BY <1>1 DEF Deployment, Launch, Advance, Fails, Begin, Begins, Finish, Delete, Cancelled, Flushed,
              SetState
<1>2. ASSUME NEW t \in Ids, Removed(t)
      PROVE  (disk'[s] = disk[s] \/ (disk'[s] = NoRecord /\ Removed(s))) /\ landed' = landed
  <2>1. /\ disk' = [disk EXCEPT ![t] = NoRecord] /\ landed' = landed
    BY <1>2 DEF Removed
  <2>2. disk'[s] = IF s = t THEN NoRecord ELSE disk[s]
    BY <2>1 DEF TypeOK
  <2> QED
    BY <1>2, <2>1, <2>2
<1>3. ASSUME Store
      PROVE  (disk'[s] = disk[s] \/ (disk'[s] = NoRecord /\ Trim(s))) /\ landed' = landed
  <2>1. ASSUME NEW t \in Ids, Trim(t)
        PROVE  (disk'[s] = disk[s] \/ (disk'[s] = NoRecord /\ Trim(s))) /\ landed' = landed
    <3>1. t \in toTrim /\ disk' = [disk EXCEPT ![t] = NoRecord] /\ landed' = landed
      BY <2>1 DEF Trim
    <3>2. disk'[s] = IF s = t THEN NoRecord ELSE disk[s]
      BY <3>1 DEF TypeOK
    <3> QED
      BY <2>1, <3>1, <3>2
  <2>2. ASSUME ListRecords \/ ListNames \/ ListTrim \/ Listed \/ \E t \in Ids : ReadRecord(t)
        PROVE  disk' = disk /\ landed' = landed
    BY <2>2 DEF ListRecords, ListNames, ReadRecord, ListTrim, Listed
  <2> QED
    BY <1>3, <2>1, <2>2 DEF Store
<1>4. ASSUME NEW t \in Ids, Mark(t) PROVE (disk'[s] = disk[s] \/ t = s) /\ landed' = landed
  BY <1>4 DEF Mark, TypeOK
<1>5. ASSUME Crash \/ Listen \/ \E t \in Ids : MarkFails(t) PROVE disk' = disk /\ landed' = landed
  BY <1>5 DEF Crash, Listen, MarkFails
<1>6. ASSUME NEW t \in Ids, NEW n \in Changes, Rename(t, n)
      PROVE /\ disk'[s] = disk[s] \/ t = s
            /\ landed[s] => landed'[s]
            /\ landed'[s] = landed[s] \/ t = s
  <2>1. disk' = [disk EXCEPT ![t] = tmp[t]] /\ landed' = [landed EXCEPT ![t] = TRUE]
    BY <1>6 DEF Rename
  <2>2. disk \in [Ids -> Records] /\ landed \in [Ids -> BOOLEAN]
    BY DEF TypeOK
  <2>3. t # s => disk'[s] = disk[s]
    BY <2>1, <2>2
  <2>4. t # s => landed'[s] = landed[s]
    BY <2>1, <2>2
  <2>5. t = s => landed'[s] = TRUE
    BY <2>1, <2>2
  <2> QED
    BY <2>3, <2>4, <2>5
<1>7. ASSUME NEW t \in Ids, NEW n \in Changes, Turn(t, n) \/ Write(t, n) \/ WriteFails(t, n)
      PROVE disk' = disk /\ landed' = landed
  BY <1>7 DEF Turn, Write, WriteFails
<1>8. CASE \E t \in Ids : Deployment(t)
  BY <1>1, <1>2, <1>8
<1>9. CASE Recovery
  BY <1>4, <1>5, <1>9 DEF Recovery
<1>10. CASE \E t \in Ids : Writing(t)
  <2>1. PICK t \in Ids, n \in Changes : Turn(t, n) \/ Write(t, n) \/ Rename(t, n) \/ WriteFails(t, n)
    BY <1>10 DEF Writing
  <2>2. CASE Rename(t, n)
    BY <1>6, <2>2
  <2> QED
    BY <1>7, <2>1, <2>2
<1> QED
  BY <1>3, <1>8, <1>9, <1>10 DEF Next

\* What the state and the last change of a deployment say of it stays true.
LEMMA Standing ==
  ASSUME TypeOK, Next, NEW s \in Ids, Drivers(s), OnDisk(s)
  PROVE  /\ change[s] <= change'[s] /\ change'[s] \in Nat
         /\ change'[s] = change[s] /\ change[s] # 0 => state'[s] = state[s]
         /\ change'[s] # 0 => state'[s] \in {"active", "cleaning", "ended"}
<1>0. change[s] \in Nat
  BY DEF TypeOK
<1>1. ASSUME NEW t \in Ids, Queues(t) PROVE s # t => change'[s] = change[s] /\ state'[s] = state[s]
  BY <1>1 DEF Queues, TypeOK
<1>2. ASSUME Queues(s)
      PROVE  change'[s] = change[s] + 1 /\ state'[s] \in {"active", "cleaning", "ended"}
  BY <1>2 DEF Queues, TypeOK
<1>3. ASSUME NEW t \in Ids, NEW n \in Changes,
             Turn(t, n) \/ Write(t, n) \/ Rename(t, n) \/ WriteFails(t, n)
      PROVE  UNCHANGED <<change, state>>
  BY <1>3 DEF Turn, Write, Rename, WriteFails, sessionVars
<1>4. Crash => UNCHANGED <<change, state>>
  BY DEF Crash
<1>5. ASSUME NEW t \in Ids, Launch(t), UNCHANGED change
      PROVE  change'[s] # 0 => state'[s] = state[s]
  BY <1>5 DEF Launch, Drivers, TypeOK
<1>6. CASE \E t \in Ids : Queues(t)
  BY <1>0, <1>1, <1>2, <1>6 DEF OnDisk
<1>7. CASE UNCHANGED <<change, state>>
  BY <1>0, <1>7 DEF OnDisk
<1>8. CASE UNCHANGED change /\ \E t \in Ids : Launch(t)
  BY <1>0, <1>5, <1>8 DEF OnDisk
<1> QED
  BY <1>3, <1>4, <1>6, <1>7, <1>8, Kinds

\* A step that touches neither the writes of s nor its record.
LEMMA DataStays ==
  ASSUME TypeOK, Next, NEW s \in Ids, Numbered(s), Drivers(s), Data(s),
         step'[s] = step[s], text'[s] = text[s], tmp'[s] = tmp[s],
         failed'[s] = failed[s], change'[s] = change[s],
         disk'[s] = disk[s] \/ disk'[s] = NoRecord
  PROVE  Data(s)'
<1>1. /\ landed[s] => landed'[s]
      /\ abandoned[s] => abandoned'[s]
      /\ EndedForGood(s) => state'[s] = "ended"
      /\ Alive(s)' => Alive(s) \/ session[s] = "new"
  BY Steady, DiskSteps
<1>2. change[s] # 0 => state'[s] = state[s] /\ state'[s] \in {"active", "cleaning", "ended"}
  BY Standing DEF Data
<1>3. \A n \in Changes : step[s][n] \in InFlight => change[s] # 0
  BY DEF Numbered, InFlight, Changes, TypeOK
<1>4. NoRecord.change = 0 /\ NoRecord.state = "none"
  BY DEF NoRecord, Record
<1>5. change[s] \in Nat /\ \A n \in Changes : text[s][n].change \in Nat
  <2>1. \A n \in Changes : text[s][n] \in Records
    BY DEF TypeOK
  <2>2. \A r \in Records : r.change \in Nat
    BY BoundsAssumption DEF Records, Changes
  <2> QED
    BY <2>1, <2>2 DEF TypeOK
<1>6. Text(s)'
  BY <1>2, <1>3, <1>4, <1>5 DEF Data, Text
<1>7. OnDisk(s)'
  BY <1>1, <1>2, <1>4, <1>5 DEF Data, OnDisk
<1>8. Caught(s)'
  BY <1>1, <1>2 DEF Data, Caught, Drivers, Alive
<1>9. Ended(s)'
  BY <1>1, <1>2, <1>3, <1>4 DEF Data, Ended, EndedForGood
<1> QED
  BY <1>6, <1>7, <1>8, <1>9 DEF Data

\* The steps of a write of s.
LEMMA DataWritten ==
  ASSUME TypeOK, Next, NEW s \in Ids, Numbered(s), Drivers(s), Data(s), Chain(s), Chain(s)',
         NEW n \in Changes, Turn(s, n) \/ Write(s, n) \/ Rename(s, n) \/ WriteFails(s, n)
  PROVE  Data(s)'
<1> USE DEF sessionVars
<1>1. change[s] \in Nat /\ n <= change[s] /\ change[s] \in Changes
  <2>1. step[s][n] # "none"
    BY DEF Turn, Write, Rename, WriteFails, InFlight
  <2> QED
    BY <2>1 DEF Numbered, Changes, TypeOK
<1>2. UNCHANGED <<state, change, session, abandoned>>
  BY DEF Turn, Write, Rename, WriteFails
<1>3. \A k, m \in Changes : step'[s][k] \in InFlight /\ step'[s][m] \in InFlight => k = m
  <2>1. \A k, m \in Changes : step'[s][k] \in InFlight /\ m < k => step'[s][m] \notin InFlight
    BY DEF Chain, Before, InFlight
  <2> QED
    BY <2>1 DEF Changes
<1>4. \A k, m \in Changes : step[s][k] \in InFlight /\ step[s][m] \in InFlight => k = m
  <2>1. \A k, m \in Changes : step[s][k] \in InFlight /\ m < k => step[s][m] \notin InFlight
    BY DEF Chain, Before, InFlight
  <2> QED
    BY <2>1 DEF Changes
<1>5. \A m \in Changes : m # n => step'[s][m] = step[s][m] /\ text'[s][m] = text[s][m]
  BY DEF Turn, Write, Rename, WriteFails, Settled, TypeOK
<1>6. CASE Turn(s, n)
  <2>1. /\ step'[s][n] = "writing" /\ text'[s][n] = Record(state[s], change[s]) /\ disk' = disk
        /\ UNCHANGED <<failed, landed>> /\ step[s][n] = "waiting"
    BY <1>6 DEF Turn, TypeOK, histVars
  <2>2. \A m \in Changes : step'[s][m] \in InFlight <=> m = n
    BY <1>3, <2>1 DEF InFlight
  <2>3. state[s] \in {"active", "cleaning", "ended"} /\ disk[s].change <= change[s]
    BY <1>1 DEF Data, OnDisk, Changes
  <2>4. Text(s)'
    BY <1>1, <1>2, <2>1, <2>2, <2>3 DEF Text, Record, InFlight, Changes
  <2>5. OnDisk(s)'
    BY <1>2, <2>1 DEF Data, OnDisk
  <2>6. Caught(s)'
    BY <1>1, <1>2, <1>5, <2>1 DEF Data, Caught, Alive
  <2>7. Ended(s)'
    BY <1>2, <2>1, <2>2 DEF Data, Ended, Record
  <2> QED
    BY <2>4, <2>5, <2>6, <2>7 DEF Data
<1>7. CASE Write(s, n)
  <2>1. /\ step[s][n] = "writing" /\ step'[s][n] = "renaming" /\ tmp'[s] = text[s][n]
        /\ UNCHANGED <<disk, failed, landed, text>>
    BY <1>7 DEF Write, TypeOK, histVars
  <2>2. \A m \in Changes : step'[s][m] \in InFlight <=> m = n
    BY <1>3, <2>1 DEF InFlight
  <2>3. Text(s)'
    BY <1>2, <2>1, <2>2 DEF Data, Text, InFlight
  <2>4. OnDisk(s)'
    BY <1>2, <2>1 DEF Data, OnDisk
  <2>5. Caught(s)'
    BY <1>1, <1>2, <1>5, <2>1 DEF Data, Caught, Alive
  <2>6. Ended(s)'
    BY <1>2, <2>1, <2>2 DEF Data, Ended, InFlight
  <2> QED
    BY <2>3, <2>4, <2>5, <2>6 DEF Data
<1>8. CASE Rename(s, n) \/ WriteFails(s, n)
  <2>1. step[s][n] \in InFlight /\ step'[s][n] = "done"
    BY <1>8 DEF Rename, WriteFails, Settled, InFlight, TypeOK
  <2>2. \A m \in Changes : step'[s][m] \notin InFlight
    BY <1>4, <1>5, <2>1 DEF InFlight
  <2>3. Text(s)'
    BY <2>2 DEF Text
  <2>4. step'[s][change[s]] = "done" => n = change[s]
    BY <1>1, <1>5, <2>1 DEF Chain, Before, InFlight
  <2>5. CASE Rename(s, n)
    <3>1. /\ disk'[s] = text[s][n] /\ landed'[s] /\ failed' = failed
      BY <2>5 DEF Rename, Data, Text, InFlight, TypeOK
    <3>2. /\ text[s][n].change \in n..change[s] /\ text[s][n] \in Records
          /\ text[s][n].change = change[s] => text[s][n].state = state[s]
          /\ text[s][n].state \in {"active", "cleaning", "ended"}
      BY <2>1 DEF Data, Text, TypeOK
    <3>3. OnDisk(s)'
      BY <1>1, <1>2, <3>1, <3>2 DEF Data, OnDisk, NoRecord, Record, Changes
    <3>4. n = change[s] => text[s][n] = Record(state[s], change[s])
      BY <1>1, <3>2 DEF Records, Record, Changes
    <3>5. Caught(s)'
      BY <1>2, <2>4, <3>1, <3>4 DEF Caught
    <3>6. Ended(s)'
      BY <1>2, <2>1, <2>2, <3>1 DEF Data, Ended
    <3> QED
      BY <2>3, <3>3, <3>5, <3>6 DEF Data
  <2>6. CASE WriteFails(s, n)
    <3>1. failed'[s] = n /\ UNCHANGED <<disk, landed>>
      BY <2>6 DEF WriteFails, TypeOK
    <3>2. OnDisk(s)' /\ Caught(s)'
      BY <1>2, <2>4, <3>1 DEF Data, OnDisk, Caught
    <3>3. Ended(s)'
      BY <1>2, <2>2, <3>1 DEF Data, Ended
    <3> QED
      BY <2>3, <3>2, <3>3 DEF Data
  <2> QED
    BY <1>8, <2>5, <2>6
<1> QED
  BY <1>6, <1>7, <1>8

\* What is on disk, in flight and in memory of a deployment goes on agreeing.
LEMMA DataKept ==
  ASSUME TypeOK, Next, \A t \in Ids : Numbered(t), NEW s \in Ids, Drivers(s), Data(s),
         Chain(s), Chain(s)', Quiet, Found(s)
  PROVE  Data(s)'
<1>1. ASSUME NEW t \in Ids, MayChange, Queues(t), t # s PROVE Data(s)'
  BY <1>1, DataStays DEF Queues, Persist, histVars, TypeOK
<1>2. ASSUME MayChange, Queues(s) PROVE Data(s)'
  <2>1. change[s] + 1 \in Changes /\ change[s] \in Nat /\ change'[s] = change[s] + 1
    <3>1. change[s] + 1 \in Changes
      BY <1>2, ChangeFits
    <3> QED
      BY <1>2, <3>1 DEF Queues, TypeOK
  <2>2. /\ step'[s][change[s] + 1] = "waiting"
        /\ \A n \in Changes : n # change[s] + 1 => step'[s][n] = step[s][n]
        /\ UNCHANGED <<text, tmp, disk, landed>>
    BY <1>2, <2>1 DEF Queues, Persist, TypeOK, histVars
  <2>3. \A n \in Changes : step'[s][n] \in InFlight => step[s][n] \in InFlight
    BY <2>2 DEF InFlight
  <2>4. state'[s] \in {"active", "cleaning", "ended"}
    BY <2>1, Standing DEF Data
  <2>5. Text(s)'
    <3>1. ASSUME NEW n \in Changes, step[s][n] \in InFlight
          PROVE  text[s][n].change \in n..(change[s] + 1) /\ text[s][n].change # change[s] + 1
      BY <2>1, <3>1 DEF Data, Text, Changes
    <3>2. ASSUME NEW n \in Changes, step'[s][n] = "renaming" PROVE step[s][n] = "renaming"
      BY <2>2, <3>2
    <3> QED
      BY <2>1, <2>2, <2>3, <3>1, <3>2 DEF Data, Text
  <2>6. OnDisk(s)'
    <3>1. disk[s].change \in Nat
      BY BoundsAssumption DEF TypeOK, Records, Changes
    <3> QED
      BY <2>1, <2>2, <2>4, <3>1 DEF Data, OnDisk
  <2>7. Caught(s)'
    BY <2>1, <2>2 DEF Caught
  <2>8. Ended(s)'
    BY <2>2, <2>3, Steady DEF Data, Ended, EndedForGood
  <2> QED
    BY <2>5, <2>6, <2>7, <2>8 DEF Data
<1>3. ASSUME NEW t \in Ids, NEW n \in Changes, t # s,
             Turn(t, n) \/ Write(t, n) \/ Rename(t, n) \/ WriteFails(t, n)
      PROVE  Data(s)'
  <2>1. /\ step'[s] = step[s] /\ text'[s] = text[s] /\ tmp'[s] = tmp[s]
        /\ failed'[s] = failed[s] /\ change'[s] = change[s] /\ disk'[s] = disk[s]
    BY <1>3 DEF Turn, Write, Rename, WriteFails, Settled, TypeOK, sessionVars, histVars
  <2> QED
    BY <2>1, DataStays
<1>4. ASSUME NEW n \in Changes, Turn(s, n) \/ Write(s, n) \/ Rename(s, n) \/ WriteFails(s, n)
      PROVE  Data(s)'
  BY <1>4, DataWritten
<1>5. CASE Crash
  <2>1. \A n \in Changes : step'[s][n] \notin InFlight
    BY <1>5 DEF Crash, InFlight
  <2>2. UNCHANGED <<disk, state, change, abandoned, landed>> /\ ~Alive(s)'
    BY <1>5 DEF Crash, histVars, Alive
  <2> QED
    BY <2>1, <2>2 DEF Data, Text, OnDisk, Caught, Ended
<1>6. CASE Mark(s)
  <2>1. session[s] \in {"new", "lost"} /\ saving[s] = 0
    BY <1>6 DEF Mark, Quiet, Drivers, TypeOK
  <2>2. \A n \in Changes : step[s][n] \notin InFlight
    BY <2>1 DEF Chain, InFlight
  <2>3. /\ UNCHANGED <<state, change, abandoned, landed, session, step>>
        /\ disk'[s] = [disk[s] EXCEPT !.state = "interrupted"]
    BY <1>6 DEF Mark, TypeOK, histVars, sessionVars, writeVars
  <2>4. disk'[s].change = disk[s].change /\ disk'[s].state = "interrupted" /\ disk[s] \in Records
    BY <2>3 DEF TypeOK, Records
  <2>5. disk[s] # NoRecord
    BY <1>6 DEF Mark, Found, Claims, NoRecord, Record
  <2> QED
    BY <2>1, <2>2, <2>3, <2>4, <2>5
    DEF Data, Text, OnDisk, Caught, Ended, Alive, NoRecord, Record
<1>7. CASE /\ UNCHANGED <<writeVars, change, failed>>
           /\ ~Mark(s) /\ \A n \in Changes : ~Rename(s, n)
  <2>1. disk'[s] = disk[s] \/ disk'[s] = NoRecord
    BY <1>7, DiskSteps
  <2> QED
    BY <1>7, <2>1, DataStays DEF writeVars
<1> QED
  BY <1>1, <1>2, <1>3, <1>4, <1>5, <1>6, <1>7, Kinds

-----------------------------------------------------------------------------
\* DELETE, a restart and the list

\* What a flush waits for stays what was queued when it began.
LEMMA FlushingKept ==
  ASSUME TypeOK, Next, \A t \in Ids : Numbered(t), NEW s \in Ids, Chain(s), Drivers(s), OnDisk(s),
         Flushing(s)
  PROVE  Flushing(s)'
<1>1. change[s] \in Nat /\ change'[s] \in Nat /\ change[s] <= change'[s] /\ forgotAt[s] \in Nat
  BY Standing DEF TypeOK
<1>2. \A n \in Changes : n \in Pending(s)' => n \in Pending(s) \/ n > change[s]
  <2> USE DEF Pending, InFlight
  <2>1. ASSUME NEW t \in Ids, Queues(t), NEW n \in Changes, step'[s][n] # step[s][n]
        PROVE  s = t /\ n = change[s] + 1
    BY <2>1 DEF Queues, Persist, TypeOK
  <2>2. ASSUME NEW t \in Ids, NEW m \in Changes,
               Turn(t, m) \/ Write(t, m) \/ Rename(t, m) \/ WriteFails(t, m)
        PROVE  \A n \in Changes : n \in Pending(s)' => n \in Pending(s)
    <3>1. step[t][m] \in {"waiting", "writing", "renaming"}
      BY <2>2 DEF Turn, Write, Rename, WriteFails
    <3>2. \A n \in Changes : step'[s][n] = step[s][n] \/ (s = t /\ n = m)
      BY <2>2 DEF Turn, Write, Rename, WriteFails, Settled, TypeOK
    <3> QED
      BY <3>1, <3>2
  <2>3. ASSUME Crash PROVE Pending(s)' = {}
    BY <2>3 DEF Crash
  <2>4. ASSUME UNCHANGED writeVars PROVE Pending(s)' = Pending(s)
    BY <2>4 DEF writeVars
  <2> QED
    BY <1>1, <2>1, <2>2, <2>3, <2>4, Kinds DEF Changes
<1>3. \A n \in Pending(s) : n \in Changes
  BY DEF Pending
<1>4. CASE request'[s] = request[s] /\ waits'[s] = waits[s] /\ forgotAt'[s] = forgotAt[s]
  <2>1. \A n \in Pending(s)' : n \in Pending(s) \/ n > forgotAt[s]
    BY <1>1, <1>2 DEF Flushing, Pending, Changes
  <2> QED
    BY <1>1, <1>4, <2>1 DEF Flushing, Pending, Changes
<1>5. CASE Crash
  <2>1. Pending(s)' = {} /\ forgotAt' = forgotAt
    BY <1>5 DEF Crash, Pending, InFlight
  <2> QED
    BY <1>1, <2>1 DEF Flushing
<1>6. ASSUME saving'[s] = change'[s], waits'[s] = Chains', forgotAt'[s] = change'[s],
             request'[s] = "flushing"
      PROVE  Flushing(s)'
  <2>1. <<s, change'[s]>> \in Chains' \/ change'[s] = 0
    BY <1>6 DEF Chains
  <2> QED
    BY <1>1, <1>6, <2>1 DEF Flushing, Pending, Changes
<1>7. CASE Deployment(s)
  <2>1. CASE Delete(s)
    <3>1. CASE session[s] = "held" /\ state[s] # "ended"
      <4>1. request'[s] = "cancelling" /\ forgotAt' = forgotAt
        BY <2>1, <3>1 DEF Delete, TypeOK
      <4> QED
        BY <1>1, <4>1 DEF Flushing
    <3>2. CASE ~(session[s] = "held" /\ state[s] # "ended")
      <4>1. /\ request'[s] = "flushing" /\ waits'[s] = Chains' /\ forgotAt'[s] = change'[s]
            /\ UNCHANGED <<change, step, saving>>
        BY <2>1, <3>2 DEF Delete, Forget, TypeOK, writeVars
      <4>2. CASE saving[s] = 0
        <5>1. Pending(s)' = {}
          BY <4>1, <4>2 DEF Chain, Pending, InFlight
        <5> QED
          BY <1>1, <4>1, <5>1 DEF Flushing
      <4>3. CASE saving[s] # 0
        BY <1>6, <4>1, <4>3 DEF Chain
      <4> QED
        BY <4>2, <4>3
    <3> QED
      BY <3>1, <3>2
  <2>2. CASE Cancelled(s)
    <3>1. /\ request'[s] = "flushing" /\ waits'[s] = Chains' /\ forgotAt'[s] = change'[s]
          /\ SetState(s, "ended")
      BY <2>2 DEF Cancelled, Forget, TypeOK
    <3>2. saving'[s] = change'[s]
      BY <3>1 DEF SetState, Persist, TypeOK
    <3> QED
      BY <1>6, <3>1, <3>2
  <2>3. CASE Flushed(s)
    <3>1. /\ request[s] = "flushing" /\ Over(waits[s]) /\ request'[s] = "removing"
          /\ UNCHANGED <<forgotAt, step, change>>
      BY <2>3 DEF Flushed, TypeOK, writeVars, sessionVars
    <3>2. ASSUME NEW n \in Pending(s), n <= forgotAt[s] PROVE FALSE
      <4>1. <<s, forgotAt[s]>> \in waits[s] /\ waits[s] \subseteq Ids \X Changes
        BY <3>1, <3>2 DEF Flushing, TypeOK
      <4>2. step[s][forgotAt[s]] = "done" /\ forgotAt[s] \in Changes
        BY <3>1, <4>1 DEF Over
      <4>3. step[s][n] = "done"
        BY <1>3, <3>2, <4>2 DEF Chain, Before, Changes
      <4> QED
        BY <4>3 DEF Pending, InFlight
    <3>3. Pending(s)' = Pending(s)
      BY <3>1 DEF Pending
    <3> QED
      BY <1>1, <1>3, <3>1, <3>2, <3>3 DEF Flushing, Changes
  <2>4. CASE Removed(s)
    <3>1. /\ request[s] = "removing" /\ request'[s] = "answered"
          /\ UNCHANGED <<forgotAt, step, change>>
      BY <2>4 DEF Removed, TypeOK, writeVars, sessionVars
    <3> QED
      BY <1>1, <3>1 DEF Flushing, Pending
  <2>5. CASE Launch(s) \/ Advance(s) \/ Fails(s) \/ \E e \in Enders : Begin(s, e) \/ Finish(s, e)
    <3>1. UNCHANGED deleteVars
      BY <2>5 DEF Launch, Advance, Fails, Begin, Finish
    <3> QED
      BY <1>4, <3>1 DEF deleteVars
  <2> QED
    BY <1>7, <2>1, <2>2, <2>3, <2>4, <2>5 DEF Deployment
<1>8. ASSUME NEW t \in Ids, Deployment(t), t # s PROVE Flushing(s)'
  BY <1>4, <1>8, OthersSession
<1>9. CASE ~Crash /\ ~\E t \in Ids : Deployment(t)
  BY <1>4, <1>9, OnlyDeployments DEF deleteVars
<1> QED
  BY <1>5, <1>7, <1>8, <1>9

\* While the process is down, nothing of it is under way.
LEMMA QuietKept ==
  ASSUME TypeOK, Next, Quiet, \A s \in Ids : Drivers(s)
  PROVE  Quiet'
<1>1. CASE Crash
  BY <1>1 DEF Crash, Quiet, TypeOK
<1>2. CASE ~Crash /\ process # "up"
  <2>1. ASSUME NEW t \in Ids, Deployment(t) PROVE FALSE
    <3>1. /\ session[t] \in {"new", "lost"} /\ request[t] \in {"none", "answered"}
          /\ ~pipe[t] /\ ending[t] = {}
      BY <1>2 DEF Quiet, Drivers
    <3> QED
      BY <1>2, <2>1, <3>1
      DEF Deployment, Launch, Advance, Fails, Begin, Begins, Finish, Delete, Cancelled, Flushed, Removed
  <2>2. UNCHANGED <<session, request>>
    BY <1>2, <2>1, OnlyDeployments DEF sessionVars, deleteVars
  <2> QED
    BY <1>2, <2>2 DEF Quiet
<1>3. CASE ~Crash /\ process = "up"
  <2>1. ASSUME NEW t \in Ids, Deployment(t) PROVE process' = process
    BY <2>1 DEF Deployment, Launch, Advance, Fails, Begin, Begins, Finish, Delete, Cancelled, Flushed,
                Removed, SetState
  <2>2. ASSUME Store \/ Listen \/ \E t \in Ids : Mark(t) \/ MarkFails(t) PROVE process' = process
    BY <1>3, <2>2 DEF Store, ListRecords, ListNames, ReadRecord, ListTrim, Trim, Listed, Listen, Mark,
                      MarkFails
  <2>3. ASSUME NEW t \in Ids, NEW n \in Changes,
               Turn(t, n) \/ Write(t, n) \/ Rename(t, n) \/ WriteFails(t, n)
        PROVE  process' = process
    BY <2>3 DEF Turn, Write, Rename, WriteFails
  <2> QED
    BY <1>3, <2>1, <2>2, <2>3 DEF Next, Writing, Recovery, Quiet
<1> QED
  BY <1>1, <1>2, <1>3

\* Steps of a deployment and of its writes are neither the store's nor a restart's.
LEMMA OnlyStore ==
  ASSUME Next, ~Store, ~Recovery
  PROVE  /\ UNCHANGED <<process, listVars, unmarked>>
         /\ process = "up" \/ \E t \in Ids : Deployment(t) \/ Writing(t)
<1> USE DEF sessionVars, writeVars, deleteVars, listVars, histVars
<1>1. ASSUME NEW t \in Ids, Deployment(t) PROVE UNCHANGED <<process, listVars, unmarked>>
  BY <1>1 DEF Deployment, Launch, Advance, Fails, Begin, Begins, Finish, Delete, Cancelled, Flushed,
              Removed, SetState
<1>2. ASSUME NEW t \in Ids, Writing(t) PROVE UNCHANGED <<process, listVars, unmarked>>
  BY <1>2 DEF Writing, Turn, Write, Rename, WriteFails
<1> QED
  BY <1>1, <1>2 DEF Next

\* What list() has read stays in the order it needs to trim by.
LEMMA ListingKept ==
  ASSUME TypeOK, Next, Listing
  PROVE  Listing'
<1> USE DEF Listing
<1>1. CASE ~Store /\ ~Recovery
  BY <1>1, OnlyStore DEF listVars
<1>2. CASE ListRecords \/ ListNames \/ Listed
  BY <1>2 DEF ListRecords, ListNames, Listed
<1>3. CASE ListTrim
  BY <1>3 DEF ListTrim
<1>4. CASE \E t \in Ids : ReadRecord(t) \/ Trim(t)
  BY <1>4 DEF ReadRecord, Trim
<1>5. CASE Crash
  BY <1>5 DEF Crash
<1>6. CASE Listen \/ \E t \in Ids : Mark(t) \/ MarkFails(t)
  BY <1>6 DEF Listen, Mark, MarkFails, listVars
<1> QED
  BY <1>1, <1>2, <1>3, <1>4, <1>5, <1>6 DEF Recovery, Store

\* Nothing but the marking changes a record while a restart looks at them.
LEMMA FoundKept ==
  ASSUME TypeOK, Next, NEW s \in Ids, Found(s), Listing, Quiet, Chain(s), Drivers(s), OnDisk(s)
  PROVE  Found(s)'
<1>1. NoRecord.state = "none" /\ Torn.state = "torn"
  BY DEF NoRecord, Record, Torn
<1>2. s \in toMark => process = "marking"
  BY DEF TypeOK
<1>3. CASE ~Store /\ ~Recovery
  <2>1. UNCHANGED <<process, listVars, unmarked>>
    BY <1>3, OnlyStore
  <2>2. session'[s] = "lost" => session[s] = "lost"
    <3>1. ASSUME NEW t \in Ids, Deployment(t), session'[s] = "lost" PROVE session[s] = "lost"
      <4>1. CASE s = t /\ Launch(t)
        <5> DEFINE sn == [session EXCEPT ![s] = "held"]
        <5>1. sn \in [Ids -> {"new", "held", "dropped", "lost"}] /\ sn[s] = "held"
          BY DEF TypeOK
        <5>2. session' = Evicted(sn, state')
          BY <4>1 DEF Launch
        <5> HIDE DEF sn
        <5> QED
          BY <3>1, <5>1, <5>2, EvictedOnes
      <4> QED
        BY <3>1, <4>1, OthersSession
    <3>2. CASE ~Crash /\ ~\E t \in Ids : Deployment(t)
      BY <3>2, OnlyDeployments DEF sessionVars
    <3> QED
      BY <1>3, <3>1, <3>2 DEF Recovery
  <2>3. CASE disk'[s] = disk[s]
    BY <2>1, <2>2, <2>3 DEF Found, Claims, listVars
  <2>4. CASE disk'[s] = NoRecord /\ Removed(s)
    <3>1. process = "up"
      BY <2>4 DEF Removed, Quiet, TypeOK
    <3> QED
      BY <1>1, <1>2, <2>1, <2>4, <3>1 DEF Found, Claims, listVars
  <2>5. ASSUME NEW n \in Changes, Rename(s, n) PROVE Found(s)'
    <3>1. saving[s] # 0
      BY <2>5 DEF Rename, Chain
    <3>2. process = "up" /\ session[s] # "lost"
      BY <3>1 DEF Quiet, Drivers, TypeOK
    <3> QED
      BY <1>2, <2>1, <2>2, <3>2 DEF Found, listVars
  <2> QED
    BY <1>3, <2>3, <2>4, <2>5, DiskSteps DEF Recovery, Store
<1> USE DEF Found, Claims
<1>4. CASE ListRecords \/ ListNames
  BY <1>4 DEF ListRecords, ListNames, Listing, sessionVars, histVars
<1>5. ASSUME NEW t \in Ids, ReadRecord(t) PROVE Found(s)'
  <2>1. /\ UNCHANGED <<process, disk, toTrim, toMark, session, unmarked>>
        /\ toRead' = toRead \ {t} /\ seen' = seen \cup {u \in {t} : disk[u] \notin {NoRecord, Torn}}
    BY <1>5 DEF ReadRecord, sessionVars, histVars
  <2>2. disk[s] # Torn
    BY <1>1 DEF OnDisk
  <2> QED
    BY <2>1, <2>2
<1>6. CASE ListTrim
  <2>1. /\ UNCHANGED <<process, toRead, toMark, session, disk, unmarked>>
        /\ toTrim = {} /\ toTrim' = Oldest /\ seen' = seen \ Oldest
    BY <1>6 DEF ListTrim, Listing, sessionVars, histVars
  <2> QED
    BY <2>1
<1>7. ASSUME NEW t \in Ids, Trim(t) PROVE Found(s)'
  <2>1. /\ UNCHANGED <<process, toRead, seen, toMark, session, unmarked>>
        /\ toTrim' = toTrim \ {t} /\ t \in toTrim
        /\ disk'[s] = IF s = t THEN NoRecord ELSE disk[s]
    BY <1>7 DEF Trim, sessionVars, histVars, TypeOK
  <2>2. process # "marking"
    BY <2>1 DEF Listing
  <2> QED
    BY <1>1, <1>2, <2>1, <2>2
<1>8. CASE Listed
  <2>1. UNCHANGED <<disk, session, unmarked>> /\ toTrim = {} /\ toRead = {} /\ lister = "trimming"
    BY <1>8 DEF Listed, sessionVars, histVars, Listing
  <2>2. CASE process = "starting"
    BY <1>1, <1>8, <2>1, <2>2 DEF Listed, Claiming
  <2>3. CASE process # "starting"
    BY <1>8, <2>1, <2>3 DEF Listed
  <2> QED
    BY <2>2, <2>3
<1>9. CASE Crash
  BY <1>9 DEF Crash
<1>10. ASSUME NEW t \in Ids, Mark(t) PROVE Found(s)'
  <2>1. /\ UNCHANGED <<process, toRead, seen, toTrim, session>> /\ t \in toMark
        /\ toMark' = toMark \ {t} /\ process = "marking"
    BY <1>10 DEF Mark, sessionVars, TypeOK
  <2>2. disk' = [disk EXCEPT ![t] = [disk[t] EXCEPT !.state = "interrupted"]]
    BY <1>10 DEF Mark
  <2>3. s # t => unmarked'[s] = unmarked[s]
    BY <1>10 DEF Mark, TypeOK
  <2>4. s = t => disk'[s].state = "interrupted"
    <3>1. disk[s] \in Records /\ disk \in [Ids -> Records]
      BY DEF TypeOK
    <3> QED
      BY <2>2, <3>1 DEF Records
  <2>5. s # t => disk'[s] = disk[s]
    BY <2>2 DEF TypeOK
  <2> QED
    BY <2>1, <2>3, <2>4, <2>5
<1>11. ASSUME NEW t \in Ids, MarkFails(t) PROVE Found(s)'
  <2>1. UNCHANGED <<process, toRead, seen, toTrim, session, disk>> /\ toMark' = {}
    BY <1>11 DEF MarkFails, sessionVars
  <2>2. unmarked'[s] <=> unmarked[s] \/ s \in toMark
    BY <1>11 DEF MarkFails
  <2> QED
    BY <2>1, <2>2
<1>12. CASE Listen
  <2>1. /\ UNCHANGED <<listVars, session, disk, unmarked>> /\ toMark = {}
        /\ process = "marking" /\ process' = "up"
    BY <1>12 DEF Listen, sessionVars, histVars
  <2> QED
    BY <2>1 DEF listVars
<1> QED
  BY <1>3, <1>4, <1>5, <1>6, <1>7, <1>8, <1>9, <1>10, <1>11, <1>12 DEF Store, Recovery

\* What has landed has landed: the newer records only get more.
LEMMA NewerGrows ==
  ASSUME TypeOK, Next, NEW s \in Ids
  PROVE  /\ Newer(s) \subseteq Newer(s)' /\ IsFiniteSet(Newer(s)')
         /\ Cardinality(Newer(s)) <= Cardinality(Newer(s)')
         /\ Cardinality(Newer(s)) \in Nat /\ Cardinality(Newer(s)') \in Nat
<1>1. IsFiniteSet(Ids)
  BY FS_Interval, BoundsAssumption DEF Ids
<1>2. IsFiniteSet(Newer(s)) /\ IsFiniteSet(Newer(s)')
  BY <1>1, FS_Subset DEF Newer
<1>3. \A t \in Ids : landed[t] => landed'[t]
  BY DiskSteps
<1>4. Newer(s) \subseteq Newer(s)'
  BY <1>3 DEF Newer
<1> QED
  BY <1>2, <1>4, FS_Subset, FS_CardinalityType

\* A DELETE that has been answered is not asked again.
LEMMA AnsweredStays ==
  ASSUME TypeOK, Next, NEW s \in Ids, request[s] = "answered"
  PROVE  request'[s] = "answered"
<1>1. CASE Crash
  BY <1>1 DEF Crash
<1>2. CASE ~Crash /\ ~\E t \in Ids : Deployment(t)
  BY <1>2, OnlyDeployments DEF deleteVars
<1>3. ASSUME NEW t \in Ids, Deployment(t), t # s PROVE request'[s] = "answered"
  BY <1>3, OthersSession
<1>4. ASSUME Deployment(s) PROVE request'[s] = "answered"
  <2>1. ~Delete(s) /\ ~Cancelled(s) /\ ~Flushed(s) /\ ~Removed(s)
    BY DEF Delete, Cancelled, Flushed, Removed
  <2> QED
    BY <1>4, <2>1 DEF Deployment, Launch, Advance, Fails, Begin, Finish, deleteVars
<1> QED
  BY <1>1, <1>2, <1>3, <1>4

\* A record is taken away by its DELETE, or by a listing that has read Keep newer ones.
LEMMA KeptKept ==
  ASSUME TypeOK, Next, \A t \in Ids : Kept(t) /\ OnDisk(t), NEW s \in Ids
  PROVE  Kept(s)'
<1> DEFINE Many == Cardinality(Newer(s)) >= Keep
<1>1. (Many => Many') /\ (landed[s] => landed'[s])
  <2>1. Keep \in Nat
    BY BoundsAssumption
  <2> QED
    BY <2>1, NewerGrows, DiskSteps
<1>2. disk[s] # NoRecord => landed[s]
  BY DEF OnDisk
<1> HIDE DEF Many
<1>3. s \in toRead' \cup seen' => landed'[s]
  <2>1. CASE ~Store /\ ~Recovery
    BY <1>1, <2>1, OnlyStore DEF Kept, listVars
  <2>2. CASE Store
    BY <1>1, <1>2, <2>2 DEF Kept, Store, ListRecords, ListNames, ReadRecord, ListTrim, Trim, Listed
  <2>3. CASE Recovery
    BY <1>1, <1>2, <2>3 DEF Kept, Recovery, Crash, Listen, Mark, MarkFails, listVars
  <2> QED
    BY <2>1, <2>2, <2>3
<1>4. s \in toTrim' => Many'
  <2>1. s \in toTrim => Many
    BY DEF Kept, Many
  <2>2. CASE ~Store /\ ~Recovery
    BY <1>1, <2>1, <2>2, OnlyStore DEF listVars
  <2>3. CASE ListTrim
    <3>1. ASSUME s \in Oldest PROVE Many
      <4> DEFINE T == {t \in seen : t > s}
      <4>1. T \subseteq Newer(s)
        BY DEF Newer, Kept, TypeOK
      <4>2. Cardinality(T) >= Keep
        BY <3>1 DEF Oldest
      <4>3. IsFiniteSet(Newer(s))
        <5>1. IsFiniteSet(Ids)
          BY FS_Interval, BoundsAssumption DEF Ids
        <5> QED
          BY <5>1, FS_Subset DEF Newer
      <4>4. /\ Cardinality(T) <= Cardinality(Newer(s))
            /\ Cardinality(T) \in Nat /\ Cardinality(Newer(s)) \in Nat
        BY <4>1, <4>3, FS_Subset, FS_CardinalityType
      <4> QED
        BY <4>2, <4>4, BoundsAssumption DEF Many
    <3> QED
      BY <1>1, <2>3, <3>1 DEF ListTrim
  <2>4. CASE Store /\ ~ListTrim
    BY <1>1, <2>1, <2>4 DEF Store, ListRecords, ListNames, ReadRecord, Trim, Listed
  <2>5. CASE Recovery
    BY <1>1, <2>1, <2>5 DEF Recovery, Crash, Listen, Mark, MarkFails, listVars
  <2> QED
    BY <2>2, <2>3, <2>4, <2>5
<1>5. landed'[s] /\ disk'[s] = NoRecord => request'[s] = "answered" \/ Many'
  <2>1. landed[s] /\ disk[s] = NoRecord => request[s] = "answered" \/ Many
    BY DEF Kept, Many
  <2>2. request[s] = "answered" => request'[s] = "answered"
    BY AnsweredStays
  <2>3. ASSUME NEW n \in Changes, Rename(s, n) PROVE disk'[s] # NoRecord
    BY <2>3 DEF Rename, TypeOK
  <2>4. ASSUME Mark(s) PROVE disk'[s] # NoRecord
    <3>1. disk[s] \in Records /\ disk' = [disk EXCEPT ![s] = [disk[s] EXCEPT !.state = "interrupted"]]
      BY <2>4 DEF Mark, TypeOK
    <3>2. disk'[s].state = "interrupted"
      BY <3>1 DEF TypeOK, Records
    <3> QED
      BY <3>2 DEF NoRecord, Record
  <2>5. Removed(s) => request'[s] = "answered"
    BY DEF Removed, TypeOK
  <2>6. Trim(s) => Many
    BY DEF Trim, Kept, Many
  <2>7. CASE landed'[s] = landed[s]
    BY <1>1, <2>1, <2>2, <2>3, <2>4, <2>5, <2>6, <2>7, <1>2, DiskSteps
  <2>8. CASE landed'[s] # landed[s]
    BY <2>3, <2>8, DiskSteps
  <2> QED
    BY <2>7, <2>8
<1> QED
  BY <1>3, <1>4, <1>5 DEF Kept, Many

-----------------------------------------------------------------------------
\* The invariant

\* The invariant holds at first.
LEMMA Starts == Init => IInv
<1> SUFFICES ASSUME Init PROVE IInv
  OBVIOUS
<1>1. TypeOK
  <2>1. NoRecord \in Records
    BY DEF NoRecord, Record, Records, States
  <2>2. 0 \in 0..MaxChanges /\ 0 \in 0..MaxCrashes
    BY BoundsAssumption
  <2> QED
    BY <2>1, <2>2 DEF Init, TypeOK, States
<1>2. Quiet /\ Listing
  BY DEF Init, Quiet, Listing
<1>3. ASSUME NEW s \in Ids PROVE RecordInv(s)
  <2>1. /\ step[s] = [n \in Changes |-> "none"] /\ after[s] = [n \in Changes |-> 0]
        /\ change[s] = 0 /\ saving[s] = 0 /\ disk[s] = NoRecord /\ session[s] = "new"
        /\ state[s] = "none" /\ ~pipe[s] /\ ending[s] = {} /\ request[s] = "none"
        /\ forgotAt[s] = 0 /\ ~landed[s] /\ toRead = {} /\ seen = {} /\ toTrim = {}
        /\ toMark = {} /\ process = "up"
    BY DEF Init
  <2>2. NoRecord.state = "none" /\ NoRecord.change = 0
    BY DEF NoRecord, Record
  <2>3. \A n \in Changes : ~(n <= 0)
    BY BoundsAssumption DEF Changes
  <2>4. Numbered(s) /\ Chain(s)
    BY <2>1, <2>3 DEF Numbered, Chain, InFlight
  <2>5. Text(s) /\ OnDisk(s) /\ Caught(s) /\ Ended(s)
    BY <2>1, <2>2 DEF Text, OnDisk, Caught, Ended, InFlight
  <2>6. Drivers(s) /\ Flushing(s) /\ Found(s) /\ Kept(s)
    BY <2>1, <2>2 DEF Drivers, EndedForGood, Flushing, Found, Claims, Kept
  <2> QED
    BY <2>4, <2>5, <2>6 DEF RecordInv
<1> QED
  BY <1>1, <1>2, <1>3 DEF IInv

\* Every step keeps the invariant.
LEMMA Inductive == IInv /\ [Next]_vars => IInv'
<1> SUFFICES ASSUME IInv, [Next]_vars PROVE IInv'
  OBVIOUS
<1> USE DEF IInv, RecordInv
<1>1. TypeOK'
  BY Typed
<1>2. CASE Next
  <2>1. Quiet' /\ Listing'
    BY <1>2, QuietKept, ListingKept
  <2>2. ASSUME NEW s \in Ids PROVE RecordInv(s)'
    <3>1. Numbered(s)'
      BY <1>2, NumbersKept
    <3>2. Chain(s)'
      BY <1>2, ChainKept
    <3>3. Drivers(s)' /\ Flushing(s)' /\ Found(s)' /\ Kept(s)'
      BY <1>2, DriversKept, FlushingKept, FoundKept, KeptKept
    <3>4. Data(s)'
      BY <1>2, <3>2, DataKept DEF Data
    <3> QED
      BY <3>1, <3>2, <3>3, <3>4 DEF Data
  <2> QED
    BY <1>1, <2>1, <2>2
<1>3. CASE UNCHANGED vars
  <2> USE <1>3 DEF vars, sessionVars, writeVars, deleteVars, listVars, histVars
  <2>1. Quiet' /\ Listing'
    BY DEF Quiet, Listing
  <2>2. ASSUME NEW s \in Ids PROVE RecordInv(s)'
    <3>1. Numbered(s)' /\ Chain(s)'
      BY DEF Numbered, Chain, Before
    <3>2. Text(s)' /\ OnDisk(s)' /\ Ended(s)'
      BY DEF Text, OnDisk, Ended
    <3>3. Caught(s)' /\ Drivers(s)'
      BY DEF Caught, Alive, Drivers, EndedForGood
    <3>4. Flushing(s)' /\ Found(s)'
      BY DEF Flushing, Pending, Found, Claims
    <3>5. Newer(s)' = Newer(s)
      BY DEF Newer
    <3>6. Kept(s)'
      BY <3>5 DEF Kept
    <3> QED
      BY <3>1, <3>2, <3>3, <3>4, <3>6
  <2> QED
    BY <1>1, <2>1, <2>2
<1> QED
  BY <1>2, <1>3

\* The invariant holds in every state.
LEMMA Invariance == Spec => []IInv
<1>1. Init => IInv
  BY Starts
<1>2. IInv /\ [Next]_vars => IInv'
  BY Inductive
<1> QED
  BY <1>1, <1>2, PTL DEF Spec

-----------------------------------------------------------------------------
\* What it says of the records

\* From the chain: one writer at a time.
LEMMA OneWriter == IInv => OneWriterPerRecord
<1> SUFFICES ASSUME IInv, NEW s \in Ids
             PROVE  Cardinality({n \in Changes : step[s][n] \in InFlight}) <= 1
  BY DEF OneWriterPerRecord
<1> DEFINE W == {n \in Changes : step[s][n] \in InFlight}
<1>1. \A m, n \in W : m = n
  <2>1. \A n \in W : Before(s, n)
    BY DEF IInv, RecordInv, Chain
  <2>2. \A m, n \in W : ~(m < n)
    BY <2>1 DEF Before, InFlight
  <2>3. \A m, n \in Changes : m < n \/ n < m \/ m = n
    BY BoundsAssumption DEF Changes
  <2> QED
    BY <2>2, <2>3
<1>2. CASE W = {}
  BY <1>2, FS_EmptySet
<1>3. CASE W # {}
  <2>1. PICK n : n \in W
    BY <1>3
  <2>2. W = {n}
    BY <1>1, <2>1
  <2>3. Cardinality({n}) = 1
    BY FS_Singleton
  <2> QED
    BY <2>2, <2>3
<1> QED
  BY <1>2, <1>3

\* The number of a record on disk, or of none, is a natural number.
LEMMA DiskCounts ==
  ASSUME TypeOK, NEW s \in Ids
  PROVE  disk[s].change \in Nat
<1>1. disk[s] \in Records
  BY DEF TypeOK
<1> QED
  BY <1>1, BoundsAssumption DEF Records, Changes

\* From the chain's end: the disk has the newest change.
LEMMA CatchesUp == IInv => DiskCatchesUp
<1> SUFFICES ASSUME IInv, NEW s \in Ids, Alive(s), Pending(s) = {}, failed[s] # change[s]
             PROVE  disk[s] \in {NoRecord, Record(state[s], change[s])}
  BY DEF DiskCatchesUp
<1> USE DEF IInv, RecordInv
<1>1. change[s] \in Nat /\ (change[s] = 0 \/ change[s] \in Changes)
  BY BoundsAssumption DEF TypeOK, Changes
<1>2. CASE change[s] = 0
  <2>1. disk[s].change <= 0 /\ disk[s].change \in Nat
    BY <1>2, DiskCounts DEF OnDisk
  <2>2. disk[s].change = 0
    BY <2>1
  <2> QED
    BY <2>2 DEF OnDisk
<1>3. CASE change[s] \in Changes
  <2>1. step[s][change[s]] # "none"
    BY <1>1, <1>3 DEF Numbered
  <2>2. step[s][change[s]] = "done"
    BY <1>3, <2>1 DEF Pending, TypeOK
  <2>3. change[s] # 0
    BY <1>3, BoundsAssumption DEF Changes
  <2> QED
    BY <2>2, <2>3 DEF Caught
<1> QED
  BY <1>1, <1>2, <1>3

\* From what DELETE flushed: nothing queued before is left.
LEMMA Forgets == IInv => ForgottenWritesAreOver
  BY DEF IInv, RecordInv, Flushing, ForgottenWritesAreOver

\* From what recoverInterrupted read: no record claims to run.
LEMMA ClaimsNothing == IInv => NothingClaimsToRun
<1> SUFFICES ASSUME IInv, process = "up", NEW s \in Ids, Claims(s)
             PROVE  \/ session[s] = "held"
                    \/ (Alive(s) /\ (Pending(s) # {} \/ ending[s] # {}))
                    \/ failed[s] = change[s] \/ unmarked[s] \/ abandoned[s]
  BY DEF NothingClaimsToRun, Claims
<1> USE DEF IInv, RecordInv
<1>1. session[s] \in {"new", "held", "dropped", "lost"}
  BY DEF TypeOK
<1>2. CASE session[s] = "lost"
  BY <1>2 DEF Found
<1>3. CASE session[s] = "new"
  <2>1. disk[s].change <= 0 /\ disk[s].change \in Nat
    BY <1>3, DiskCounts DEF Drivers, OnDisk
  <2>2. disk[s] = NoRecord
    BY <2>1 DEF OnDisk
  <2> QED
    BY <2>2 DEF Claims, NoRecord, Record
<1>4. CASE session[s] = "dropped" /\ ~abandoned[s] /\ Pending(s) = {} /\ failed[s] # change[s]
  <2>1. state[s] = "ended"
    BY <1>4 DEF Drivers
  <2>2. disk[s] \in {NoRecord, Record("ended", change[s])}
    BY <1>4, <2>1, CatchesUp DEF DiskCatchesUp, Alive
  <2> QED
    BY <2>2 DEF Claims, NoRecord, Record
<1> QED
  BY <1>1, <1>2, <1>3, <1>4 DEF Alive

\* From what list() has read: only what is old goes.
LEMMA KeepsRecords == IInv => RecordsAreKept
  BY DEF IInv, RecordInv, Kept, Newer, RecordsAreKept

\* One step of a record, up to another one that is there.
LEMMA Forward ==
  ASSUME IInv, Next, NEW s \in Ids, disk[s] # NoRecord, disk'[s] # NoRecord
  PROVE  /\ disk'[s].change >= disk[s].change
         /\ disk[s].state = "ended" /\ ~abandoned[s] => disk'[s].state = "ended"
<1> USE DEF IInv, RecordInv
<1>1. disk[s] \in Records /\ disk \in [Ids -> Records] /\ tmp \in [Ids -> Records]
  BY DEF TypeOK
<1>2. disk[s].change \in Nat
  BY <1>1, BoundsAssumption DEF Records, Changes
<1>3. CASE disk'[s] = disk[s]
  BY <1>2, <1>3
<1>4. ASSUME NEW n \in Changes, Rename(s, n)
      PROVE  /\ disk'[s].change >= disk[s].change
             /\ disk[s].state = "ended" /\ ~abandoned[s] => disk'[s].state = "ended"
  <2>1. step[s][n] = "renaming" /\ disk'[s] = tmp[s]
    BY <1>1, <1>4 DEF Rename
  <2>2. tmp[s] = text[s][n]
    BY <2>1 DEF Text, InFlight
  <2>3. text[s][n].change >= disk[s].change
    BY <2>1 DEF Text, InFlight
  <2>4. disk[s].state = "ended" /\ ~abandoned[s] => text[s][n].state = "ended"
    BY <2>1 DEF Ended, InFlight
  <2> QED
    BY <2>1, <2>2, <2>3, <2>4
<1>5. CASE Mark(s)
  <2>1. disk' = [disk EXCEPT ![s] = [disk[s] EXCEPT !.state = "interrupted"]] /\ s \in toMark
    BY <1>5 DEF Mark
  <2>2. disk'[s].change = disk[s].change
    BY <1>1, <2>1 DEF Records
  <2>3. disk[s].state # "ended"
    BY <2>1 DEF Found, Claims
  <2> QED
    BY <1>2, <2>2, <2>3
<1> QED
  BY <1>3, <1>4, <1>5, DiskSteps

-----------------------------------------------------------------------------

\* Type correctness of the records, their writes, the requests and the listing
\* (SessionManager.persist, DeploymentStore).
THEOREM TypeCorrect == Spec => []TypeOK
<1>1. IInv => TypeOK
  BY DEF IInv
<1> QED
  BY <1>1, Invariance, PTL

\* Two writes of one record never overlap, however many changes follow one another and
\* whichever writes fail (SessionManager.persist, this.saving).
THEOREM WritersTakeTurns == Spec => []OneWriterPerRecord
  BY OneWriter, Invariance, PTL

\* When no write is under way and the last one has not failed, the record shows the
\* deployment as it is (persist, DeploymentStore.save).
THEOREM RecordsCatchUp == Spec => []DiskCatchesUp
  BY CatchesUp, Invariance, PTL

\* No write there was when a deployment was forgotten is still to come when its record is
\* removed (SessionManager.forget, flushRecords).
THEOREM NoWriteAfterForgetting == Spec => []ForgottenWritesAreOver
  BY Forgets, Invariance, PTL

\* Whatever crash there was, a process that is up has no record of a deployment it does
\* not run claim to be running (recoverInterrupted).
THEOREM RestartsTellTheTruth == Spec => []NothingClaimsToRun
  BY ClaimsNothing, Invariance, PTL

\* A record once written goes away by its own DELETE or when Keep newer ones have been
\* written (DeploymentStore.list).
THEOREM RecordsStay == Spec => []RecordsAreKept
  BY KeepsRecords, Invariance, PTL

\* No step takes a record back to an earlier change or out of its ended state
\* (DeploymentStore.save, recoverInterrupted).
THEOREM RecordsNeverGoBack == Spec => RecordsMoveForward
<1>1. IInv /\ [Next]_vars =>
        [\A s \in Ids : disk[s] # NoRecord /\ disk'[s] # NoRecord =>
           /\ disk'[s].change >= disk[s].change
           /\ disk[s].state = "ended" /\ ~abandoned[s] => disk'[s].state = "ended"]_vars
  BY Forward
<1> QED
  BY <1>1, Invariance, PTL DEF Spec, RecordsMoveForward

=============================================================================
