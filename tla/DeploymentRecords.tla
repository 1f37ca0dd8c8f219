------------------------- MODULE DeploymentRecords -------------------------
(***************************************************************************)
(* The record of each deployment on disk: the writes a state change queues, *)
(* flushRecords, DELETE, the trimming list, a crash and what the next       *)
(* process makes of the records it finds (SessionManager.persist and        *)
(* forget, DeploymentStore, api/deployments).                               *)
(*                                                                          *)
(* One process at a time: how several share the directory is InstanceSweep. *)
(* A record is the state it shows and the number of the change that made    *)
(* it; all else in it is taken from the session at the same moment.         *)
(***************************************************************************)
EXTENDS Naturals, FiniteSets

CONSTANTS
  NumIds,      \* bound: deployments, in the order they are launched
  MaxChanges,  \* bound: state changes of all of them together
  MaxCrashes,  \* bound
  Keep,        \* records the store keeps (200)
  Retain,      \* finished sessions kept in memory (10)
  Enders,      \* who may end a deployment besides DELETE, in this instance
  WritesFail   \* whether writing a file may fail

ASSUME BoundsAssumption ==
  /\ NumIds \in Nat \ {0} /\ MaxChanges \in Nat /\ MaxCrashes \in Nat
  /\ Keep \in Nat /\ Retain \in Nat

ASSUME EndersAssumption == Enders \subseteq {"stop", "cancel", "abandon"} /\ WritesFail \in BOOLEAN

Ids     == 1..NumIds
Changes == 1..MaxChanges

VARIABLES
  process,   \* up, or starting: listing the records, then marking them
  crashes,
  session,   \* whether the manager holds it; lost with its process
  state,     \* session.state: active, cleaning (up) or ended
  change,    \* how many state changes it has had
  stopped,   \* session.stopped
  pipe,      \* its pipeline is in flight
  ending,    \* who has begun to end it and not finished
  abandoned, \* history: the startup bound ended it, and its pipeline went on
  step,      \* the write each change queued: what it waits for
  after,     \* the write before it in the chain
  text,      \* the record it writes
  saving,    \* this.saving: the last write of the chain
  tmp,       \* <id>.json.<pid>.tmp
  disk,      \* <id>.json
  request,   \* DELETE of each deployment
  waits,     \* the writes its flushRecords waits for
  forgotAt,  \* history: the change at which it was forgotten
  lister,    \* a list() in flight, and records() before it
  listWaits, \* the writes its flushRecords waits for
  toRead,    \* names of its directory listing still to be read
  seen,      \* what it has read
  toTrim,    \* what it still removes
  toMark,    \* what recoverInterrupted still overwrites
  failed,    \* history: the last change whose write failed
  unmarked,  \* history: its record could not be marked as interrupted
  landed     \* history: its record has been on disk

sessionVars == <<session, state, change, stopped, pipe, ending, abandoned>>
writeVars   == <<step, after, text, saving, tmp>>
deleteVars  == <<request, waits, forgotAt>>
listVars    == <<lister, listWaits, toRead, seen, toTrim, toMark>>
histVars    == <<failed, unmarked, landed>>
vars == <<process, crashes, sessionVars, writeVars, disk, deleteVars, listVars, histVars>>

States == {"none", "active", "cleaning", "ended"}

Record(st, n) == [state |-> st, change |-> n]

NoRecord == Record("none", 0)
Torn     == Record("torn", 0)
Records  == [state : States \cup {"interrupted", "torn"}, change : Changes \cup {0}]

InFlight == {"writing", "renaming"}

TypeOK ==
  /\ process \in {"up", "starting", "marking"}
  /\ crashes \in 0..MaxCrashes
  /\ session \in [Ids -> {"new", "held", "dropped", "lost"}]
  /\ state \in [Ids -> States]
  /\ change \in [Ids -> 0..MaxChanges]
  /\ stopped \in [Ids -> BOOLEAN]
  /\ pipe \in [Ids -> BOOLEAN]
  /\ ending \in [Ids -> SUBSET (Enders \cup {"delete"})]
  /\ abandoned \in [Ids -> BOOLEAN]
  /\ step \in [Ids -> [Changes -> {"none", "waiting", "done"} \cup InFlight]]
  /\ after \in [Ids -> [Changes -> 0..MaxChanges]]
  /\ text \in [Ids -> [Changes -> Records]]
  /\ saving \in [Ids -> 0..MaxChanges]
  /\ tmp \in [Ids -> Records]
  /\ disk \in [Ids -> Records]
  /\ request \in [Ids -> {"none", "cancelling", "flushing", "removing", "answered"}]
  /\ waits \in [Ids -> SUBSET (Ids \X Changes)]
  /\ forgotAt \in [Ids -> 0..MaxChanges]
  /\ lister \in {"idle", "flushing", "reading", "trimming"}
  /\ listWaits \in SUBSET (Ids \X Changes)
  /\ toRead \in SUBSET Ids
  /\ seen \in SUBSET Ids
  /\ toTrim \in SUBSET Ids
  /\ toMark \in SUBSET Ids
  /\ failed \in [Ids -> 0..MaxChanges]
  /\ unmarked \in [Ids -> BOOLEAN]
  /\ landed \in [Ids -> BOOLEAN]
  /\ toMark # {} => process = "marking"
  /\ listWaits # {} => lister = "flushing"
  /\ \A s \in Ids :
       /\ waits[s] # {} => request[s] = "flushing"
       /\ \A n \in Changes : after[s][n] # 0 => step[s][n] = "waiting"

Init ==
  /\ process = "up"
  /\ crashes = 0
  /\ session = [s \in Ids |-> "new"]
  /\ state = [s \in Ids |-> "none"]
  /\ change = [s \in Ids |-> 0]
  /\ stopped = [s \in Ids |-> FALSE]
  /\ pipe = [s \in Ids |-> FALSE]
  /\ ending = [s \in Ids |-> {}]
  /\ abandoned = [s \in Ids |-> FALSE]
  /\ step = [s \in Ids |-> [n \in Changes |-> "none"]]
  /\ after = [s \in Ids |-> [n \in Changes |-> 0]]
  /\ text = [s \in Ids |-> [n \in Changes |-> NoRecord]]
  /\ saving = [s \in Ids |-> 0]
  /\ tmp = [s \in Ids |-> NoRecord]
  /\ disk = [s \in Ids |-> NoRecord]
  /\ request = [s \in Ids |-> "none"]
  /\ waits = [s \in Ids |-> {}]
  /\ forgotAt = [s \in Ids |-> 0]
  /\ lister = "idle"
  /\ listWaits = {}
  /\ toRead = {}
  /\ seen = {}
  /\ toTrim = {}
  /\ toMark = {}
  /\ failed = [s \in Ids |-> 0]
  /\ unmarked = [s \in Ids |-> FALSE]
  /\ landed = [s \in Ids |-> FALSE]

-----------------------------------------------------------------------------
\* setState, and the write it queues

Finished(sn, st) == {s \in Ids : sn[s] = "held" /\ st[s] = "ended"}

\* evictFinished: all but the newest Retain of the finished sessions leave the memory.
Evicted(sn, st) ==
  [s \in Ids |-> IF /\ s \in Finished(sn, st)
                   /\ Cardinality({t \in Finished(sn, st) : t > s}) >= Retain
                 THEN "dropped" ELSE sn[s]]

\* Mutant: each write starts at once.
PersistUnchained(s, n) ==
  /\ step' = [step EXCEPT ![s][n] = "waiting"]
  /\ after' = [after EXCEPT ![s][n] = 0]
  /\ saving' = [saving EXCEPT ![s] = n]

\* persist: one more write at the end of the session's chain.
Persist(s, n) ==
  /\ step' = [step EXCEPT ![s][n] = "waiting"]
  /\ after' = [after EXCEPT ![s][n] = saving[s]]
  /\ saving' = [saving EXCEPT ![s] = n]

\* Keeps the instance small.
MayChange == Cardinality({w \in Ids \X Changes : step[w[1]][w[2]] # "none"}) < MaxChanges

SetState(s, st) ==
  /\ MayChange
  /\ change' = [change EXCEPT ![s] = @ + 1]
  /\ state' = [state EXCEPT ![s] = st]
  /\ Persist(s, change[s] + 1)
  /\ UNCHANGED <<process, crashes, text, tmp, disk, listVars, histVars>>

\* setState's last lines: a session that has ended may push older ones out.
Evicts == session' = Evicted(session, state')

\* launch.  The state it starts in is not written: the first change is.
Launch(s) ==
  /\ process = "up"
  /\ session[s] = "new" /\ \A t \in Ids : t < s => session[t] # "new"
  /\ state' = [state EXCEPT ![s] = "active"]
  /\ pipe' = [pipe EXCEPT ![s] = TRUE]
  /\ session' = Evicted([session EXCEPT ![s] = "held"], state')
  /\ UNCHANGED <<process, crashes, change, stopped, ending, abandoned, writeVars, disk,
                 deleteVars, listVars, histVars>>

\* Its pipeline, a repair or a restart takes it to another state that is not final;
\* one the startup bound has ended, too.
Advance(s) ==
  /\ pipe[s] /\ ~stopped[s]
  /\ SetState(s, "active")
  /\ UNCHANGED <<session, stopped, pipe, ending, abandoned, deleteVars>>

Fails(s) ==
  /\ pipe[s] /\ ~stopped[s]
  /\ SetState(s, "ended") /\ Evicts
  /\ pipe' = [pipe EXCEPT ![s] = FALSE]
  /\ UNCHANGED <<stopped, ending, abandoned, deleteVars>>

\* stop, cancel and abandon, up to their teardown.
Begins(s, e) ==
  /\ session[s] = "held" /\ state[s] # "ended" /\ e \notin ending[s]
  /\ SetState(s, "cleaning")
  /\ ending' = [ending EXCEPT ![s] = @ \cup {e}]
  /\ stopped' = [stopped EXCEPT ![s] = @ \/ e # "abandon"]
  /\ abandoned' = [abandoned EXCEPT ![s] = @ \/ e = "abandon"]
  /\ UNCHANGED <<session, pipe>>

Begin(s, e) == Begins(s, e) /\ UNCHANGED deleteVars

\* Their teardown is over.  One who finds the session stopped cannot fail it.
Finish(s, e) ==
  /\ e \in ending[s]
  /\ ending' = [ending EXCEPT ![s] = @ \ {e}]
  /\ UNCHANGED <<stopped, pipe, abandoned, deleteVars>>
  /\ IF e = "abandon" /\ stopped[s]
       THEN UNCHANGED <<process, crashes, session, state, change, writeVars, disk,
                        listVars, histVars>>
       ELSE SetState(s, "ended") /\ Evicts

-----------------------------------------------------------------------------
\* The writes: save's writeFile and rename

HasTurn(s, n) == after[s][n] # 0 => step[s][after[s][n]] = "done"

\* The write before it is over: toRecord, and writeFile opens the temporary file, which
\* empties it.  (The directory is there, so mkdir does nothing.)
Turn(s, n) ==
  /\ step[s][n] = "waiting" /\ HasTurn(s, n)
  /\ step' = [step EXCEPT ![s][n] = "writing"]
  /\ after' = [after EXCEPT ![s][n] = 0]
  /\ text' = [text EXCEPT ![s][n] = Record(state[s], change[s])]
  /\ tmp' = [tmp EXCEPT ![s] = Torn]
  /\ UNCHANGED <<process, crashes, sessionVars, saving, disk, deleteVars, listVars,
                 histVars>>

Write(s, n) ==
  /\ step[s][n] = "writing"
  /\ step' = [step EXCEPT ![s][n] = "renaming"]
  /\ tmp' = [tmp EXCEPT ![s] = text[s][n]]
  /\ UNCHANGED <<process, crashes, sessionVars, after, text, saving, disk, deleteVars,
                 listVars, histVars>>

\* Mutant: a chain is over when any write of it is.
SettledEarly(s, n) ==
  /\ step' = [step EXCEPT ![s][n] = "done"]
  /\ text' = [text EXCEPT ![s][n] = NoRecord]
  /\ saving' = [saving EXCEPT ![s] = 0]

\* catch and finally: the chain is over when its last write is.
Settled(s, n) ==
  /\ step' = [step EXCEPT ![s][n] = "done"]
  /\ text' = [text EXCEPT ![s][n] = NoRecord]
  /\ saving' = [saving EXCEPT ![s] = IF @ = n THEN 0 ELSE @]

Rename(s, n) ==
  /\ step[s][n] = "renaming" /\ tmp[s] # NoRecord
  /\ disk' = [disk EXCEPT ![s] = tmp[s]]
  /\ tmp' = [tmp EXCEPT ![s] = NoRecord]
  /\ Settled(s, n)
  /\ landed' = [landed EXCEPT ![s] = TRUE]
  /\ UNCHANGED <<process, crashes, sessionVars, after, deleteVars, listVars, failed,
                 unmarked>>

\* writeFile or rename rejects; nobody is told.
WriteFails(s, n) ==
  /\ step[s][n] \in InFlight
  /\ WritesFail \/ (step[s][n] = "renaming" /\ tmp[s] = NoRecord)
  /\ Settled(s, n)
  /\ failed' = [failed EXCEPT ![s] = n]
  /\ UNCHANGED <<process, crashes, sessionVars, after, tmp, disk, deleteVars, listVars,
                 unmarked, landed>>

-----------------------------------------------------------------------------
\* DELETE: cancel, then forget

\* flushRecords: the last write of every chain there is now.
Chains == {<<t, saving[t]>> : t \in {u \in Ids : saving[u] # 0}}

Over(writes) == \A w \in writes : step[w[1]][w[2]] = "done"

\* Mutant: the record is removed without waiting for writes of it.
ForgetUnflushed(s) ==
  /\ request' = [request EXCEPT ![s] = "flushing"]
  /\ waits' = waits
  /\ forgotAt' = [forgotAt EXCEPT ![s] = change'[s]]

Forget(s) ==
  /\ request' = [request EXCEPT ![s] = "flushing"]
  /\ waits' = [waits EXCEPT ![s] = Chains']
  /\ forgotAt' = [forgotAt EXCEPT ![s] = change'[s]]

Forgotten(sn, s) == [sn EXCEPT ![s] = IF @ = "held" THEN "dropped" ELSE @]

\* Of one that is running it is a cancel first; of any other, forget.
Delete(s) ==
  /\ process = "up" /\ request[s] = "none"
  /\ session[s] = "held" \/ disk[s] # NoRecord
  /\ IF session[s] = "held" /\ state[s] # "ended"
       THEN /\ Begins(s, "delete")
            /\ request' = [request EXCEPT ![s] = "cancelling"]
            /\ UNCHANGED <<waits, forgotAt>>
       ELSE /\ session' = Forgotten(session, s)
            /\ UNCHANGED <<process, crashes, state, change, stopped, pipe, ending,
                           abandoned, writeVars, disk, listVars, histVars>>
            /\ Forget(s)

Cancelled(s) ==
  /\ request[s] = "cancelling"
  /\ SetState(s, "ended")
  /\ ending' = [ending EXCEPT ![s] = @ \ {"delete"}]
  /\ session' = Forgotten(Evicted(session, state'), s)
  /\ Forget(s)
  /\ UNCHANGED <<stopped, pipe, abandoned>>

Flushed(s) ==
  /\ request[s] = "flushing" /\ Over(waits[s])
  /\ request' = [request EXCEPT ![s] = "removing"]
  /\ waits' = [waits EXCEPT ![s] = {}]
  /\ UNCHANGED <<process, crashes, sessionVars, writeVars, disk, forgotAt, listVars,
                 histVars>>

\* store.remove, and 204.
Removed(s) ==
  /\ request[s] = "removing"
  /\ request' = [request EXCEPT ![s] = "answered"]
  /\ disk' = [disk EXCEPT ![s] = NoRecord]
  /\ UNCHANGED <<process, crashes, sessionVars, writeVars, waits, forgotAt, listVars,
                 histVars>>

-----------------------------------------------------------------------------
\* records(), and the store's list(), which trims

ListRecords ==
  /\ process = "up" /\ lister = "idle"
  /\ lister' = "flushing"
  /\ listWaits' = Chains
  /\ UNCHANGED <<process, crashes, sessionVars, writeVars, disk, deleteVars, toRead, seen,
                 toTrim, toMark, histVars>>

ListNames ==
  /\ lister = "flushing" /\ Over(listWaits)
  /\ lister' = "reading"
  /\ listWaits' = {}
  /\ toRead' = {s \in Ids : disk[s] # NoRecord}
  /\ UNCHANGED <<process, crashes, sessionVars, writeVars, disk, deleteVars, seen, toTrim,
                 toMark, histVars>>

\* get: a file gone meanwhile, or one that does not parse, is passed over.
ReadRecord(s) ==
  /\ lister = "reading" /\ s \in toRead
  /\ toRead' = toRead \ {s}
  /\ seen' = seen \cup {t \in {s} : disk[t] \notin {NoRecord, Torn}}
  /\ UNCHANGED <<process, crashes, sessionVars, writeVars, disk, deleteVars, lister,
                 listWaits, toTrim, toMark, histVars>>

\* Mutant: the newest go first.
Youngest == {s \in seen : Cardinality({t \in seen : t < s}) >= Keep}

\* All but the Keep newest.
Oldest == {s \in seen : Cardinality({t \in seen : t > s}) >= Keep}

ListTrim ==
  /\ lister = "reading" /\ toRead = {}
  /\ lister' = "trimming"
  /\ toTrim' = Oldest
  /\ seen' = seen \ Oldest
  /\ UNCHANGED <<process, crashes, sessionVars, writeVars, disk, deleteVars, listWaits,
                 toRead, toMark, histVars>>

Trim(s) ==
  /\ s \in toTrim
  /\ toTrim' = toTrim \ {s}
  /\ disk' = [disk EXCEPT ![s] = NoRecord]
  /\ UNCHANGED <<process, crashes, sessionVars, writeVars, deleteVars, lister, listWaits,
                 toRead, seen, toMark, histVars>>

\* Mutant: of a deployment that was being ended nothing need be said.
Running == {s \in seen : disk[s].state = "active"}

\* Records that claim to be running.
Claiming == {s \in seen : disk[s].state \in {"active", "cleaning"}}

\* The list is returned: to a request, or to recoverInterrupted.
Listed ==
  /\ lister = "trimming" /\ toTrim = {}
  /\ lister' = "idle"
  /\ seen' = {}
  /\ IF process = "starting"
       THEN /\ process' = "marking"
            /\ toMark' = Claiming
       ELSE UNCHANGED <<process, toMark>>
  /\ UNCHANGED <<crashes, sessionVars, writeVars, disk, deleteVars, listWaits, toRead,
                 toTrim, histVars>>

-----------------------------------------------------------------------------
\* A crash, and recoverInterrupted in the process started next

\* The process is killed, its temporary files are nobody's, and another one starts.
Crash ==
  /\ crashes < MaxCrashes
  /\ crashes' = crashes + 1
  /\ process' = "starting"
  /\ session' = [s \in Ids |-> IF session[s] = "new" THEN "new" ELSE "lost"]
  /\ pipe' = [s \in Ids |-> FALSE]
  /\ ending' = [s \in Ids |-> {}]
  /\ step' = [s \in Ids |-> [n \in Changes |-> IF step[s][n] = "none" THEN "none" ELSE "done"]]
  /\ after' = [s \in Ids |-> [n \in Changes |-> 0]]
  /\ text' = [s \in Ids |-> [n \in Changes |-> NoRecord]]
  /\ saving' = [s \in Ids |-> 0]
  /\ tmp' = [s \in Ids |-> NoRecord]
  /\ request' = [s \in Ids |-> IF request[s] = "answered" THEN "answered" ELSE "none"]
  /\ waits' = [s \in Ids |-> {}]
  /\ lister' = "reading"
  /\ listWaits' = {}
  /\ toRead' = {s \in Ids : disk[s] # NoRecord}
  /\ seen' = {}
  /\ toTrim' = {}
  /\ toMark' = {}
  /\ UNCHANGED <<state, change, stopped, abandoned, disk, forgotAt, histVars>>

\* A record that claims to be running; nobody else writes it now.
Mark(s) ==
  /\ s \in toMark
  /\ toMark' = toMark \ {s}
  /\ disk' = [disk EXCEPT ![s].state = "interrupted"]
  /\ unmarked' = [unmarked EXCEPT ![s] = FALSE]
  /\ UNCHANGED <<process, crashes, sessionVars, writeVars, deleteVars, lister, listWaits,
                 toRead, seen, toTrim, failed, landed>>

\* One that cannot be written leaves the rest as they are.
MarkFails(s) ==
  /\ WritesFail /\ s \in toMark
  /\ toMark' = {}
  /\ unmarked' = [t \in Ids |-> unmarked[t] \/ t \in toMark]
  /\ UNCHANGED <<process, crashes, sessionVars, writeVars, disk, deleteVars, lister,
                 listWaits, toRead, seen, toTrim, failed, landed>>

Listen ==
  /\ process = "marking" /\ toMark = {}
  /\ process' = "up"
  /\ UNCHANGED <<crashes, sessionVars, writeVars, disk, deleteVars, listVars, histVars>>

-----------------------------------------------------------------------------

Deployment(s) ==
  \/ Launch(s) \/ Advance(s) \/ Fails(s)
  \/ \E e \in Enders : Begin(s, e) \/ Finish(s, e)
  \/ Delete(s) \/ Cancelled(s) \/ Flushed(s) \/ Removed(s)

Writing(s) ==
  \E n \in Changes :
    Turn(s, n) \/ Write(s, n) \/ Rename(s, n) \/ WriteFails(s, n)

Store ==
  \/ ListRecords \/ ListNames \/ ListTrim \/ Listed
  \/ \E s \in Ids : ReadRecord(s) \/ Trim(s)

Recovery == Crash \/ Listen \/ \E s \in Ids : Mark(s) \/ MarkFails(s)

Next == (\E s \in Ids : Deployment(s) \/ Writing(s)) \/ Store \/ Recovery

Spec == Init /\ [][Next]_vars

-----------------------------------------------------------------------------
\* Properties

Pending(s) == {n \in Changes : step[s][n] \in {"waiting"} \cup InFlight}

Alive(s) == session[s] \in {"held", "dropped"}

\* Two writes of one record never overlap: they share their temporary file (persist,
\* "one write at a time per session").
OneWriterPerRecord ==
  \A s \in Ids : Cardinality({n \in Changes : step[s][n] \in InFlight}) <= 1

\* With no write under way, the record shows the deployment as it is, whichever
\* writes before the last one have failed.
DiskCatchesUp ==
  \A s \in Ids : Alive(s) /\ Pending(s) = {} /\ failed[s] # change[s] =>
    disk[s] \in {NoRecord, Record(state[s], change[s])}

\* A record never goes back to an earlier change, and what has ended stays ended:
\* neither a late write nor a restart makes it running or interrupted again.
RecordsMoveForward ==
  [][\A s \in Ids : disk[s] # NoRecord /\ disk'[s] # NoRecord =>
       /\ disk'[s].change >= disk[s].change
       /\ disk[s].state = "ended" /\ ~abandoned[s] => disk'[s].state = "ended"]_vars

\* forget waits for every write there was: none of them brings the record back.
ForgottenWritesAreOver ==
  \A s \in Ids : request[s] \in {"removing", "answered"} =>
    \A n \in Pending(s) : n > forgotAt[s]

\* No record claims that a deployment is running which the process does not run,
\* but for one whose last change could not be written (recoverInterrupted).
NothingClaimsToRun ==
  process = "up" =>
    \A s \in Ids : disk[s].state \in {"active", "cleaning"} =>
      \/ session[s] = "held"
      \/ (Alive(s) /\ (Pending(s) # {} \/ ending[s] # {}))
      \/ failed[s] = change[s] \/ unmarked[s] \/ abandoned[s]

\* Once written, a record stays until it is deleted or Keep newer ones are there.
RecordsAreKept ==
  \A s \in Ids : landed[s] /\ disk[s] = NoRecord =>
    \/ request[s] = "answered"
    \/ Cardinality({t \in Ids : t > s /\ landed[t]}) >= Keep

-----------------------------------------------------------------------------
\* What the repository says of the code, and the code does not keep

\* "Stop it if it is running, and forget its record" (DELETE /api/deployments/:id).
DeletedStaysDeleted == \A s \in Ids : request[s] = "answered" => disk[s] = NoRecord

=============================================================================
