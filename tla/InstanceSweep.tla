--------------------------- MODULE InstanceSweep ---------------------------
(***************************************************************************)
(* DevLaunch processes on one machine: how each of them starts, runs       *)
(* deployments, closes or is killed, and how the next one to start cleans  *)
(* up after it (server.ts, InstanceRegistry, CleanupManager, and           *)
(* SessionManager.recoverInterrupted).                                     *)
(*                                                                         *)
(* Processes share the registry's directory, Docker and the records on     *)
(* disk; an action is what one process does between two awaits.  What a    *)
(* deployment leaves in Docker (containers, volumes, network: the sweeps   *)
(* treat them by the same rule) is one container here.                     *)
(***************************************************************************)
EXTENDS Naturals, FiniteSets

CONSTANTS
  Procs,        \* bound: the processes ever started; each start is another one
  Deployments,  \* bound: the deployments ever launched
  MaxEnds,      \* bound: how many processes close or are killed
  Nobody,       \* no process
  Faults        \* the failures this instance considers

ASSUME BoundsAssumption == Nobody \notin Procs /\ MaxEnds \in Nat

\* What a process swallows and goes on from.  Starting: the registry cannot be read
\* ("live") or written ("register"), Docker does not list its containers ("docker"), the
\* records cannot be read or written ("records").  Sweeping, at either end: Docker refuses
\* to remove a container ("remove").  Running: a record cannot be saved ("save").
\* Closing: Docker does not list ("own"), its file cannot be removed ("unregister").
ASSUME FaultsAssumption ==
  Faults \subseteq {"live", "register", "docker", "records", "remove", "save", "own",
                   "unregister"}

VARIABLES
  phase,     \* each process: what startServer, or close, awaits
  file,      \* each process's file in the registry
  toRead,    \* names of the directory listing still to be read
  stale,     \* the process whose file is being removed as a dead one's
  live,      \* the ids found alive
  toRemove,  \* containers of the sweep's listing still to be removed
  toMark,    \* records recoverInterrupted is going to overwrite
  list,      \* sessions.list() as shutdown found it
  flush,     \* the writes flushRecords waits for
  owner,     \* the process that launched each deployment
  mem,       \* session.state as its process has it: running or ended
  box,       \* its container in Docker
  dirty,     \* a write of its record is due
  record,    \* its record on disk
  reused,    \* dead processes whose pid another program has been given
  met,       \* history: the failures a process met while starting and closing
  refused,   \* history: containers Docker would not remove for the sweeps of a process
  unsaved,   \* history: deployments whose last write of a record failed
  lost,      \* history: processes whose file another one removed
  known,     \* history: processes up with their file whole when p started
  bereft,    \* history: deployments whose process was gone when p started
  orphaned,  \* history: those of them that had a container then
  late       \* history: containers created when their process had listed its own

startVars  == <<toRead, stale, live, toMark>>
deployVars == <<owner, mem, box, dirty>>
leftVars   == <<known, bereft, orphaned>>
faultVars  == <<met, refused, unsaved>>
histVars   == <<reused, faultVars, lost, leftVars, late>>
vars == <<phase, file, toRead, stale, live, toRemove, toMark, list, flush, owner, mem,
          box, dirty, record, reused, met, refused, unsaved, lost, known, bereft,
          orphaned, late>>

Starting == {"reading", "registering", "writing", "listing", "removing", "marking"}
Closing  == {"cancelling", "flushing", "ownListing", "ownRemoving", "unregistering"}
OwnListed == {"ownRemoving", "unregistering"}
Gone     == {"closed", "dead"}
Phases   == {"new", "up"} \cup Starting \cup Closing \cup Gone

TypeOK ==
  /\ phase \in [Procs -> Phases]
  /\ file \in [Procs -> {"none", "empty", "written"}]
  /\ toRead \in [Procs -> SUBSET Procs]
  /\ stale \in [Procs -> Procs \cup {Nobody}]
  /\ live \in [Procs -> SUBSET Procs]
  /\ toRemove \in [Procs -> SUBSET Deployments]
  /\ toMark \in [Procs -> SUBSET Deployments]
  /\ list \in [Procs -> SUBSET Deployments]
  /\ flush \in [Procs -> SUBSET Deployments]
  /\ owner \in [Deployments -> Procs \cup {Nobody}]
  /\ mem \in [Deployments -> {"none", "running", "ended"}]
  /\ box \in [Deployments -> {"none", "asked", "live", "gone"}]
  /\ dirty \in [Deployments -> BOOLEAN]
  /\ record \in [Deployments -> {"none", "running", "ended", "interrupted"}]
  /\ reused \in SUBSET Procs
  /\ met \in [Procs -> SUBSET Faults]
  /\ refused \in [Procs -> SUBSET Deployments]
  /\ unsaved \in SUBSET Deployments
  /\ lost \in SUBSET Procs
  /\ known \in [Procs -> SUBSET Procs]
  /\ bereft \in [Procs -> SUBSET Deployments]
  /\ orphaned \in [Procs -> SUBSET Deployments]
  /\ late \in SUBSET Deployments
  /\ \A d \in Deployments : owner[d] = Nobody => mem[d] = "none"
  /\ \A p \in Procs :
       /\ stale[p] # Nobody => phase[p] = "reading"
       /\ toRemove[p] # {} => phase[p] \in {"removing", "ownRemoving"}
       /\ toMark[p] # {} => phase[p] = "marking"

Init ==
  /\ phase = [p \in Procs |-> "new"]
  /\ file = [p \in Procs |-> "none"]
  /\ toRead = [p \in Procs |-> {}]
  /\ stale = [p \in Procs |-> Nobody]
  /\ live = [p \in Procs |-> {}]
  /\ toRemove = [p \in Procs |-> {}]
  /\ toMark = [p \in Procs |-> {}]
  /\ list = [p \in Procs |-> {}]
  /\ flush = [p \in Procs |-> {}]
  /\ owner = [d \in Deployments |-> Nobody]
  /\ mem = [d \in Deployments |-> "none"]
  /\ box = [d \in Deployments |-> "none"]
  /\ dirty = [d \in Deployments |-> FALSE]
  /\ record = [d \in Deployments |-> "none"]
  /\ reused = {}
  /\ met = [p \in Procs |-> {}]
  /\ refused = [p \in Procs |-> {}]
  /\ unsaved = {}
  /\ lost = {}
  /\ known = [p \in Procs |-> {}]
  /\ bereft = [p \in Procs |-> {}]
  /\ orphaned = [p \in Procs |-> {}]
  /\ late = {}

Alive(p) == phase[p] \notin {"new"} \cup Gone

Goes(p, from, to) == phase[p] = from /\ phase' = [phase EXCEPT ![p] = to]

Of(p) == {d \in Deployments : owner[d] = p}

-----------------------------------------------------------------------------
\* Starting: registry.live(), registry.register()

\* Whose process is gone, and its pid not another program's.
Bereft ==
  {d \in Deployments : owner[d] # Nobody /\ ~Alive(owner[d]) /\ owner[d] \notin reused}

\* A process goes on from a failure, which is noted if there is something it can harm.
Meets(p, fault, harmed) ==
  /\ fault \in Faults
  /\ met' = [met EXCEPT ![p] = IF harmed = {} THEN @ ELSE @ \cup {fault}]

\* readdir of the registry's directory; when it fails, there is nothing to read.
Start(p) ==
  /\ Goes(p, "new", "reading")
  /\ known' = [known EXCEPT ![p] = {q \in Procs : Alive(q) /\ file[q] = "written"}]
  /\ \/ /\ toRead' = [toRead EXCEPT ![p] = {q \in Procs : file[q] # "none"}]
        /\ UNCHANGED met
     \/ Meets(p, "live", known'[p]) /\ UNCHANGED toRead
  /\ bereft' = [bereft EXCEPT ![p] = Bereft]
  /\ orphaned' = [orphaned EXCEPT ![p] = {d \in Bereft : box[d] = "live"}]
  /\ UNCHANGED <<file, stale, live, toRemove, toMark, list, flush, deployVars, record,
                 reused, refused, unsaved, lost, late>>

\* Mutant: the pid in the file is not asked after.
PidAnswers(q) == file[q] = "written"

\* A file with a pid that something answers to.  A file opened and not written
\* yet has none.
PidAlive(q) == file[q] = "written" /\ (Alive(q) \/ q \in reused)

\* A file that cannot be read is taken for a dead process's.
ReadFile(p, q) ==
  /\ phase[p] = "reading" /\ stale[p] = Nobody /\ q \in toRead[p]
  /\ toRead' = [toRead EXCEPT ![p] = @ \ {q}]
  /\ \/ PidAlive(q) /\ live' = [live EXCEPT ![p] = @ \cup {q}] /\ UNCHANGED stale
     \/ /\ ~PidAlive(q) \/ "live" \in Faults
        /\ stale' = [stale EXCEPT ![p] = q]
        /\ UNCHANGED live
  /\ UNCHANGED <<phase, file, toRemove, toMark, list, flush, deployVars, record, histVars>>

\* The file of a process taken for dead goes; or rm fails, live() rejects, and
\* nobody is taken for alive.
RemoveFile(p) ==
  /\ stale[p] # Nobody
  /\ stale' = [stale EXCEPT ![p] = Nobody]
  /\ \/ /\ file' = [file EXCEPT ![stale[p]] = "none"]
        /\ lost' = lost \cup {q \in {stale[p]} : file[q] # "none"}
        /\ UNCHANGED <<phase, toRead, live, met>>
     \/ /\ Meets(p, "live", known[p])
        /\ Goes(p, "reading", "registering")
        /\ toRead' = [toRead EXCEPT ![p] = {}]
        /\ live' = [live EXCEPT ![p] = {}]
        /\ UNCHANGED <<file, lost>>
  /\ UNCHANGED <<toRemove, toMark, list, flush, deployVars, record, reused, refused, unsaved,
                 leftVars, late>>

\* register: writeFile opens the file, then writes the pid into it.
RegisterOpen(p) ==
  /\ \/ /\ phase[p] = "reading" /\ toRead[p] = {} /\ stale[p] = Nobody
     \/ phase[p] = "registering"
  /\ \/ /\ phase' = [phase EXCEPT ![p] = "writing"]
        /\ file' = [file EXCEPT ![p] = "empty"]
     \/ /\ "register" \in Faults
        /\ phase' = [phase EXCEPT ![p] = "listing"]
        /\ UNCHANGED file
  /\ UNCHANGED <<startVars, toRemove, list, flush, deployVars, record, histVars>>

\* A file removed meanwhile takes what is written into it along.
RegisterWrite(p) ==
  /\ Goes(p, "writing", "listing")
  /\ \/ file' = [file EXCEPT ![p] = IF @ = "empty" THEN "written" ELSE @]
     \/ "register" \in Faults /\ UNCHANGED file
  /\ UNCHANGED <<startVars, toRemove, list, flush, deployVars, record, histVars>>

-----------------------------------------------------------------------------
\* Starting: sweepAllOrphans, recoverInterrupted

\* Mutant: every container is an orphan (before audit A-12).
Everything(p) == {d \in Deployments : owner[d] # Nobody}

\* What carries no living process's id.
Orphans(p) == {d \in Deployments : owner[d] # Nobody /\ owner[d] \notin live[p]}

\* sweepAllOrphans lists every container; when Docker does not answer, that it
\* failed is swallowed.
ListBoxes(p) ==
  /\ Goes(p, "listing", "removing")
  /\ \/ /\ toRemove' = [toRemove EXCEPT ![p] = {d \in Orphans(p) : box[d] = "live"}]
        /\ UNCHANGED met
     \/ Meets(p, "docker", orphaned[p]) /\ UNCHANGED toRemove
  /\ UNCHANGED <<file, startVars, list, flush, deployVars, record, reused, refused, unsaved,
                 lost, leftVars, late>>

\* One container of the listing, which somebody else may have removed by now.  One that
\* Docker refuses to remove is left, and the sweep goes on with the next.
RemoveBox(p, d) ==
  /\ phase[p] \in {"removing", "ownRemoving"} /\ d \in toRemove[p]
  /\ toRemove' = [toRemove EXCEPT ![p] = @ \ {d}]
  /\ \/ box' = [box EXCEPT ![d] = "gone"] /\ UNCHANGED refused
     \/ /\ "remove" \in Faults /\ box[d] = "live"
        /\ refused' = [refused EXCEPT ![p] = @ \cup {d}]
        /\ UNCHANGED box
  /\ UNCHANGED <<phase, file, startVars, list, flush, owner, mem, dirty, record, reused, met,
                 unsaved, lost, leftVars, late>>

\* recoverInterrupted reads the records, and goes by the same `live`.  The store leaves
\* out what it cannot read.
ListRecords(p) ==
  /\ toRemove[p] = {}
  /\ Goes(p, "removing", "marking")
  /\ LET found == {d \in Orphans(p) : record[d] = "running"}
     IN  \/ toMark' = [toMark EXCEPT ![p] = found] /\ UNCHANGED met
         \/ /\ Meets(p, "records", bereft[p])
            /\ \E some \in SUBSET found : toMark' = [toMark EXCEPT ![p] = some]
  /\ UNCHANGED <<file, toRead, stale, live, toRemove, list, flush, deployVars, record,
                 reused, refused, unsaved, lost, leftVars, late>>

\* A save that fails ends the recovery, and startServer goes on without it.
Mark(p, d) ==
  /\ phase[p] = "marking" /\ d \in toMark[p]
  /\ \/ /\ toMark' = [toMark EXCEPT ![p] = @ \ {d}]
        /\ record' = [record EXCEPT ![d] = "interrupted"]
        /\ UNCHANGED met
     \/ /\ Meets(p, "records", bereft[p])
        /\ toMark' = [toMark EXCEPT ![p] = {}]
        /\ UNCHANGED record
  /\ UNCHANGED <<phase, file, toRead, stale, live, toRemove, list, flush, deployVars,
                 reused, refused, unsaved, lost, leftVars, late>>

\* Mutant: recoverInterrupted is not waited for.
ListenAtOnce(p) ==
  /\ Goes(p, "marking", "up")
  /\ UNCHANGED <<file, startVars, toRemove, list, flush, deployVars, record, histVars>>

\* http.listen.
Listen(p) ==
  /\ toMark[p] = {}
  /\ Goes(p, "marking", "up")
  /\ UNCHANGED <<file, startVars, toRemove, list, flush, deployVars, record, histVars>>

-----------------------------------------------------------------------------
\* Deployments of a process that is up.  It takes requests until close() is over.

Launch(p, d) ==
  /\ phase[p] \in {"up"} \cup Closing
  /\ owner[d] = Nobody
  /\ owner' = [owner EXCEPT ![d] = p]
  /\ mem' = [mem EXCEPT ![d] = "running"]
  /\ dirty' = [dirty EXCEPT ![d] = TRUE]
  /\ UNCHANGED <<phase, file, startVars, toRemove, list, flush, box, record, histVars>>

\* The pipeline asks Docker for a container.  It looked whether it was stopped some
\* awaits ago.
AskBox(d) ==
  /\ mem[d] # "none" /\ Alive(owner[d])
  /\ box[d] = "none"
  /\ box' = [box EXCEPT ![d] = "asked"]
  /\ UNCHANGED <<phase, file, startVars, toRemove, list, flush, owner, mem, dirty, record,
                 histVars>>

\* Docker has created it, whatever has become of who asked.
BoxCreated(d) ==
  /\ box[d] = "asked"
  /\ box' = [box EXCEPT ![d] = "live"]
  /\ late' = late \cup {e \in {d} : phase[owner[d]] \in OwnListed \cup {"closed"}}
  /\ UNCHANGED <<phase, file, startVars, toRemove, list, flush, owner, mem, dirty, record,
                 reused, faultVars, lost, leftVars>>

\* A cleanup: of a deployment that is being ended, or that has failed already.  When
\* Docker refuses, this step is not taken and who asked goes on.
TearDown(d) ==
  /\ box[d] = "live" /\ Alive(owner[d])
  /\ box' = [box EXCEPT ![d] = "gone"]
  /\ UNCHANGED <<phase, file, startVars, toRemove, list, flush, owner, mem, dirty, record,
                 histVars>>

\* A failure is said before the teardown and a cancel after it, and neither knows what
\* came of it: cleanup swallows a refused removal, and a second one returns at once.
Ends(d) ==
  /\ mem[d] = "running" /\ Alive(owner[d])
  /\ mem' = [mem EXCEPT ![d] = "ended"]
  /\ dirty' = [dirty EXCEPT ![d] = TRUE]
  /\ UNCHANGED <<phase, file, startVars, toRemove, list, flush, owner, box, record, histVars>>

\* persist: the write computes the record when its turn comes, and nobody is told when
\* it fails.
Persist(d) ==
  /\ dirty[d] /\ Alive(owner[d])
  /\ dirty' = [dirty EXCEPT ![d] = FALSE]
  /\ \/ record' = [record EXCEPT ![d] = mem[d]] /\ unsaved' = unsaved \ {d}
     \/ "save" \in Faults /\ unsaved' = unsaved \cup {d} /\ UNCHANGED record
  /\ UNCHANGED <<phase, file, startVars, toRemove, list, flush, owner, mem, box, reused, met,
                 refused, lost, leftVars, late>>

-----------------------------------------------------------------------------
\* close(), and being killed

\* Keeps the instance small.
MayEnd(p) == Cardinality({q \in Procs \ {p} : phase[q] \in Closing \cup Gone}) < MaxEnds

\* sessions.shutdown: cancel every session there is.
Close(p) ==
  /\ MayEnd(p)
  /\ Goes(p, "up", "cancelling")
  /\ list' = [list EXCEPT ![p] = Of(p)]
  /\ UNCHANGED <<file, startVars, toRemove, flush, deployVars, record, histVars>>

\* Mutant: flushRecords does not wait for anything.
CancelledUnflushed(p) ==
  /\ \A d \in list[p] : mem[d] = "ended"
  /\ Goes(p, "cancelling", "flushing")
  /\ UNCHANGED <<file, startVars, toRemove, list, flush, deployVars, record, histVars>>

\* Every cancel has returned; flushRecords takes the writes there are.
Cancelled(p) ==
  /\ \A d \in list[p] : mem[d] = "ended"
  /\ Goes(p, "cancelling", "flushing")
  /\ flush' = [flush EXCEPT ![p] = {d \in Of(p) : dirty[d]}]
  /\ UNCHANGED <<file, startVars, toRemove, list, deployVars, record, histVars>>

Flushed(p) ==
  /\ \A d \in flush[p] : ~dirty[d]
  /\ Goes(p, "flushing", "ownListing")
  /\ UNCHANGED <<file, startVars, toRemove, list, flush, deployVars, record, histVars>>

\* sweepOrphans: what carries this process's id; that Docker does not list it is
\* swallowed.
ListOwnBoxes(p) ==
  /\ Goes(p, "ownListing", "ownRemoving")
  /\ \/ /\ toRemove' = [toRemove EXCEPT ![p] = {d \in Of(p) : box[d] = "live"}]
        /\ UNCHANGED met
     \/ Meets(p, "own", Of(p)) /\ UNCHANGED toRemove
  /\ UNCHANGED <<file, startVars, list, flush, deployVars, record, reused, refused, unsaved,
                 lost, leftVars, late>>

Unregister(p) ==
  /\ toRemove[p] = {}
  /\ Goes(p, "ownRemoving", "unregistering")
  /\ \/ file' = [file EXCEPT ![p] = "none"]
     \/ "unregister" \in Faults /\ UNCHANGED file
  /\ UNCHANGED <<startVars, toRemove, list, flush, deployVars, record, histVars>>

\* What a process remembers goes with it, its sessions and the writes still due included.
Forgets(p) ==
  /\ mem' = [d \in Deployments |-> IF owner[d] = p THEN "none" ELSE mem[d]]
  /\ dirty' = [d \in Deployments |-> dirty[d] /\ owner[d] # p]
  /\ toRead' = [toRead EXCEPT ![p] = {}]
  /\ stale' = [stale EXCEPT ![p] = Nobody]
  /\ live' = [live EXCEPT ![p] = {}]
  /\ toRemove' = [toRemove EXCEPT ![p] = {}]
  /\ toMark' = [toMark EXCEPT ![p] = {}]
  /\ flush' = [flush EXCEPT ![p] = {}]
  /\ known' = [known EXCEPT ![p] = {}]
  /\ bereft' = [bereft EXCEPT ![p] = {}]
  /\ orphaned' = [orphaned EXCEPT ![p] = {}]

\* Once a process is gone its pid may be given to another program, which matters where
\* its file is still there.
PidReused(p) == reused' \in {reused, reused \cup {q \in {p} : file[q] # "none"}}

\* http.close, process.exit.
Exit(p) ==
  /\ Goes(p, "unregistering", "closed")
  /\ Forgets(p)
  /\ PidReused(p)
  /\ met' = [met EXCEPT ![p] = @ \cap {"own"}]
  /\ UNCHANGED <<file, list, owner, box, record, refused, unsaved, lost, late>>

\* Killed at any point.
Crash(p) ==
  /\ Alive(p)
  /\ MayEnd(p)
  /\ phase' = [phase EXCEPT ![p] = "dead"]
  /\ Forgets(p)
  /\ PidReused(p)
  /\ list' = [list EXCEPT ![p] = {}]
  /\ met' = [met EXCEPT ![p] = {}]
  /\ refused' = [refused EXCEPT ![p] = {}]
  /\ unsaved' = unsaved \ Of(p)
  /\ UNCHANGED <<file, owner, box, record, lost, late>>

-----------------------------------------------------------------------------

Startup(p) ==
  \/ Start(p) \/ (\E q \in Procs : ReadFile(p, q)) \/ RemoveFile(p)
  \/ RegisterOpen(p) \/ RegisterWrite(p) \/ ListBoxes(p) \/ ListRecords(p) \/ Listen(p)
  \/ \E d \in Deployments : RemoveBox(p, d) \/ Mark(p, d)

Shutdown(p) ==
  Close(p) \/ Cancelled(p) \/ Flushed(p) \/ ListOwnBoxes(p) \/ Unregister(p) \/ Exit(p)

Deployment(d) == AskBox(d) \/ BoxCreated(d) \/ TearDown(d) \/ Ends(d) \/ Persist(d)

Next ==
  \/ \E p \in Procs :
       Startup(p) \/ Shutdown(p) \/ Crash(p) \/ \E d \in Deployments : Launch(p, d)
  \/ \E d \in Deployments : Deployment(d)

Spec == Init /\ [][Next]_vars

-----------------------------------------------------------------------------
\* Properties

\* Up, with its file in the registry.
Serving == {"up"} \cup (Closing \ {"unregistering"})

Swept(p) == phase[p] \in {"marking", "up"} \cup Closing

\* A process has removed every container that was there, its process gone, when it
\* started: whoever else starts, sweeps, closes or dies meanwhile (sweepAllOrphans,
\* "what actually guarantees no container outlives the backend that created it").
\* Three things keep one: a pid given to another program, a Docker that does not list,
\* and its own refusal to remove just that container.
OrphansSwept ==
  \A p \in Procs : Swept(p) /\ "docker" \notin met[p] =>
    \A d \in orphaned[p] \ refused[p] : box[d] # "live"

\* When a process takes requests, no record of a process that was gone when it
\* started claims to be running any more (recoverInterrupted), unless reading or
\* writing the records failed; then whoever starts next settles them.
RecordsSettled ==
  \A p \in Procs : phase[p] \in {"up"} \cup Closing /\ "records" \notin met[p] =>
    \A d \in bereft[p] : record[d] # "running"

\* A process whose file was whole when another one read the registry keeps what it
\* runs: neither its containers nor its records are on that one's lists.  (A
\* registry that could not be read, and a third process that removed the file, are the
\* exceptions; one that closes takes its file away itself.)
RegisteredAreSpared ==
  \A p \in Procs : \A d \in toRemove[p] \cup toMark[p] :
    phase[owner[d]] \in Serving /\ owner[d] \in known[p] /\ "live" \notin met[p] =>
      owner[d] \in lost

\* A process that closed has ended every deployment it had when it began to, on disk
\* too unless that write failed; and what it launched has no container left that it could
\* list and Docker would remove, whether a cancel's own cleanup was refused, overtaken or
\* raced by a container being created (close: the sweep comes last).
ClosedIsClean ==
  \A p \in Procs : phase[p] = "closed" =>
    /\ \A d \in list[p] : record[d] = "running" => d \in unsaved
    /\ "own" \notin met[p] =>
         \A d \in Of(p) : box[d] = "live" => d \in late \cup refused[p]

-----------------------------------------------------------------------------
\* What the repository says of the code, and the code does not keep

\* "Files of dead ones are removed on the way" (InstanceRegistry.live), those of
\* the living are not.
LivingStayRegistered ==
  \A p \in Procs : phase[p] \in Serving => file[p] = "written"

=============================================================================
