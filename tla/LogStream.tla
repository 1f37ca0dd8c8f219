----------------------------- MODULE LogStream -----------------------------
(***************************************************************************)
(* One deployment's log on its way to a page: the bounded buffer, the       *)
(* server's side of the socket, and the page that follows it across dropped *)
(* connections, a closing server and a restarted one (LogBuffer, LogManager, *)
(* LogSocketServer, useSession).                                            *)
(*                                                                          *)
(* Sockets do not affect one another, so there is one page.  Lines are      *)
(* numbered from 1, and 0 stands for "from the start".                      *)
(***************************************************************************)
EXTENDS Naturals, Sequences

CONSTANTS
  MaxSeq,         \* bound: lines logged
  MaxLines,       \* lines the buffer keeps
  MaxReconnects,  \* MAX_RECONNECTS
  MaxDrops,       \* bound: connections the network drops
  MaxStates,      \* bound: state changes of the deployment
  MayPush,        \* whether lines come by buffer.push, in this instance
  MayClose        \* whether the server may close or be killed, in this instance

ASSUME BoundsAssumption ==
  /\ MaxSeq \in Nat /\ MaxLines \in Nat \ {0} /\ MaxReconnects \in Nat
  /\ MaxDrops \in Nat /\ MaxStates \in Nat
  /\ MayPush \in BOOLEAN /\ MayClose \in BOOLEAN

VARIABLES
  next,      \* the number the next line gets
  oldest,    \* the oldest line the buffer has, or next
  silent,    \* lines stored by buffer.push, which tells nobody
  state,     \* session.state
  changes,   \* how often it has changed
  server,    \* up, closing (no sockets any more) or down
  known,     \* sessions.get finds the session
  conn,      \* the server has this page's socket
  lastSent,  \* per socket
  wire,      \* what the server has sent and the page not received
  drops,
  socket,    \* the page's: connecting, open, waiting to retry, or done
  asked,     \* ?afterSeq=
  lastSeq,   \* the last line the page has
  lines,     \* what it shows: lines, and notices of a gap
  page,      \* the state it shows
  live,      \* live.current
  ended,     \* ended.current
  attempts,  \* attempts.current
  asking,    \* refresh requests not answered yet
  answers    \* answers on their way to the page

logVars    == <<next, oldest, silent>>
serverVars == <<state, changes, server, known>>
netVars    == <<conn, lastSent, wire, drops>>
sockVars   == <<socket, asked>>
pageVars   == <<lastSeq, lines, page, live, ended, attempts>>
fetchVars  == <<asking, answers>>
vars == <<logVars, serverVars, netVars, sockVars, pageVars, fetchVars>>

States == {"running", "serving", "finished"}
Seqs   == 1..MaxSeq

Hello(st)      == [type |-> "hello", state |-> st]
Changed(st)    == [type |-> "state", state |-> st]
Logs(from, to) == [type |-> "logs", from |-> from, to |-> to]
Gap(n)         == [type |-> "gap", oldestSeq |-> n]
End(why)       == [type |-> "end", reason |-> why]

Line(n)   == [notice |-> "none", seq |-> n]
Notice(n) == [notice |-> "gap", seq |-> n]

Messages ==
  [type : {"hello", "state"}, state : States]
    \cup [type : {"logs"}, from : Seqs, to : Seqs]
    \cup [type : {"gap"}, oldestSeq : 1..(MaxSeq + 1)]
    \cup [type : {"end"}, reason : {"session-finished", "server-closing"}]

TypeOK ==
  /\ next \in 1..(MaxSeq + 1)
  /\ oldest \in 1..next
  /\ next - oldest <= MaxLines
  /\ silent \subseteq Seqs
  /\ state \in States
  /\ changes \in 0..MaxStates
  /\ server \in {"up", "closing", "down"}
  /\ known \in BOOLEAN
  /\ conn \in BOOLEAN
  /\ conn => server = "up" /\ socket = "open"
  /\ lastSent \in 0..(next - 1)
  /\ wire \in Seq(Messages)
  /\ drops \in 0..MaxDrops
  /\ socket \in {"connecting", "open", "waiting", "done"}
  /\ asked \in 0..(next - 1)
  /\ lastSeq \in 0..(next - 1)
  /\ lines \in Seq([notice : {"none", "gap"}, seq : 1..(MaxSeq + 1)])
  /\ page \in States \cup {"idle"}
  /\ live \in States \cup {"idle"}
  /\ ended \in BOOLEAN
  /\ attempts \in 0..(MaxReconnects + 1)
  /\ asking \in Nat
  /\ answers \subseteq States \cup {"gone"}

Init ==
  /\ next = 1
  /\ oldest = 1
  /\ silent = {}
  /\ state = "running"
  /\ changes = 0
  /\ server = "up"
  /\ known = TRUE
  /\ conn = FALSE
  /\ lastSent = 0
  /\ wire = <<>>
  /\ drops = 0
  /\ socket = "connecting"
  /\ asked = 0
  /\ lastSeq = 0
  /\ lines = <<>>
  /\ page = "idle"
  /\ live = "idle"
  /\ ended = FALSE
  /\ attempts = 0
  /\ asking = 0
  /\ answers = {}

-----------------------------------------------------------------------------
\* The log, and what an open socket is sent of it

\* One more line; the oldest go until the buffer is within both its caps.  Lines
\* have any length, so the cap in bytes may take more than the one in lines.
Push ==
  /\ server # "down" /\ known /\ next <= MaxSeq
  /\ next' = next + 1
  /\ oldest' \in {n \in oldest..(next + 1) : next + 1 - n <= MaxLines}

\* LogManager.write and ingest: the line is stored, and listeners told.
Write ==
  /\ Push
  /\ IF conn /\ next > lastSent
       THEN /\ lastSent' = next
            /\ wire' = Append(wire, Logs(next, next))
       ELSE UNCHANGED <<lastSent, wire>>
  /\ UNCHANGED <<silent, serverVars, conn, drops, sockVars, pageVars, fetchVars>>

\* session.logs.buffer.push, which most of SessionManager's own lines go through.
PushOnly ==
  /\ MayPush
  /\ Push
  /\ silent' = silent \cup {next}
  /\ UNCHANGED <<serverVars, netVars, sockVars, pageVars, fetchVars>>

\* Mutant: the listener goes before the last change.
ToldUntilTheEnd(st) == IF conn /\ st # "finished" THEN <<Changed(st)>> ELSE <<>>

\* onState.
Told(st) ==
  IF ~conn THEN <<>>
  ELSE IF st = "finished" THEN <<Changed(st), End("session-finished")>>
  ELSE <<Changed(st)>>

SetState(st) ==
  /\ server # "down" /\ known
  /\ state # "finished" /\ changes < MaxStates
  /\ state' = st
  /\ changes' = changes + 1
  /\ wire' = wire \o Told(st)
  /\ UNCHANGED <<logVars, server, known, conn, lastSent, drops, sockVars, pageVars, fetchVars>>

\* evictFinished: its log has no listeners any more, nor lines.
Evict ==
  /\ known /\ state = "finished"
  /\ known' = FALSE
  /\ oldest' = next
  /\ UNCHANGED <<next, silent, state, changes, server, netVars, sockVars, pageVars, fetchVars>>

-----------------------------------------------------------------------------
\* A connection

\* Mutant: a gap of a single line is none.
MissedMore(n) == n + 2 < oldest

\* LogBuffer.since: what comes after n has been evicted, in part.
Missed(n) == n + 1 < oldest

From(n) == IF n + 1 < oldest THEN oldest ELSE n + 1

\* Mutant: the page is greeted, and told only what is new.
GreetingOnly(n) == <<Hello(state)>>

\* onConnection, which awaits nothing: greeting, gap, what the buffer has.
Greeting(n) ==
  <<Hello(state)>>
    \o (IF Missed(n) THEN <<Gap(oldest)>> ELSE <<>>)
    \o (IF From(n) < next THEN <<Logs(From(n), next - 1)>> ELSE <<>>)
    \o (IF state = "finished" THEN <<End("session-finished")>> ELSE <<>>)

Accept ==
  /\ socket = "connecting" /\ server = "up" /\ known
  /\ socket' = "open"
  /\ conn' = TRUE
  /\ lastSent' = IF From(asked) < next THEN next - 1 ELSE asked
  /\ wire' = Greeting(asked)
  /\ UNCHANGED <<logVars, serverVars, drops, asked, pageVars, fetchVars>>

\* What a broken connection still delivers.
Cut == \E n \in 0..Len(wire) : wire' = SubSeq(wire, 1, n)

Drop ==
  /\ conn /\ drops < MaxDrops
  /\ drops' = drops + 1
  /\ conn' = FALSE
  /\ Cut
  /\ UNCHANGED <<logVars, serverVars, lastSent, sockVars, pageVars, fetchVars>>

\* sockets.close, the first thing a closing server does; it cancels its sessions next.
Close ==
  /\ MayClose /\ server = "up"
  /\ server' = "closing"
  /\ conn' = FALSE
  /\ wire' = IF conn THEN Append(wire, End("server-closing")) ELSE wire
  /\ UNCHANGED <<logVars, state, changes, known, lastSent, drops, sockVars, pageVars,
                 fetchVars>>

Exit ==
  /\ server = "closing" /\ state = "finished"
  /\ server' = "down"
  /\ known' = FALSE
  /\ UNCHANGED <<logVars, state, changes, netVars, sockVars, pageVars, fetchVars>>

\* Killed: what it ran is swept by the server started next, at the latest.
Crash ==
  /\ MayClose /\ server = "up" /\ known
  /\ server' = "down"
  /\ known' = FALSE
  /\ state' = "finished"
  /\ conn' = FALSE
  /\ Cut
  /\ UNCHANGED <<logVars, changes, lastSent, drops, sockVars, pageVars, fetchVars>>

Restart ==
  /\ server = "down"
  /\ server' = "up"
  /\ UNCHANGED <<logVars, state, changes, known, netVars, sockVars, pageVars, fetchVars>>

-----------------------------------------------------------------------------
\* The page

\* logs: shown, whatever their numbers; the page resumes after the last.
Shows(m) ==
  /\ lines' = lines \o [i \in 1..(m.to + 1 - m.from) |-> Line(m.from + i - 1)]
  /\ lastSeq' = IF m.to > lastSeq THEN m.to ELSE lastSeq

\* hello and state: shown, and the session asked for again.
Learns(m) ==
  /\ page' = m.state
  /\ live' = m.state
  /\ asking' = asking + 1

\* onmessage.
Receive ==
  /\ socket = "open" /\ wire # <<>>
  /\ wire' = Tail(wire)
  /\ LET m == Head(wire) IN
       \/ /\ m.type \in {"hello", "state"}
          /\ Learns(m)
          /\ UNCHANGED <<lastSeq, lines, ended, answers>>
       \/ /\ m.type = "logs"
          /\ Shows(m)
          /\ UNCHANGED <<page, live, ended, fetchVars>>
       \/ /\ m.type = "gap"
          /\ lines' = Append(lines, Notice(m.oldestSeq))
          /\ UNCHANGED <<lastSeq, page, live, ended, fetchVars>>
       \/ /\ m.type = "end"
          /\ ended' = TRUE
          /\ UNCHANGED <<lastSeq, lines, page, live, fetchVars>>
  /\ UNCHANGED <<logVars, serverVars, conn, lastSent, drops, sockVars, attempts>>

\* reconnectDelay.
Reconnects == ~ended /\ live # "finished" /\ attempts < MaxReconnects

\* onclose: wait and retry; or give up, asking once what became of a run that was up.
Closed ==
  /\ attempts' = attempts + 1
  /\ IF Reconnects
       THEN socket' = "waiting" /\ UNCHANGED asking
       ELSE /\ socket' = "done"
            /\ asking' = IF ~ended /\ live = "serving" THEN asking + 1 ELSE asking
  /\ UNCHANGED <<logVars, serverVars, netVars, asked, lastSeq, lines, page, live, ended,
                 answers>>

\* The connection is gone and everything it brought is read.
Dropped == socket = "open" /\ ~conn /\ wire = <<>> /\ Closed

\* 404, 503, or nobody there.
Refused == socket = "connecting" /\ (server # "up" \/ ~known) /\ Closed

\* Mutant: the number the effect captured when it ran is asked for.
RetryFromStart ==
  /\ socket = "waiting"
  /\ socket' = "connecting"
  /\ asked' = 0
  /\ UNCHANGED <<logVars, serverVars, netVars, pageVars, fetchVars>>

\* The timer of reconnectDelay.
Retry ==
  /\ socket = "waiting"
  /\ socket' = "connecting"
  /\ asked' = lastSeq
  /\ UNCHANGED <<logVars, serverVars, netVars, pageVars, fetchVars>>

\* GET /api/sessions/:id.  A server that is down answers nothing, and nothing comes of it.
Answer ==
  /\ asking > 0
  /\ asking' = asking - 1
  /\ answers' = IF server = "down" THEN answers
                ELSE answers \cup {IF known THEN state ELSE "gone"}
  /\ UNCHANGED <<logVars, serverVars, netVars, sockVars, pageVars>>

\* The answers come in any order, and the page goes by the one that came last.
Refreshed(a) ==
  /\ a \in answers
  /\ answers' = answers \ {a}
  /\ IF a = "gone" THEN live' = "finished" /\ page' = "finished"
     ELSE live' = a /\ UNCHANGED page
  /\ UNCHANGED <<logVars, serverVars, netVars, sockVars, lastSeq, lines, ended, attempts,
                 asking>>

-----------------------------------------------------------------------------

Deploying == Write \/ PushOnly \/ Evict \/ \E st \in States : SetState(st)
Serving   == Accept \/ Close \/ Exit \/ Crash \/ Restart \/ Answer
Page      == Receive \/ Dropped \/ Refused \/ Retry \/ \E a \in States \cup {"gone"} : Refreshed(a)

Next == Deploying \/ Serving \/ Page \/ Drop

Spec == Init /\ [][Next]_vars

\* What is sent arrives or the connection breaks, timers fire, requests are answered,
\* and a server that goes down is started again.
Fairness ==
  /\ WF_vars(Receive) /\ WF_vars(Dropped) /\ WF_vars(Refused) /\ WF_vars(Retry)
  /\ WF_vars(Accept) /\ WF_vars(Answer) /\ WF_vars(Restart)
  /\ \A a \in States \cup {"gone"} : WF_vars(Refreshed(a))

FairSpec == Spec /\ Fairness

-----------------------------------------------------------------------------
\* Properties

Shown == {lines[i].seq : i \in {j \in DOMAIN lines : lines[j].notice = "none"}}

\* Told of: a notice says that what came before this line is gone.
Noticed(n) == \E i \in DOMAIN lines : lines[i].notice = "gap" /\ n < lines[i].seq

\* No line is shown twice, nor one before an earlier one, however often the page has
\* reconnected (useSession, "resuming precisely across a dropped connection").
ShownInOrder ==
  \A i, j \in DOMAIN lines :
    i < j /\ lines[i].notice = "none" /\ lines[j].notice = "none" => lines[i].seq < lines[j].seq

\* Of the lines the listeners are told of, every one up to the last the page has is
\* shown, or a notice says it is gone.
HolesAreNoticed == \A n \in 1..lastSeq : n \in Shown \cup silent \/ Noticed(n)

\* A page that has received all it was sent has, or was told it will not get, every line
\* listeners were told of.
NothingHeldBack ==
  conn /\ known /\ wire = <<>> =>
    \A n \in 1..(next - 1) : n \in silent \/ n <= lastSeq \/ Noticed(n)

\* A page that is still following a deployment when it finishes comes to know, whether
\* it shows it or only stops reconnecting (live.current); or it gives up, or is told that
\* the stream is over.
EndIsLearned ==
  state = "finished" /\ socket # "done" ~>
    "finished" \in {page, live} \/ attempts > MaxReconnects \/ ended

-----------------------------------------------------------------------------
\* What the repository says of the code, and the code does not keep

\* A line that buffer.push alone stored: "a connected client sees it only on its next
\* resume" (LogManager).  A page that has resumed, and received everything, has every line
\* before the one it resumed from, or a notice.
SeenOnResume ==
  conn /\ wire = <<>> => \A n \in 1..asked : n \in Shown \/ Noticed(n)

\* Of the page that "kept a green READY over a dead application indefinitely"
\* (useSession, audit A-14): it does not.
ReadyIsNotKept == page = "serving" /\ state = "finished" ~> page # "serving"

=============================================================================
