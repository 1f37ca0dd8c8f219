-------------------------- MODULE LogStream_proofs --------------------------
(***************************************************************************)
(* For any number of lines, connections and retries: a page shows lines in *)
(* order and once, and of every line that listeners are told of it has the *)
(* line, a notice, or a message on its way that brings one of them.        *)
(***************************************************************************)
EXTENDS LogStream, SequenceTheorems, TLAPS

\* Line n is shown, was stored without telling anybody, or is known to be gone.
Accounted(n) == n \in Shown \cup silent \/ Noticed(n)

\* Message m brings line n, or the notice that it is gone.
Tells(m, n) ==
  \/ m.type = "logs" /\ n \in m.from..m.to
  \/ m.type = "gap" /\ n < m.oldestSeq

\* One of the first i - 1 messages on their way tells of line n.
TellsBefore(i, n) == \E j \in 1..(i - 1) : Tells(wire[j], n)

IsLogs(i) == wire[i].type = "logs"

Noted == DOMAIN lines

-----------------------------------------------------------------------------
\* The invariant

\* No connection, nothing on its way.
Unconnected == socket # "open" => wire = <<>> /\ ~conn

\* A page that gave up is done.
GivenUp == attempts > MaxReconnects => socket = "done"

\* A connection that is asked for is asked to go on where the page is.
Resuming == socket = "connecting" => asked = lastSeq

\* The page is behind what it was sent,
Behind ==
  /\ \A i \in Noted : lines[i].notice = "none" => lines[i].seq <= lastSeq
  /\ conn => lastSeq <= lastSent

\* lines on their way are new to it,
Ahead ==
  \A i \in 1..Len(wire) : IsLogs(i) =>
    /\ lastSeq < wire[i].from /\ wire[i].from <= wire[i].to /\ wire[i].to < next
    /\ conn => wire[i].to <= lastSent

\* and come in order,
Ordered ==
  \A i, j \in 1..Len(wire) : i < j /\ IsLogs(i) /\ IsLogs(j) => wire[i].to < wire[j].from

\* each after whatever accounts for those before it;
NoneSkipped ==
  \A i \in 1..Len(wire) : IsLogs(i) =>
    \A n \in 1..(wire[i].from - 1) : Accounted(n) \/ TellsBefore(i, n)

\* and all of the log is accounted for or on its way.
AllSent == conn => \A n \in 1..(next - 1) : Accounted(n) \/ TellsBefore(Len(wire) + 1, n)

ControlInv == TypeOK /\ Unconnected /\ GivenUp /\ Resuming

StreamInv ==
  ShownInOrder /\ HolesAreNoticed /\ Behind /\ Ahead /\ Ordered /\ NoneSkipped /\ AllSent

IInv == ControlInv /\ StreamInv

-----------------------------------------------------------------------------
\* Messages and sequences of them

\* The messages the server sends, by kind.
LEMMA MessageTypes ==
  /\ \A st \in States : Hello(st) \in Messages /\ Changed(st) \in Messages
  /\ \A n \in 1..(MaxSeq + 1) : Gap(n) \in Messages
  /\ \A a, b \in Seqs : Logs(a, b) \in Messages
  /\ \A why \in {"session-finished", "server-closing"} : End(why) \in Messages
BY DEF Messages, Hello, Changed, Gap, Logs, End

\* What a message carries, by its kind.
LEMMA MessageKinds ==
  \A m \in Messages :
    /\ m.type = "logs" => m.from \in Seqs /\ m.to \in Seqs
    /\ m.type = "gap" => m.oldestSeq \in 1..(MaxSeq + 1)
    /\ m.type \in {"hello", "state"} => m.state \in States
BY DEF Messages

\* A sequence of messages of which none brings lines.
Wordless(t) == t \in Seq(Messages) /\ \A i \in 1..Len(t) : t[i].type # "logs"

\* A state or an end carries no line.
LEMMA ToldIsWordless ==
  ASSUME NEW st \in States
  PROVE  Wordless(Told(st))
<1>1. CASE ~conn
  BY <1>1 DEF Wordless, Told
<1>2. CASE conn /\ st = "finished"
  <2>1. Told(st) = <<Changed(st), End("session-finished")>>
    BY <1>2 DEF Told
  <2> QED
    BY <2>1, MessageTypes DEF Wordless, Changed, End
<1>3. CASE conn /\ st # "finished"
  <2>1. Told(st) = <<Changed(st)>>
    BY <1>3 DEF Told
  <2> QED
    BY <2>1, MessageTypes DEF Wordless, Changed
<1> QED
  BY <1>1, <1>2, <1>3

\* What a new connection is sent first: a notice when lines are missing, before the lines
\* there are.
LEMMA GreetingFacts ==
  ASSUME TypeOK, NEW n \in 0..(next - 1)
  PROVE  /\ Greeting(n) \in Seq(Messages)
         /\ \A i \in 1..Len(Greeting(n)) : Greeting(n)[i].type = "logs" =>
              /\ Greeting(n)[i] = Logs(From(n), next - 1) /\ From(n) < next
              /\ Missed(n) => \E j \in 1..(i - 1) : Greeting(n)[j] = Gap(oldest)
              /\ \A j \in 1..Len(Greeting(n)) : Greeting(n)[j].type = "logs" => j = i
         /\ From(n) < next =>
              \E i \in 1..Len(Greeting(n)) : Greeting(n)[i] = Logs(From(n), next - 1)
         /\ Missed(n) => \E i \in 1..Len(Greeting(n)) : Greeting(n)[i] = Gap(oldest)
<1> DEFINE H == Hello(state)
           G == Gap(oldest)
           L == Logs(From(n), next - 1)
           E == End("session-finished")
<1>1. /\ H \in Messages /\ G \in Messages /\ E \in Messages
      /\ From(n) < next => L \in Messages
  BY MessageTypes, BoundsAssumption DEF TypeOK, From, Seqs
<1>2. H.type = "hello" /\ G.type = "gap" /\ E.type = "end" /\ L.type = "logs"
  BY DEF Hello, Gap, Logs, End
<1> DEFINE A == <<H>>
           B == IF Missed(n) THEN <<G>> ELSE <<>>
           C == IF From(n) < next THEN <<L>> ELSE <<>>
           D == IF state = "finished" THEN <<E>> ELSE <<>>
           b == IF Missed(n) THEN 1 ELSE 0
           c == IF From(n) < next THEN 1 ELSE 0
           d == IF state = "finished" THEN 1 ELSE 0
<1>3. Greeting(n) = ((A \o B) \o C) \o D
  BY DEF Greeting
<1> HIDE DEF H, G, L, E
<1>4. A \in Seq(Messages) /\ Len(A) = 1 /\ A[1] = H
  BY <1>1
<1>5. B \in Seq(Messages) /\ Len(B) = b /\ (b = 1 => B[1] = G)
  BY <1>1
<1>6. C \in Seq(Messages) /\ Len(C) = c /\ (c = 1 => C[1] = L)
  BY <1>1
<1>7. D \in Seq(Messages) /\ Len(D) = d /\ (d = 1 => D[1] = E)
  BY <1>1
<1>8. /\ b \in {0, 1} /\ c \in {0, 1} /\ d \in {0, 1}
      /\ From(n) < next <=> c = 1
      /\ Missed(n) <=> b = 1
  OBVIOUS
<1> HIDE DEF A, B, C, D, b, c, d
<1> DEFINE AB == A \o B
<1>9. /\ AB \in Seq(Messages) /\ Len(AB) = 1 + b
      /\ AB[1] = H /\ (b = 1 => AB[2] = G)
  <2>1. /\ AB \in Seq(Messages) /\ Len(AB) = 1 + b
        /\ \A i \in 1..(1 + b) : AB[i] = IF i <= 1 THEN A[i] ELSE B[i - 1]
    <3>1. A \in Seq(Messages) /\ B \in Seq(Messages)
      BY <1>4, <1>5
    <3>2. /\ A \o B \in Seq(Messages) /\ Len(A \o B) = Len(A) + Len(B)
          /\ \A i \in 1..(Len(A) + Len(B)) :
               (A \o B)[i] = IF i <= Len(A) THEN A[i] ELSE B[i - Len(A)]
      BY ONLY <3>1, ConcatProperties, Zenon
    <3> QED
      BY <1>4, <1>5, <3>2 DEF AB
  <2> QED
    BY <1>4, <1>5, <1>8, <2>1
<1> HIDE DEF AB
<1> DEFINE ABC == AB \o C
<1>10. /\ ABC \in Seq(Messages) /\ Len(ABC) = 1 + b + c
       /\ ABC[1] = H /\ (b = 1 => ABC[2] = G) /\ (c = 1 => ABC[2 + b] = L)
  <2>1. /\ ABC \in Seq(Messages) /\ Len(ABC) = 1 + b + c
        /\ \A i \in 1..(1 + b + c) : ABC[i] = IF i <= 1 + b THEN AB[i] ELSE C[i - (1 + b)]
    <3>1. AB \in Seq(Messages) /\ C \in Seq(Messages)
      BY <1>6, <1>9
    <3>2. /\ AB \o C \in Seq(Messages) /\ Len(AB \o C) = Len(AB) + Len(C)
          /\ \A i \in 1..(Len(AB) + Len(C)) :
               (AB \o C)[i] = IF i <= Len(AB) THEN AB[i] ELSE C[i - Len(AB)]
      BY ONLY <3>1, ConcatProperties, Zenon
    <3> QED
      BY <1>6, <1>9, <3>2 DEF ABC
  <2> QED
    BY <1>6, <1>8, <1>9, <2>1
<1> HIDE DEF ABC
<1> DEFINE g == Greeting(n)
<1>11. /\ g \in Seq(Messages) /\ Len(g) = 1 + b + c + d
       /\ g[1] = H /\ (b = 1 => g[2] = G)
       /\ (c = 1 => g[2 + b] = L) /\ (d = 1 => g[2 + b + c] = E)
  <2>1. g = ABC \o D
    BY <1>3 DEF AB, ABC
  <2>2. /\ ABC \o D \in Seq(Messages) /\ Len(ABC \o D) = 1 + b + c + d
        /\ \A i \in 1..(1 + b + c + d) :
             (ABC \o D)[i] = IF i <= 1 + b + c THEN ABC[i] ELSE D[i - (1 + b + c)]
    <3>1. ABC \in Seq(Messages) /\ D \in Seq(Messages)
      BY <1>7, <1>10
    <3>2. /\ ABC \o D \in Seq(Messages) /\ Len(ABC \o D) = Len(ABC) + Len(D)
          /\ \A i \in 1..(Len(ABC) + Len(D)) :
               (ABC \o D)[i] = IF i <= Len(ABC) THEN ABC[i] ELSE D[i - Len(ABC)]
      BY ONLY <3>1, ConcatProperties, Zenon
    <3> QED
      BY <1>7, <1>10, <3>2
  <2> HIDE DEF g
  <2>3. g \in Seq(Messages) /\ Len(g) = 1 + b + c + d
    BY <2>1, <2>2
  <2>4. \A i \in 1..(1 + b + c) : g[i] = ABC[i]
    BY <1>8, <2>1, <2>2
  <2>5. d = 1 => g[2 + b + c] = D[1]
    BY <1>8, <2>1, <2>2
  <2> QED
    BY <1>7, <1>8, <1>10, <2>3, <2>4, <2>5
<1> HIDE DEF g
<1>12. \A i \in 1..Len(g) : g[i].type = "logs" => c = 1 /\ i = 2 + b
  BY <1>2, <1>8, <1>11
<1>13. /\ \A i \in 1..Len(g) : g[i].type = "logs" =>
            /\ g[i] = L /\ From(n) < next
            /\ Missed(n) => \E j \in 1..(i - 1) : g[j] = G
            /\ \A j \in 1..Len(g) : g[j].type = "logs" => j = i
       /\ From(n) < next => \E i \in 1..Len(g) : g[i] = L
       /\ Missed(n) => \E i \in 1..Len(g) : g[i] = G
  BY <1>8, <1>11, <1>12
<1> QED
  BY <1>11, <1>13 DEF g, L, G

-----------------------------------------------------------------------------
\* What each kind of step does to the invariant of the stream

\* Nothing is accounted for less, as long as the page keeps its lines.
LEMMA StaysAccounted ==
  ASSUME lines' = lines, silent \subseteq silent'
  PROVE  \A n : Accounted(n) => Accounted(n)'
BY DEF Accounted, Shown, Noticed

\* A step that changes neither the wire nor the page's lines keeps the invariant.
LEMMA Untouched ==
  ASSUME StreamInv, UNCHANGED <<next, silent, conn, lastSent, wire, lastSeq, lines>>
  PROVE  StreamInv'
BY DEF StreamInv, ShownInOrder, HolesAreNoticed, Behind, Ahead, Ordered, NoneSkipped, AllSent,
       Accounted, TellsBefore, Shown, Noticed, IsLogs, Noted

\* Messages without lines are sent, or none.
LEMMA WordlessSent ==
  ASSUME TypeOK, StreamInv, UNCHANGED <<next, silent, lastSent, lastSeq, lines>>, conn' => conn,
         NEW t, Wordless(t), wire' = wire \o t
  PROVE  StreamInv'
<1>1. /\ wire' \in Seq(Messages) /\ Len(wire') = Len(wire) + Len(t)
      /\ \A i \in 1..(Len(wire) + Len(t)) :
           wire'[i] = IF i <= Len(wire) THEN wire[i] ELSE t[i - Len(wire)]
  <2>1. wire \in Seq(Messages) /\ t \in Seq(Messages)
    BY DEF TypeOK, Wordless
  <2>2. /\ wire \o t \in Seq(Messages) /\ Len(wire \o t) = Len(wire) + Len(t)
        /\ \A i \in 1..(Len(wire) + Len(t)) :
             (wire \o t)[i] = IF i <= Len(wire) THEN wire[i] ELSE t[i - Len(wire)]
    BY ONLY <2>1, ConcatProperties, Zenon
  <2> QED
    BY <2>2
<1>2. /\ Len(wire) \in Nat /\ Len(t) \in Nat
      /\ \A i \in 1..Len(wire) : i \in 1..Len(wire') /\ wire'[i] = wire[i]
  BY <1>1 DEF TypeOK, Wordless
<1>3. \A i \in 1..Len(wire') : IsLogs(i)' => i \in 1..Len(wire) /\ IsLogs(i)
  BY <1>1, <1>2 DEF Wordless, IsLogs
<1>4. \A n : Accounted(n) => Accounted(n)'
  BY StaysAccounted
<1>5. \A n : \A i \in 1..(Len(wire) + 1) : TellsBefore(i, n) => TellsBefore(i, n)'
  BY <1>2 DEF TellsBefore
<1>6. ShownInOrder' /\ HolesAreNoticed' /\ Behind'
  BY DEF StreamInv, ShownInOrder, HolesAreNoticed, Behind, Shown, Noticed, Noted
<1>7. Ahead'
  BY <1>2, <1>3 DEF StreamInv, Ahead
<1>8. Ordered'
  BY <1>2, <1>3 DEF StreamInv, Ordered
<1>9. NoneSkipped'
  BY <1>2, <1>3, <1>4, <1>5 DEF StreamInv, NoneSkipped
<1>10. AllSent'
  <2>1. \A n : TellsBefore(Len(wire) + 1, n) => TellsBefore(Len(wire) + 1, n)'
    BY <1>1, <1>2 DEF TellsBefore
  <2> QED
    BY <1>4, <2>1 DEF StreamInv, AllSent
<1> QED
  BY <1>6, <1>7, <1>8, <1>9, <1>10 DEF StreamInv

\* A connection breaks: only some of what was on its way arrives.
LEMMA PartLost ==
  ASSUME TypeOK, StreamInv, UNCHANGED <<next, silent, lastSent, lastSeq, lines>>, ~conn', Cut
  PROVE  StreamInv'
<1>1. PICK k \in 0..Len(wire) : wire' = SubSeq(wire, 1, k)
  BY DEF Cut
<1>2. wire \in Seq(Messages) /\ Len(wire) \in Nat /\ k \in Nat /\ k <= Len(wire)
  BY <1>1 DEF TypeOK
<1>3. Len(wire') = k /\ \A i \in 1..k : wire'[i] = wire[i] /\ i \in 1..Len(wire)
  BY <1>1, <1>2, SubSeqProperties
<1>4. \A i \in 1..Len(wire') : i \in 1..Len(wire) /\ IsLogs(i)' = IsLogs(i)
  BY <1>3 DEF IsLogs
<1>5. \A n : Accounted(n) => Accounted(n)'
  BY StaysAccounted
<1>6. \A n : \A i \in 1..Len(wire') : TellsBefore(i, n) => TellsBefore(i, n)'
  BY <1>2, <1>3 DEF TellsBefore
<1>7. ShownInOrder' /\ HolesAreNoticed' /\ Behind' /\ AllSent'
  BY DEF StreamInv, ShownInOrder, HolesAreNoticed, Behind, AllSent, Shown, Noticed, Noted
<1>8. Ahead' /\ Ordered'
  BY <1>3, <1>4 DEF StreamInv, Ahead, Ordered
<1>9. NoneSkipped'
  BY <1>3, <1>4, <1>5, <1>6 DEF StreamInv, NoneSkipped
<1> QED
  BY <1>7, <1>8, <1>9 DEF StreamInv

\* buffer.push: the line counts as accounted for.
LEMMA StoredSilently ==
  ASSUME TypeOK, StreamInv, PushOnly
  PROVE  StreamInv'
<1>1. /\ next' = next + 1 /\ next \in Nat /\ silent' = silent \cup {next}
      /\ UNCHANGED <<conn, lastSent, wire, lastSeq, lines>>
  BY DEF PushOnly, Push, TypeOK, serverVars, netVars, sockVars, pageVars, fetchVars
<1>2. \A n : Accounted(n) => Accounted(n)'
  BY <1>1, StaysAccounted
<1>3. \A n : n = next => Accounted(n)'
  BY <1>1 DEF Accounted
<1>4. \A i, n : TellsBefore(i, n)' = TellsBefore(i, n)
  BY <1>1 DEF TellsBefore
<1>5. ShownInOrder' /\ HolesAreNoticed' /\ Behind' /\ Ordered'
  BY <1>1 DEF StreamInv, ShownInOrder, HolesAreNoticed, Behind, Ordered, Shown, Noticed, Noted,
              IsLogs
<1>6. Ahead'
  <2>1. \A i \in 1..Len(wire) : IsLogs(i) => wire[i].to \in Nat
    BY BoundsAssumption, MessageKinds DEF TypeOK, IsLogs, Seqs
  <2> QED
    BY <1>1, <2>1 DEF StreamInv, Ahead, IsLogs
<1>7. NoneSkipped'
  BY <1>1, <1>2, <1>4 DEF StreamInv, NoneSkipped, IsLogs
<1>8. AllSent'
  <2> SUFFICES ASSUME conn', NEW n \in 1..(next' - 1)
               PROVE  Accounted(n)' \/ TellsBefore(Len(wire) + 1, n)'
    BY DEF AllSent
  <2>1. n \in 1..(next - 1) \/ n = next
    BY <1>1
  <2> QED
    BY <1>1, <1>2, <1>3, <1>4, <2>1 DEF StreamInv, AllSent
<1> QED
  BY <1>5, <1>6, <1>7, <1>8 DEF StreamInv

\* write: with a connection, the line goes after all that is on its way.
LEMMA WrittenAndSent ==
  ASSUME TypeOK, StreamInv, Unconnected, Write
  PROVE  StreamInv'
<1>1. /\ next' = next + 1 /\ next \in Seqs /\ lastSent \in Nat /\ lastSent < next
      /\ UNCHANGED <<silent, conn, lastSeq, lines>>
  BY BoundsAssumption DEF Write, Push, TypeOK, Seqs, pageVars
<1>2. \A n : Accounted(n) => Accounted(n)'
  BY <1>1, StaysAccounted
<1>3. ShownInOrder' /\ HolesAreNoticed'
  BY <1>1 DEF StreamInv, ShownInOrder, HolesAreNoticed, Shown, Noticed
<1>4. CASE ~conn
  <2>1. UNCHANGED <<lastSent, wire>>
    BY <1>4 DEF Write
  <2>2. \A i, n : TellsBefore(i, n)' = TellsBefore(i, n)
    BY <2>1 DEF TellsBefore
  <2>3. Behind' /\ Ordered' /\ AllSent'
    BY <1>1, <1>4, <2>1 DEF StreamInv, Behind, Ordered, AllSent, Noted, IsLogs
  <2>4. Ahead'
    <3>1. \A i \in 1..Len(wire) : IsLogs(i) => wire[i].to \in Nat
      BY BoundsAssumption, MessageKinds DEF TypeOK, IsLogs, Seqs
    <3> QED
      BY <1>1, <1>4, <2>1, <3>1 DEF StreamInv, Ahead, IsLogs, Seqs
  <2>5. NoneSkipped'
    BY <1>1, <1>2, <2>1, <2>2 DEF StreamInv, NoneSkipped, IsLogs
  <2> QED
    BY <1>3, <2>3, <2>4, <2>5 DEF StreamInv
<1>5. CASE conn
  <2> DEFINE m == Logs(next, next)
             k == Len(wire)
  <2>1. lastSent' = next /\ wire' = Append(wire, m)
    BY <1>1, <1>5 DEF Write
  <2>2. m \in Messages /\ m.type = "logs" /\ m.from = next /\ m.to = next
    BY <1>1, MessageTypes DEF Logs
  <2> HIDE DEF m
  <2>3. /\ k \in Nat /\ Len(wire') = k + 1 /\ wire'[k + 1] = m
        /\ \A i \in 1..k : wire'[i] = wire[i]
    BY <2>1, <2>2, AppendProperties DEF TypeOK
  <2> HIDE DEF k
  <2>4. \A i \in 1..k : IsLogs(i)' = IsLogs(i)
    BY <2>3 DEF IsLogs
  <2>5. \A i \in 1..k : IsLogs(i) => wire[i].from \in Nat /\ wire[i].to \in Nat
    BY BoundsAssumption, MessageKinds DEF TypeOK, IsLogs, Seqs, k
  <2>6. \A n : \A i \in 1..(k + 1) : TellsBefore(i, n) => TellsBefore(i, n)'
    BY <2>3 DEF TellsBefore
  <2>7. lastSeq \in Nat /\ lastSeq < next /\ next \in Nat
    BY BoundsAssumption DEF TypeOK
  <2>8. Behind'
    <3>1. \A i \in Noted : (lines[i].notice = "none" => lines[i].seq <= lastSeq)'
      BY <1>1 DEF StreamInv, Behind, Noted
    <3> QED
      BY <1>1, <2>1, <2>7, <3>1 DEF Behind, Noted
  <2>9. Ahead'
    <3> SUFFICES ASSUME NEW i \in 1..(k + 1), IsLogs(i)'
                 PROVE  /\ lastSeq < wire'[i].from /\ wire'[i].from <= wire'[i].to
                        /\ wire'[i].to < next + 1 /\ wire'[i].to <= next
      BY <1>1, <2>1, <2>3 DEF Ahead
    <3>1. CASE i = k + 1
      BY <2>2, <2>3, <2>7, <3>1
    <3>2. CASE i \in 1..k
      <4>1. /\ lastSeq < wire[i].from /\ wire[i].from <= wire[i].to
            /\ wire[i].to < next /\ wire[i].to \in Nat
        BY <2>4, <2>5, <3>2 DEF StreamInv, Ahead, k
      <4> QED
        BY <2>3, <2>7, <3>2, <4>1
    <3> QED
      BY <2>3, <3>1, <3>2
  <2>10. Ordered'
    <3> SUFFICES ASSUME NEW i \in 1..(k + 1), NEW j \in 1..(k + 1), i < j,
                        IsLogs(i)', IsLogs(j)'
                 PROVE  wire'[i].to < wire'[j].from
      BY <2>3 DEF Ordered
    <3>1. i \in 1..k /\ wire'[i] = wire[i] /\ IsLogs(i)
      BY <2>3, <2>4
    <3>2. CASE j = k + 1
      BY <2>2, <2>3, <3>1, <3>2 DEF StreamInv, Ahead, k
    <3>3. CASE j \in 1..k
      BY <2>3, <2>4, <3>1, <3>3 DEF StreamInv, Ordered, k
    <3> QED
      BY <2>3, <3>2, <3>3
  <2>11. NoneSkipped'
    <3> SUFFICES ASSUME NEW i \in 1..(k + 1), IsLogs(i)', NEW n \in 1..(wire'[i].from - 1)
                 PROVE  Accounted(n)' \/ TellsBefore(i, n)'
      BY <2>3 DEF NoneSkipped
    <3>1. CASE i = k + 1
      BY <1>2, <1>5, <2>2, <2>3, <2>6, <3>1 DEF StreamInv, AllSent, k
    <3>2. CASE i \in 1..k
      BY <1>2, <2>3, <2>4, <2>6, <3>2 DEF StreamInv, NoneSkipped, k
    <3> QED
      BY <2>3, <3>1, <3>2
  <2>12. AllSent'
    <3> SUFFICES ASSUME NEW n \in 1..next
                 PROVE  Accounted(n)' \/ \E j \in 1..(k + 1) : Tells(wire'[j], n)
      BY <1>1, <2>3, <2>7 DEF AllSent, TellsBefore
    <3>1. CASE n = next
      BY <2>2, <2>3, <2>7, <3>1 DEF Tells
    <3>2. CASE n \in 1..(next - 1)
      BY <1>2, <1>5, <2>3, <2>6, <3>2 DEF StreamInv, AllSent, TellsBefore, k
    <3> QED
      BY <2>7, <3>1, <3>2
  <2> QED
    BY <1>3, <2>8, <2>9, <2>10, <2>11, <2>12 DEF StreamInv
<1> QED
  BY <1>4, <1>5

\* onConnection: the page, which has nothing on its way, asks from where it is.
LEMMA Greeted ==
  ASSUME TypeOK, StreamInv, Unconnected, Resuming, Accept
  PROVE  StreamInv'
<1>1. /\ asked = lastSeq /\ ~conn
      /\ UNCHANGED <<next, oldest, silent, lastSeq, lines>>
      /\ lastSent' = (IF From(lastSeq) < next THEN next - 1 ELSE lastSeq)
      /\ wire' = Greeting(lastSeq)
  BY DEF Accept, Unconnected, Resuming, logVars, pageVars
<1>2. /\ next \in Nat /\ oldest \in 1..next /\ next <= MaxSeq + 1 /\ MaxSeq \in Nat
      /\ lastSeq \in 0..(next - 1)
  BY BoundsAssumption DEF TypeOK
<1> DEFINE k == From(lastSeq)
           L == Logs(k, next - 1)
           G == Gap(oldest)
<1>3. /\ k \in Nat /\ lastSeq < k
      /\ IF Missed(lastSeq) THEN k = oldest ELSE k = lastSeq + 1
  BY <1>2 DEF From, Missed
<1>4. /\ L.type = "logs" /\ L.from = k /\ L.to = next - 1
      /\ G.type = "gap" /\ G.oldestSeq = oldest
  BY DEF Logs, Gap
<1>5. /\ wire' \in Seq(Messages)
      /\ \A i \in 1..Len(wire') : IsLogs(i)' =>
           /\ wire'[i] = L /\ k < next
           /\ Missed(lastSeq) => \E j \in 1..(i - 1) : wire'[j] = G
           /\ \A j \in 1..Len(wire') : IsLogs(j)' => j = i
      /\ k < next => \E i \in 1..Len(wire') : wire'[i] = L
      /\ Missed(lastSeq) => \E i \in 1..Len(wire') : wire'[i] = G
  BY <1>1, <1>2, GreetingFacts DEF IsLogs
<1> HIDE DEF k, L, G
<1>6. \A n \in 1..lastSeq : Accounted(n)'
  <2>1. \A n : Accounted(n) => Accounted(n)'
    BY <1>1, StaysAccounted
  <2> QED
    BY <1>1, <2>1 DEF StreamInv, HolesAreNoticed, Accounted
<1>7. ShownInOrder' /\ HolesAreNoticed'
  BY <1>1 DEF StreamInv, ShownInOrder, HolesAreNoticed, Shown, Noticed
<1>8. Behind'
  BY <1>1, <1>2 DEF StreamInv, Behind, Noted
<1>9. Ahead'
  <2> SUFFICES ASSUME NEW i \in 1..Len(wire'), IsLogs(i)'
               PROVE  /\ lastSeq < wire'[i].from /\ wire'[i].from <= wire'[i].to
                      /\ wire'[i].to < next /\ wire'[i].to <= lastSent'
    BY <1>1 DEF Ahead
  <2>1. wire'[i] = L /\ k < next
    BY <1>5
  <2>2. lastSent' = next - 1
    BY <1>1, <2>1 DEF k
  <2> QED
    BY <1>2, <1>3, <1>4, <2>1, <2>2
<1>10. Ordered'
  <2>1. Len(wire') \in Nat
    BY <1>5
  <2> QED
    BY <1>5, <2>1 DEF Ordered
<1>11. NoneSkipped'
  <2> SUFFICES ASSUME NEW i \in 1..Len(wire'), IsLogs(i)', NEW n \in 1..(wire'[i].from - 1)
               PROVE  Accounted(n)' \/ TellsBefore(i, n)'
    BY DEF NoneSkipped
  <2>1. n \in 1..(k - 1)
    BY <1>4, <1>5
  <2>2. CASE n \in 1..lastSeq
    BY <1>6, <2>2
  <2>3. CASE n \notin 1..lastSeq
    <3>1. Missed(lastSeq) /\ n < oldest
      BY <1>2, <1>3, <2>1, <2>3
    <3>2. PICK j \in 1..(i - 1) : wire'[j] = G
      BY <1>5, <3>1
    <3> QED
      BY <1>4, <3>1, <3>2 DEF TellsBefore, Tells
  <2> QED
    BY <2>2, <2>3
<1>12. AllSent'
  <2> SUFFICES ASSUME NEW n \in 1..(next - 1)
               PROVE  Accounted(n)' \/ \E j \in 1..Len(wire') : Tells(wire'[j], n)
    <3>1. Len(wire') + 1 - 1 = Len(wire')
      BY <1>5
    <3> QED
      BY <1>1, <3>1 DEF AllSent, TellsBefore
  <2>1. CASE n \in 1..lastSeq
    BY <1>6, <2>1
  <2>2. CASE n \notin 1..lastSeq /\ n < k
    <3>1. Missed(lastSeq) /\ n < oldest
      BY <1>2, <1>3, <2>2
    <3>2. PICK j \in 1..Len(wire') : wire'[j] = G
      BY <1>5, <3>1
    <3> QED
      BY <1>4, <3>1, <3>2 DEF Tells
  <2>3. CASE k <= n
    <3>1. PICK j \in 1..Len(wire') : wire'[j] = L
      BY <1>2, <1>3, <1>5, <2>3
    <3>2. n \in L.from..L.to
      BY <1>2, <1>3, <1>4, <2>3
    <3> QED
      BY <1>4, <3>1, <3>2 DEF Tells
  <2> QED
    BY <1>3, <2>1, <2>2, <2>3
<1> QED
  BY <1>7, <1>8, <1>9, <1>10, <1>11, <1>12 DEF StreamInv

\* onmessage takes the first message on its way.
LEMMA FirstIsTaken ==
  ASSUME TypeOK, Receive
  PROVE  /\ Len(wire) \in Nat /\ Len(wire) > 0 /\ wire[1] \in Messages
         /\ wire' \in Seq(Messages) /\ Len(wire') = Len(wire) - 1
         /\ \A i \in 1..Len(wire') : i + 1 \in 1..Len(wire) /\ wire'[i] = wire[i + 1]
         /\ UNCHANGED <<next, silent, conn, lastSent>>
         /\ \/ wire[1].type \in {"hello", "state", "end"} /\ UNCHANGED <<lastSeq, lines>>
            \/ wire[1].type = "logs" /\ Shows(wire[1])
            \/ /\ wire[1].type = "gap" /\ lines' = Append(lines, Notice(wire[1].oldestSeq))
               /\ UNCHANGED lastSeq
<1>1. wire \in Seq(Messages) /\ wire # <<>> /\ wire' = Tail(wire) /\ Head(wire) = wire[1]
  BY DEF TypeOK, Receive
<1>2. /\ Tail(wire) \in Seq(Messages) /\ Len(Tail(wire)) = Len(wire) - 1
      /\ \A i \in 1..Len(Tail(wire)) : Tail(wire)[i] = wire[i + 1]
  BY ONLY <1>1, HeadTailProperties, Zenon
<1>3. Len(wire) \in Nat /\ Len(wire) > 0
  BY <1>1
<1>4. UNCHANGED <<next, silent, conn, lastSent>>
  BY DEF Receive, logVars
<1>5. \/ wire[1].type \in {"hello", "state", "end"} /\ UNCHANGED <<lastSeq, lines>>
      \/ wire[1].type = "logs" /\ Shows(wire[1])
      \/ /\ wire[1].type = "gap" /\ lines' = Append(lines, Notice(wire[1].oldestSeq))
         /\ UNCHANGED lastSeq
  BY <1>1 DEF Receive
<1> QED
  BY <1>1, <1>2, <1>3, <1>4, <1>5

\* What the first message tells of is accounted for from then on: so the page may go
\* without it.
LEMMA FirstIsHeeded ==
  ASSUME TypeOK, StreamInv, Receive,
         \A n : Accounted(n) \/ Tells(wire[1], n) => Accounted(n)'
  PROVE  Ordered' /\ NoneSkipped' /\ AllSent'
<1> USE FirstIsTaken
<1>1. \A i \in 1..Len(wire') : IsLogs(i)' = IsLogs(i + 1)
  BY DEF IsLogs
<1>2. \A n : \A i \in 1..Len(wire) :
        Accounted(n) \/ TellsBefore(i + 1, n) => Accounted(n)' \/ TellsBefore(i, n)'
  <2> SUFFICES ASSUME NEW n, NEW i \in 1..Len(wire), TellsBefore(i + 1, n), ~Accounted(n)'
               PROVE  TellsBefore(i, n)'
    OBVIOUS
  <2>1. PICK j \in 1..i : Tells(wire[j], n)
    BY DEF TellsBefore
  <2>2. j # 1
    BY <2>1
  <2>3. j - 1 \in 1..Len(wire') /\ j - 1 \in 1..(i - 1) /\ wire'[j - 1] = wire[j]
    <3>1. j \in Nat /\ i \in Nat /\ 1 < j /\ j <= i /\ i <= Len(wire)
      BY <2>1, <2>2
    <3>2. j - 1 \in 1..Len(wire') /\ j - 1 \in 1..(i - 1) /\ (j - 1) + 1 = j
      BY <3>1
    <3> QED
      BY <3>2
  <2> QED
    BY <2>1, <2>3 DEF TellsBefore
<1>3. Ordered'
  <2> SUFFICES ASSUME NEW i \in 1..Len(wire'), NEW j \in 1..Len(wire'), i < j,
                      IsLogs(i)', IsLogs(j)'
               PROVE  wire'[i].to < wire'[j].from
    BY DEF Ordered
  <2>1. /\ i + 1 \in 1..Len(wire) /\ j + 1 \in 1..Len(wire) /\ i + 1 < j + 1
        /\ wire'[i] = wire[i + 1] /\ wire'[j] = wire[j + 1]
    OBVIOUS
  <2> QED
    BY <1>1, <2>1 DEF StreamInv, Ordered
<1>4. NoneSkipped'
  <2> SUFFICES ASSUME NEW i \in 1..Len(wire'), IsLogs(i)', NEW n \in 1..(wire'[i].from - 1)
               PROVE  Accounted(n)' \/ TellsBefore(i, n)'
    BY DEF NoneSkipped
  <2>1. i + 1 \in 1..Len(wire) /\ i \in 1..Len(wire) /\ wire'[i] = wire[i + 1]
    OBVIOUS
  <2> QED
    BY <1>1, <1>2, <2>1 DEF StreamInv, NoneSkipped
<1>5. AllSent'
  <2> SUFFICES ASSUME conn, NEW n \in 1..(next - 1)
               PROVE  Accounted(n)' \/ \E j \in 1..Len(wire') : Tells(wire'[j], n)
    <3>1. Len(wire') + 1 - 1 = Len(wire') /\ conn' = conn /\ next' = next
      OBVIOUS
    <3> QED
      BY <3>1 DEF AllSent, TellsBefore
  <2>1. Accounted(n) \/ TellsBefore(Len(wire) + 1, n)
    BY DEF StreamInv, AllSent
  <2>2. PICK k \in 1..Len(wire) : k = Len(wire) /\ k - 1 = Len(wire')
    OBVIOUS
  <2>3. Accounted(n)' \/ TellsBefore(k, n)'
    BY <1>2, <2>1, <2>2
  <2> QED
    BY <2>2, <2>3 DEF TellsBefore
<1> QED
  BY <1>3, <1>4, <1>5

\* What a page shows.
Items == [notice : {"none", "gap"}, seq : 1..(MaxSeq + 1)]

\* A page shows more below what it showed.
LEMMA MoreShown ==
  ASSUME TypeOK, NEW t \in Seq(Items), lines' = lines \o t
  PROVE  /\ lines' \in Seq(Items) /\ Len(lines) \in Nat /\ Len(t) \in Nat
         /\ Noted = 1..Len(lines) /\ Noted' = 1..(Len(lines) + Len(t))
         /\ \A i \in Noted : i \in Noted' /\ lines'[i] = lines[i]
         /\ \A i \in 1..Len(t) : lines'[Len(lines) + i] = t[i]
         /\ \A n : (n \in Shown => n \in Shown') /\ (Noticed(n) => Noticed(n)')
<1>1. lines \in Seq(Items)
  BY DEF TypeOK, Items
<1>2. /\ lines \o t \in Seq(Items) /\ Len(lines \o t) = Len(lines) + Len(t)
      /\ \A i \in 1..(Len(lines) + Len(t)) :
           (lines \o t)[i] = IF i <= Len(lines) THEN lines[i] ELSE t[i - Len(lines)]
  BY ONLY <1>1, ConcatProperties, Zenon
<1>3. Len(lines) \in Nat /\ Len(t) \in Nat /\ Noted = 1..Len(lines)
  BY <1>1 DEF Noted
<1>4. lines' \in Seq(Items) /\ Len(lines') = Len(lines) + Len(t) /\ Noted' = 1..Len(lines')
  BY <1>2 DEF Noted
<1>5. \A i \in Noted : i \in Noted' /\ lines'[i] = lines[i]
  BY <1>2, <1>3, <1>4
<1>6. \A i \in 1..Len(t) : lines'[Len(lines) + i] = t[i]
  <2> SUFFICES ASSUME NEW i \in 1..Len(t)
               PROVE  lines'[Len(lines) + i] = t[i]
    OBVIOUS
  <2>1. /\ Len(lines) + i \in 1..(Len(lines) + Len(t))
        /\ ~(Len(lines) + i <= Len(lines)) /\ (Len(lines) + i) - Len(lines) = i
    BY <1>3
  <2> QED
    BY <1>2, <2>1
<1>7. \A n : (n \in Shown => n \in Shown') /\ (Noticed(n) => Noticed(n)')
  BY <1>5 DEF Shown, Noticed, Noted
<1> QED
  BY <1>3, <1>4, <1>5, <1>6, <1>7

\* A message read is one less on the wire and one more on the page.
LEMMA Received ==
  ASSUME TypeOK, StreamInv, Receive
  PROVE  /\ StreamInv' /\ lines' \in Seq(Items)
         /\ lastSeq' \in 0..(next - 1)
<1> DEFINE m == wire[1]
<1>1. /\ Len(wire) \in Nat /\ 1 \in 1..Len(wire) /\ m \in Messages
      /\ Len(wire') = Len(wire) - 1
      /\ \A i \in 1..Len(wire') : i + 1 \in 1..Len(wire) /\ wire'[i] = wire[i + 1]
      /\ UNCHANGED <<next, silent, conn, lastSent>>
  BY FirstIsTaken
<1>2. \/ m.type \in {"hello", "state", "end"} /\ UNCHANGED <<lastSeq, lines>>
      \/ m.type = "logs" /\ Shows(m)
      \/ m.type = "gap" /\ lines' = Append(lines, Notice(m.oldestSeq)) /\ UNCHANGED lastSeq
  BY FirstIsTaken
<1>3. \A i \in 1..Len(wire') : IsLogs(i)' = IsLogs(i + 1)
  BY <1>1 DEF IsLogs
<1>4. lines \in Seq(Items) /\ lastSeq \in 0..(next - 1) /\ next \in Nat /\ MaxSeq \in Nat
  BY BoundsAssumption DEF TypeOK, Items
<1> HIDE DEF m
<1>5. CASE m.type \in {"hello", "state", "end"} /\ UNCHANGED <<lastSeq, lines>>
  <2>1. \A n : Accounted(n) \/ Tells(m, n) => Accounted(n)'
    BY <1>1, <1>5, StaysAccounted DEF Tells
  <2>2. Ordered' /\ NoneSkipped' /\ AllSent'
    BY <2>1, FirstIsHeeded DEF m
  <2>3. ShownInOrder' /\ HolesAreNoticed' /\ Behind'
    BY <1>1, <1>5 DEF StreamInv, ShownInOrder, HolesAreNoticed, Behind, Shown, Noticed, Noted
  <2>4. Ahead'
    BY <1>1, <1>3, <1>5 DEF StreamInv, Ahead
  <2> QED
    BY <1>4, <1>5, <2>2, <2>3, <2>4 DEF StreamInv
<1>6. CASE m.type = "gap" /\ lines' = Append(lines, Notice(m.oldestSeq)) /\ UNCHANGED lastSeq
  <2> DEFINE k == m.oldestSeq
             t == <<Notice(k)>>
             l == Len(lines)
  <2>1. Notice(k) \in Items /\ k \in Nat /\ Notice(k).notice = "gap" /\ Notice(k).seq = k
    BY <1>1, <1>4, <1>6, MessageKinds DEF Notice, Items
  <2> HIDE DEF k
  <2>2. t \in Seq(Items) /\ Len(t) = 1 /\ t[1] = Notice(k) /\ lines' = lines \o t
    BY <1>4, <1>6, <2>1, AppendIsConcat DEF k
  <2> HIDE DEF t, l
  <2>3. /\ lines' \in Seq(Items) /\ l \in Nat /\ Noted = 1..l /\ Noted' = 1..(l + 1)
        /\ \A i \in Noted : i \in Noted' /\ lines'[i] = lines[i]
        /\ lines'[l + 1] = Notice(k)
        /\ \A n : (n \in Shown => n \in Shown') /\ (Noticed(n) => Noticed(n)')
    <3>1. /\ lines' \in Seq(Items) /\ Len(lines) \in Nat
          /\ Noted = 1..Len(lines) /\ Noted' = 1..(Len(lines) + Len(t))
          /\ \A i \in Noted : i \in Noted' /\ lines'[i] = lines[i]
          /\ \A i \in 1..Len(t) : lines'[Len(lines) + i] = t[i]
          /\ \A n : (n \in Shown => n \in Shown') /\ (Noticed(n) => Noticed(n)')
      BY <2>2, MoreShown
    <3>2. 1 \in 1..Len(t)
      BY <2>2
    <3>3. lines'[Len(lines) + 1] = t[1]
      BY <3>1, <3>2
    <3> QED
      BY <2>2, <3>1, <3>3 DEF l
  <2>4. \A n : Accounted(n) \/ Tells(m, n) => Accounted(n)'
    <3>1. \A n : Accounted(n) => Accounted(n)'
      BY <1>1, <2>3 DEF Accounted
    <3>2. \A n : n < k => Noticed(n)'
      <4>1. l + 1 \in Noted' /\ lines'[l + 1].notice = "gap" /\ lines'[l + 1].seq = k
        BY <2>1, <2>3
      <4> QED
        BY <4>1 DEF Noticed, Noted
    <3>3. \A n : Tells(m, n) => n < k
      BY <1>6 DEF Tells, k
    <3> QED
      BY <3>1, <3>2, <3>3 DEF Accounted
  <2>5. Ordered' /\ NoneSkipped' /\ AllSent'
    BY <2>4, FirstIsHeeded DEF m
  <2>6. \A i \in Noted' : lines'[i].notice = "none" => i \in Noted /\ lines'[i] = lines[i]
    BY <2>1, <2>3
  <2>7. ShownInOrder'
    BY <2>6 DEF StreamInv, ShownInOrder, Noted
  <2>8. HolesAreNoticed'
    BY <1>1, <1>6, <2>3 DEF StreamInv, HolesAreNoticed
  <2>9. Behind'
    BY <1>1, <1>6, <2>6 DEF StreamInv, Behind
  <2>10. Ahead'
    BY <1>1, <1>3, <1>6 DEF StreamInv, Ahead
  <2> QED
    BY <1>4, <1>6, <2>3, <2>5, <2>7, <2>8, <2>9, <2>10 DEF StreamInv
<1>7. CASE m.type = "logs" /\ Shows(m)
  <2> DEFINE l == Len(lines)
             t == [i \in 1..(m.to + 1 - m.from) |-> Line(m.from + i - 1)]
             k == Len(t)
  <2>1. /\ m.from \in Nat /\ m.to \in Nat /\ 1 <= m.from /\ m.to <= MaxSeq
        /\ lastSeq < m.from /\ m.from <= m.to /\ m.to < next
    <3>1. m.from \in Seqs /\ m.to \in Seqs
      BY <1>1, <1>7, MessageKinds
    <3> QED
      BY <1>1, <1>4, <1>7, <3>1 DEF StreamInv, Ahead, IsLogs, Seqs, m
  <2>2. lines' = lines \o t /\ lastSeq' = m.to
    BY <1>4, <1>7, <2>1 DEF Shows
  <2>3. t \in Seq(Items) /\ k = m.to + 1 - m.from
    <3>1. m.to + 1 - m.from \in Nat
      BY <2>1
    <3>2. \A i \in 1..(m.to + 1 - m.from) : m.from + i - 1 \in 1..(MaxSeq + 1)
      BY <1>4, <2>1
    <3>3. \A i \in 1..(m.to + 1 - m.from) : Line(m.from + i - 1) \in Items
      BY <3>2 DEF Line, Items
    <3> QED
      BY <3>1, <3>3
  <2>4. \A i \in 1..k : t[i].notice = "none" /\ t[i].seq = m.from + i - 1
    BY <2>1, <2>3 DEF Line
  <2> HIDE DEF t
  <2>5. /\ lines' \in Seq(Items) /\ l \in Nat /\ k \in Nat
        /\ Noted = 1..l /\ Noted' = 1..(l + k)
        /\ \A i \in Noted : i \in Noted' /\ lines'[i] = lines[i]
        /\ \A i \in 1..k : lines'[l + i] = t[i]
        /\ \A n : (n \in Shown => n \in Shown') /\ (Noticed(n) => Noticed(n)')
    BY <2>2, <2>3, MoreShown
  <2> HIDE DEF l, k
  <2>6. \A i \in Noted' :
          \/ i \in Noted /\ lines'[i] = lines[i]
          \/ i > l /\ lines'[i].notice = "none" /\ lines'[i].seq = m.from + (i - l) - 1
    <3> SUFFICES ASSUME NEW i \in Noted', i \notin Noted
                 PROVE  /\ i > l /\ lines'[i].notice = "none"
                        /\ lines'[i].seq = m.from + (i - l) - 1
      BY <2>5
    <3>1. i \in Nat /\ l < i /\ i <= l + k
      BY <2>5
    <3>2. i - l \in 1..k /\ l + (i - l) = i
      BY <2>5, <3>1
    <3>3. lines'[i] = t[i - l]
      BY <2>5, <3>2
    <3>4. t[i - l].notice = "none" /\ t[i - l].seq = m.from + (i - l) - 1
      BY <2>4, <3>2
    <3> QED
      BY <3>1, <3>3, <3>4
  <2>7. \A n \in m.from..m.to : n \in Shown'
    <3> SUFFICES ASSUME NEW n \in m.from..m.to
                 PROVE  \E i \in Noted' : lines'[i].notice = "none" /\ lines'[i].seq = n
      BY DEF Shown, Noted
    <3>1. n + 1 - m.from \in 1..k /\ m.from + (n + 1 - m.from) - 1 = n
      BY <2>1, <2>3
    <3>2. l + (n + 1 - m.from) \in Noted'
      BY <2>5, <3>1
    <3> QED
      BY <2>4, <2>5, <3>1, <3>2
  <2>8. \A n : Accounted(n) \/ Tells(m, n) => Accounted(n)'
    BY <1>1, <1>7, <2>5, <2>7 DEF Accounted, Tells
  <2>9. Ordered' /\ NoneSkipped' /\ AllSent'
    BY <2>8, FirstIsHeeded DEF m
  <2>10. \A i \in Noted : lines'[i].notice = "none" =>
           lines'[i].seq \in Nat /\ lines'[i].seq < m.from
    <3> SUFFICES ASSUME NEW i \in Noted, lines[i].notice = "none"
                 PROVE  lines[i].seq \in Nat /\ lines[i].seq < m.from
      BY <2>5
    <3>1. lines[i] \in Items
      BY <1>4 DEF Noted
    <3>2. lines[i].seq \in Nat
      BY <1>4, <3>1 DEF Items
    <3>3. lines[i].seq <= lastSeq
      BY DEF StreamInv, Behind
    <3> QED
      BY <1>4, <2>1, <3>2, <3>3
  <2>12. ShownInOrder'
    <3> SUFFICES ASSUME NEW i \in Noted', NEW j \in Noted', i < j,
                        lines'[i].notice = "none", lines'[j].notice = "none"
                 PROVE  lines'[i].seq < lines'[j].seq
      BY DEF ShownInOrder, Noted
    <3>1. CASE j \in Noted
      <4>1. i \in Noted /\ lines'[i] = lines[i] /\ lines'[j] = lines[j]
        BY <2>5, <3>1
      <4> QED
        BY <3>1, <4>1 DEF StreamInv, ShownInOrder, Noted
    <3>2. CASE j \notin Noted
      <4>1. j > l /\ lines'[j].seq = m.from + (j - l) - 1
        BY <2>6, <3>2
      <4>2. CASE i \in Noted
        <5>1. lines'[i].seq \in Nat /\ lines'[i].seq < m.from
          BY <2>10, <4>2
        <5>2. j \in Nat
          BY <2>5
        <5> QED
          BY <2>1, <2>5, <4>1, <5>1, <5>2
      <4>3. CASE i \notin Noted
        BY <2>1, <2>5, <2>6, <4>1, <4>3
      <4> QED
        BY <4>2, <4>3
    <3> QED
      BY <3>1, <3>2
  <2>13. HolesAreNoticed'
    <3> SUFFICES ASSUME NEW n \in 1..m.to
                 PROVE  Accounted(n)'
      BY <2>2 DEF HolesAreNoticed, Accounted
    <3>1. CASE n \in 1..(m.from - 1)
      <4>1. ~TellsBefore(1, n)
        BY DEF TellsBefore
      <4> QED
        BY <1>1, <1>7, <2>8, <3>1, <4>1 DEF StreamInv, NoneSkipped, IsLogs, m
    <3>2. CASE n \in m.from..m.to
      BY <2>7, <3>2 DEF Accounted
    <3> QED
      BY <2>1, <3>1, <3>2
  <2>14. Behind'
    <3>1. conn => m.to <= lastSent
      BY <1>1, <1>7 DEF StreamInv, Ahead, IsLogs, m
    <3>2. \A i \in Noted' : lines'[i].notice = "none" => lines'[i].seq <= m.to
      <4> SUFFICES ASSUME NEW i \in Noted', lines'[i].notice = "none"
                   PROVE  lines'[i].seq <= m.to
        OBVIOUS
      <4>1. CASE i \in Noted
        BY <2>1, <2>10, <4>1
      <4>2. CASE i \notin Noted
        BY <2>1, <2>3, <2>5, <2>6, <4>2
      <4> QED
        BY <4>1, <4>2
    <3> QED
      BY <1>1, <2>2, <3>1, <3>2 DEF Behind
  <2>15. Ahead'
    <3> SUFFICES ASSUME NEW i \in 1..Len(wire'), IsLogs(i)'
                 PROVE  /\ m.to < wire'[i].from /\ wire'[i].from <= wire'[i].to
                        /\ wire'[i].to < next /\ (conn => wire'[i].to <= lastSent)
      BY <1>1, <2>2 DEF Ahead
    <3>1. /\ i + 1 \in 1..Len(wire) /\ IsLogs(i + 1) /\ wire'[i] = wire[i + 1]
          /\ 1 < i + 1 /\ IsLogs(1)
      BY <1>1, <1>3, <1>7 DEF IsLogs, m
    <3>2. m.to < wire[i + 1].from
      BY <1>1, <3>1 DEF StreamInv, Ordered, m
    <3> QED
      BY <3>1, <3>2 DEF StreamInv, Ahead
  <2> QED
    BY <1>4, <2>1, <2>2, <2>5, <2>9, <2>12, <2>13, <2>14, <2>15 DEF StreamInv
<1> QED
  BY <1>2, <1>5, <1>6, <1>7

-----------------------------------------------------------------------------
\* The initial states, and the steps

\* The invariant holds at first.
LEMMA InitHolds == Init => IInv
<1> SUFFICES ASSUME Init PROVE IInv
  OBVIOUS
<1>1. TypeOK
  <2>1. wire \in Seq(Messages) /\ lines \in Seq(Items)
    BY EmptySeq DEF Init
  <2>2. lines \in Seq([notice : {"none", "gap"}, seq : 1..(MaxSeq + 1)])
    BY <2>1 DEF Items
  <2>3. /\ 1 \in 1..(MaxSeq + 1) /\ 1 \in 1..1 /\ 1 - 1 <= MaxLines
        /\ 0 \in 0..MaxStates /\ 0 \in 0..(1 - 1) /\ 0 \in 0..MaxDrops
        /\ 0 \in 0..(MaxReconnects + 1) /\ 0 \in Nat
    BY BoundsAssumption
  <2> QED
    BY <2>1, <2>2, <2>3, Zenon DEF Init, TypeOK, States
<1>2. Unconnected /\ GivenUp /\ Resuming
  BY BoundsAssumption DEF Init, Unconnected, GivenUp, Resuming
<1>3. lines = <<>> /\ wire = <<>> /\ lastSeq = 0 /\ next = 1 /\ ~conn
  BY DEF Init
<1>4. ShownInOrder /\ HolesAreNoticed /\ Behind
  BY <1>3 DEF ShownInOrder, HolesAreNoticed, Behind, Noted
<1>5. Ahead /\ Ordered /\ NoneSkipped /\ AllSent
  BY <1>3 DEF Ahead, Ordered, NoneSkipped, AllSent
<1> QED
  BY <1>1, <1>2, <1>4, <1>5 DEF IInv, ControlInv, StreamInv

\* Messages sent go to a page that is connected.
LEMMA StateTold ==
  ASSUME TypeOK, Unconnected, NEW st \in States, SetState(st)
  PROVE  TypeOK' /\ Unconnected'
<1>1. Told(st) \in Seq(Messages) /\ wire \in Seq(Messages)
  BY ToldIsWordless DEF Wordless, TypeOK
<1>2. wire' \in Seq(Messages)
  BY <1>1, ConcatProperties DEF SetState
<1>3. TypeOK'
  BY <1>2, BoundsAssumption
  DEF SetState, TypeOK, logVars, sockVars, pageVars, fetchVars, States, Seqs
<1>4. socket # "open" => wire' = <<>>
  BY <1>1 DEF SetState, Unconnected, Told
<1>5. Unconnected'
  BY <1>4 DEF SetState, Unconnected, sockVars
<1> QED
  BY <1>3, <1>5

\* A broken connection delivers a prefix of what was sent.
LEMMA CutIsPart ==
  ASSUME TypeOK, Cut
  PROVE  wire' \in Seq(Messages) /\ (wire = <<>> => wire' = <<>>)
<1>1. PICK k \in 0..Len(wire) : wire' = SubSeq(wire, 1, k)
  BY DEF Cut
<1>2. wire \in Seq(Messages) /\ Len(wire) \in Nat /\ k \in Nat /\ k <= Len(wire)
  BY <1>1 DEF TypeOK
<1>3. wire' \in Seq(Messages)
  <2>1. \A i \in 1..k : wire[i] \in Messages
    BY <1>2
  <2> QED
    BY <1>1, <1>2, <2>1, SubSeqProperties
<1>4. ASSUME wire = <<>> PROVE wire' = <<>>
  BY <1>1, <1>2, <1>4, SubSeqEmpty
<1> QED
  BY <1>3, <1>4

\* What is told on closing carries no line.
LEMMA CloseTold ==
  ASSUME TypeOK, Close
  PROVE  /\ TypeOK' /\ (conn => socket = "open")
         /\ \E t : Wordless(t) /\ wire' = wire \o t
         /\ wire' \in Seq(Messages) /\ (~conn => wire' = wire)
<1> DEFINE t == IF conn THEN <<End("server-closing")>> ELSE <<>>
<1>1. End("server-closing") \in Messages /\ End("server-closing").type = "end"
  BY MessageTypes DEF End
<1>2. Wordless(t)
  BY <1>1 DEF Wordless
<1>3. wire \in Seq(Messages)
  BY DEF TypeOK
<1>4. wire' = wire \o t
  <2>1. CASE conn
    BY <1>1, <1>3, <2>1, AppendIsConcat DEF Close
  <2>2. CASE ~conn
    BY <1>3, <2>2, ConcatEmptySeq DEF Close
  <2> QED
    BY <2>1, <2>2
<1>5. wire' \in Seq(Messages)
  BY <1>1, <1>3, AppendProperties DEF Close
<1>6. TypeOK' /\ (~conn => wire' = wire)
  BY <1>5 DEF Close, TypeOK, logVars, sockVars, pageVars, fetchVars
<1>7. conn => socket = "open"
  BY DEF TypeOK
<1> QED
  BY <1>2, <1>4, <1>5, <1>6, <1>7

-----------------------------------------------------------------------------
\* A step keeps the invariant, action by action

\* A line stored leaves the buffer an interval within its bounds.
LEMMA PushTypes ==
  ASSUME TypeOK, Push
  PROVE  /\ next' \in 1..(MaxSeq + 1) /\ oldest' \in 1..next' /\ next' - oldest' <= MaxLines
         /\ next \in Seqs /\ next \in 0..(next' - 1)
         /\ 0..(next - 1) \subseteq 0..(next' - 1)
<1>1. /\ next \in 1..(MaxSeq + 1) /\ oldest \in 1..next /\ next <= MaxSeq
      /\ MaxSeq \in Nat /\ MaxLines \in Nat
  BY BoundsAssumption DEF TypeOK, Push
<1>2. /\ next' = next + 1 /\ oldest' \in oldest..(next + 1)
      /\ next + 1 - oldest' <= MaxLines
  BY DEF Push
<1>3. next' \in 1..(MaxSeq + 1) /\ next \in Seqs
  BY <1>1, <1>2 DEF Seqs
<1>4. oldest' \in 1..next' /\ next' - oldest' <= MaxLines
  <2>1. oldest \in Nat /\ 1 <= oldest /\ oldest' \in Nat /\ oldest <= oldest' /\ oldest' <= next + 1
    BY <1>1, <1>2
  <2>2. oldest' \in 1..next'
    BY <1>1, <1>2, <2>1
  <2>3. next' - oldest' <= MaxLines
    <3>1. next \in Int /\ oldest' \in Int
      BY <1>1, <2>1
    <3>2. next + 1 - oldest' = next' - oldest'
      BY <1>2, <3>1
    <3> QED
      BY <1>2, <3>2
  <2> QED
    BY <2>2, <2>3
<1>5. next \in 0..(next' - 1) /\ 0..(next - 1) \subseteq 0..(next' - 1)
  BY <1>1, <1>2
<1> QED
  BY <1>3, <1>4, <1>5

\* The server's steps and the page's, one by one.
LEMMA WriteStep == IInv /\ Write => IInv'
<1> SUFFICES ASSUME IInv, Write PROVE IInv'
  OBVIOUS
<1> USE DEF IInv, ControlInv
<1>1. wire' \in Seq(Messages) /\ (conn \/ wire' = wire)
  <2>1. Logs(next, next) \in Messages
    BY MessageTypes, BoundsAssumption DEF Write, Push, TypeOK, Seqs
  <2>2. wire \in Seq(Messages)
    BY DEF TypeOK
  <2>3. Append(wire, Logs(next, next)) \in Seq(Messages)
    BY ONLY <2>1, <2>2, AppendProperties, Zenon
  <2> QED
    BY <2>2, <2>3, Zenon DEF Write
<1>2. TypeOK'
  <2>1. lastSent' \in 0..(next' - 1)
    BY PushTypes DEF Write, TypeOK
  <2> QED
    BY <1>1, <2>1, PushTypes DEF Write, TypeOK, serverVars, sockVars, pageVars, fetchVars
<1>3. Unconnected' /\ GivenUp' /\ Resuming'
  BY <1>1 DEF Write, TypeOK, Unconnected, GivenUp, Resuming, sockVars, pageVars
<1> QED
  BY <1>2, <1>3, WrittenAndSent

LEMMA PushOnlyStep == IInv /\ PushOnly => IInv'
<1> SUFFICES ASSUME IInv, PushOnly PROVE IInv'
  OBVIOUS
<1> USE DEF IInv, ControlInv
<1>1. TypeOK'
  BY PushTypes DEF PushOnly, TypeOK, serverVars, netVars, sockVars, pageVars, fetchVars
<1>2. Unconnected' /\ GivenUp' /\ Resuming'
  BY DEF PushOnly, Unconnected, GivenUp, Resuming, netVars, sockVars, pageVars
<1> QED
  BY <1>1, <1>2, StoredSilently

LEMMA SetStateStep == ASSUME IInv, NEW st \in States, SetState(st) PROVE IInv'
<1> USE DEF IInv, ControlInv
<1>1. TypeOK' /\ Unconnected'
  BY StateTold
<1>2. GivenUp' /\ Resuming'
  BY DEF SetState, GivenUp, Resuming, sockVars, pageVars
<1>3. StreamInv'
  BY ToldIsWordless, WordlessSent DEF SetState, logVars, pageVars
<1> QED
  BY <1>1, <1>2, <1>3

LEMMA EvictStep == IInv /\ Evict => IInv'
<1> SUFFICES ASSUME IInv, Evict PROVE IInv'
  OBVIOUS
<1> USE DEF IInv, ControlInv
<1>1. TypeOK'
  <2>1. next \in 1..next /\ next - next <= MaxLines
    BY BoundsAssumption DEF TypeOK
  <2> QED
    BY <2>1 DEF Evict, TypeOK, netVars, sockVars, pageVars, fetchVars
<1>2. Unconnected' /\ GivenUp' /\ Resuming'
  BY DEF Evict, Unconnected, GivenUp, Resuming, netVars, sockVars, pageVars
<1>3. StreamInv'
  BY Untouched DEF Evict, netVars, pageVars
<1> QED
  BY <1>1, <1>2, <1>3

LEMMA AcceptStep == IInv /\ Accept => IInv'
<1> SUFFICES ASSUME IInv, Accept PROVE IInv'
  OBVIOUS
<1> USE DEF IInv, ControlInv
<1>1. wire' \in Seq(Messages)
  BY GreetingFacts DEF Accept, TypeOK
<1>2. TypeOK'
  <2>1. lastSent' \in 0..(next - 1)
    BY BoundsAssumption DEF Accept, TypeOK
  <2> QED
    BY <1>1, <2>1 DEF Accept, TypeOK, logVars, serverVars, pageVars, fetchVars
<1>3. Unconnected' /\ GivenUp' /\ Resuming'
  BY BoundsAssumption DEF Accept, TypeOK, Unconnected, GivenUp, Resuming, pageVars
<1> QED
  BY <1>2, <1>3, Greeted

LEMMA DropStep == IInv /\ Drop => IInv'
<1> SUFFICES ASSUME IInv, Drop PROVE IInv'
  OBVIOUS
<1> USE DEF IInv, ControlInv
<1>1. wire' \in Seq(Messages) /\ (wire = <<>> => wire' = <<>>)
  BY CutIsPart DEF Drop
<1>2. TypeOK'
  <2>1. drops' \in 0..MaxDrops
    BY BoundsAssumption DEF Drop, TypeOK
  <2> QED
    BY <1>1, <2>1 DEF Drop, TypeOK, logVars, serverVars, sockVars, pageVars, fetchVars
<1>3. Unconnected' /\ GivenUp' /\ Resuming'
  BY <1>1 DEF Drop, Unconnected, GivenUp, Resuming, sockVars, pageVars
<1>4. StreamInv'
  BY PartLost DEF Drop, logVars, pageVars
<1> QED
  BY <1>2, <1>3, <1>4

LEMMA CrashStep == IInv /\ Crash => IInv'
<1> SUFFICES ASSUME IInv, Crash PROVE IInv'
  OBVIOUS
<1> USE DEF IInv, ControlInv
<1>1. wire' \in Seq(Messages) /\ (wire = <<>> => wire' = <<>>)
  BY CutIsPart DEF Crash
<1>2. TypeOK'
  BY <1>1 DEF Crash, TypeOK, States, logVars, sockVars, pageVars, fetchVars
<1>3. Unconnected' /\ GivenUp' /\ Resuming'
  BY <1>1 DEF Crash, Unconnected, GivenUp, Resuming, sockVars, pageVars
<1>4. StreamInv'
  BY PartLost DEF Crash, logVars, pageVars
<1> QED
  BY <1>2, <1>3, <1>4

LEMMA CloseStep == IInv /\ Close => IInv'
<1> SUFFICES ASSUME IInv, Close PROVE IInv'
  OBVIOUS
<1> USE DEF IInv, ControlInv
<1>1. Unconnected' /\ GivenUp' /\ Resuming'
  BY CloseTold DEF Close, Unconnected, GivenUp, Resuming, sockVars, pageVars
<1>2. PICK t : Wordless(t) /\ wire' = wire \o t
  BY CloseTold
<1>3. StreamInv'
  BY <1>2, WordlessSent DEF Close, logVars, pageVars
<1> QED
  BY <1>1, <1>3, CloseTold

\* Every step of the server keeps the invariant.
LEMMA ServerStep == IInv /\ (Exit \/ Restart \/ Answer) => IInv'
<1> SUFFICES ASSUME IInv, Exit \/ Restart \/ Answer PROVE IInv'
  OBVIOUS
<1> USE DEF IInv, ControlInv
<1>1. UNCHANGED <<logVars, netVars, sockVars, pageVars>>
  BY DEF Exit, Restart, Answer
<1>2. TypeOK'
  <2>1. CASE Exit
    BY <2>1 DEF Exit, TypeOK, logVars, netVars, sockVars, pageVars, fetchVars
  <2>2. CASE Restart
    BY <2>2 DEF Restart, TypeOK, logVars, netVars, sockVars, pageVars, fetchVars
  <2>3. CASE Answer
    <3>1. asking' \in Nat /\ answers' \subseteq States \cup {"gone"}
      BY <2>3 DEF Answer, TypeOK
    <3> QED
      BY <2>3, <3>1 DEF Answer, TypeOK, logVars, serverVars, netVars, sockVars, pageVars
  <2> QED
    BY <2>1, <2>2, <2>3
<1>3. Unconnected' /\ GivenUp' /\ Resuming'
  BY <1>1 DEF Unconnected, GivenUp, Resuming, netVars, sockVars, pageVars
<1>4. StreamInv'
  BY <1>1, Untouched DEF logVars, netVars, pageVars
<1> QED
  BY <1>2, <1>3, <1>4

LEMMA ReceiveStep == IInv /\ Receive => IInv'
<1> SUFFICES ASSUME IInv, Receive PROVE IInv'
  OBVIOUS
<1> USE DEF IInv, ControlInv
<1>1. /\ StreamInv' /\ lastSeq' \in 0..(next - 1)
      /\ lines' \in Seq([notice : {"none", "gap"}, seq : 1..(MaxSeq + 1)])
  BY Received DEF Items
<1>2. wire' \in Seq(Messages) /\ wire[1] \in Messages /\ Head(wire) = wire[1]
  <2>1. wire \in Seq(Messages) /\ wire # <<>>
    BY DEF Receive, TypeOK
  <2>2. Head(wire) = wire[1]
    BY <2>1
  <2> QED
    BY <2>2, FirstIsTaken
<1>3. /\ page' \in States \cup {"idle"} /\ live' \in States \cup {"idle"}
      /\ asking' \in Nat /\ ended' \in BOOLEAN /\ UNCHANGED answers
  <2>1. wire[1].type \in {"hello", "state"} => wire[1].state \in States
    BY <1>2, MessageKinds
  <2> QED
    <3>1. CASE wire[1].type \in {"hello", "state"} /\ Learns(wire[1])
                 /\ UNCHANGED <<ended, answers>>
      BY <2>1, <3>1 DEF Learns, TypeOK
    <3>2. CASE (ended' = TRUE \/ UNCHANGED ended) /\ UNCHANGED <<page, live, asking, answers>>
      BY <3>2 DEF TypeOK
    <3> QED
      BY <1>2, <3>1, <3>2 DEF Receive, fetchVars
<1>4. TypeOK'
  BY <1>1, <1>2, <1>3 DEF Receive, TypeOK, logVars, serverVars, sockVars
<1>5. Unconnected' /\ GivenUp' /\ Resuming'
  BY DEF Receive, Unconnected, GivenUp, Resuming, sockVars
<1> QED
  BY <1>1, <1>4, <1>5

LEMMA ClosedStep == IInv /\ (Dropped \/ Refused) => IInv'
<1> SUFFICES ASSUME IInv, Dropped \/ Refused PROVE IInv'
  OBVIOUS
<1> USE DEF IInv, ControlInv
<1>1. Closed /\ ~conn /\ wire = <<>> /\ socket \in {"open", "connecting"}
  BY DEF Dropped, Refused, Unconnected
<1>2. /\ attempts' = attempts + 1 /\ socket' \in {"waiting", "done"}
      /\ socket' = "waiting" => attempts < MaxReconnects
      /\ UNCHANGED <<logVars, serverVars, netVars, asked, lastSeq, lines, page, live, ended,
                     answers>>
  BY <1>1 DEF Closed, Reconnects
<1>3. attempts \in Nat /\ attempts <= MaxReconnects /\ MaxReconnects \in Nat
  <2>1. attempts \in 0..(MaxReconnects + 1) /\ MaxReconnects \in Nat
    BY BoundsAssumption DEF TypeOK
  <2>2. ~(attempts > MaxReconnects)
    BY <1>1 DEF GivenUp
  <2> QED
    BY <2>1, <2>2
<1>4. attempts' \in 0..(MaxReconnects + 1) /\ (attempts' > MaxReconnects => socket' = "done")
  BY <1>2, <1>3
<1>5. asking' \in Nat
  BY <1>1 DEF Closed, TypeOK
<1>6. TypeOK'
  BY <1>1, <1>2, <1>4, <1>5 DEF TypeOK, logVars, serverVars, netVars
<1>7. Unconnected' /\ GivenUp' /\ Resuming'
  BY <1>1, <1>2, <1>4 DEF Unconnected, GivenUp, Resuming, netVars
<1>8. StreamInv'
  BY <1>2, Untouched DEF logVars, netVars
<1> QED
  BY <1>6, <1>7, <1>8

\* Every step of the page keeps the invariant.
LEMMA PageStep ==
  ASSUME IInv, Retry \/ \E a \in States \cup {"gone"} : Refreshed(a)
  PROVE  IInv'
<1> USE DEF IInv, ControlInv
<1>1. CASE Retry
  <2>1. TypeOK'
    BY <1>1 DEF Retry, TypeOK, logVars, serverVars, netVars, pageVars, fetchVars
  <2>2. Unconnected' /\ GivenUp' /\ Resuming'
    BY <1>1 DEF Retry, Unconnected, GivenUp, Resuming, netVars, pageVars
  <2>3. StreamInv'
    BY <1>1, Untouched DEF Retry, logVars, netVars, pageVars
  <2> QED
    BY <2>1, <2>2, <2>3
<1>2. ASSUME NEW a \in States \cup {"gone"}, Refreshed(a) PROVE IInv'
  <2>1. TypeOK'
    <3>1. /\ page' \in States \cup {"idle"} /\ live' \in States \cup {"idle"}
          /\ answers' \subseteq States \cup {"gone"}
      BY <1>2 DEF Refreshed, TypeOK, States
    <3> QED
      BY <1>2, <3>1 DEF Refreshed, TypeOK, logVars, serverVars, netVars, sockVars
  <2>2. Unconnected' /\ GivenUp' /\ Resuming'
    BY <1>2 DEF Refreshed, Unconnected, GivenUp, Resuming, netVars, sockVars
  <2>3. StreamInv'
    BY <1>2, Untouched DEF Refreshed, logVars, netVars
  <2> QED
    BY <2>1, <2>2, <2>3
<1> QED
  BY <1>1, <1>2

-----------------------------------------------------------------------------
\* The theorems

\* What the page shows, what is on its way to it and what the server has sent agree.
THEOREM StreamIsWhole == Spec => []IInv
<1>1. IInv /\ [Next]_vars => IInv'
  <2> SUFFICES ASSUME IInv, [Next]_vars PROVE IInv'
    OBVIOUS
  <2>1. CASE Deploying
    BY <2>1, WriteStep, PushOnlyStep, EvictStep, SetStateStep DEF Deploying
  <2>2. CASE Serving
    BY <2>2, AcceptStep, CloseStep, CrashStep, ServerStep DEF Serving
  <2>3. CASE Page
    BY <2>3, ReceiveStep, ClosedStep, PageStep DEF Page
  <2>4. CASE Drop
    BY <2>4, DropStep
  <2>5. CASE UNCHANGED vars
    <3> USE <2>5 DEF vars, logVars, serverVars, netVars, sockVars, pageVars, fetchVars
    <3>1. TypeOK'
      BY DEF IInv, ControlInv, TypeOK
    <3>2. Unconnected' /\ GivenUp' /\ Resuming'
      BY DEF IInv, ControlInv, Unconnected, GivenUp, Resuming
    <3>3. StreamInv'
      BY Untouched DEF IInv
    <3> QED
      BY <3>1, <3>2, <3>3 DEF IInv, ControlInv
  <2> QED
    BY <2>1, <2>2, <2>3, <2>4, <2>5 DEF Next
<1> QED
  BY InitHolds, <1>1, PTL DEF Spec

\* Every variable keeps its type, for any number of lines, connections and retries.
THEOREM TypeCorrect == Spec => []TypeOK
<1>1. IInv => TypeOK
  BY DEF IInv, ControlInv
<1> QED
  BY <1>1, StreamIsWhole, PTL

\* A page shows no line twice and none out of order, however often it reconnects.
THEOREM LinesInOrder == Spec => []ShownInOrder
<1>1. IInv => ShownInOrder
  BY DEF IInv, StreamInv
<1> QED
  BY <1>1, StreamIsWhole, PTL

\* Of the lines up to the last a page has, those listeners were told of are shown, or a
\* notice says they are gone.
THEOREM NoHiddenHole == Spec => []HolesAreNoticed
<1>1. IInv => HolesAreNoticed
  BY DEF IInv, StreamInv
<1> QED
  BY <1>1, StreamIsWhole, PTL

\* A connected page that has read all it was sent has every line listeners were told of,
\* or a notice.
THEOREM NothingIsHeldBack == Spec => []NothingHeldBack
<1>1. IInv => NothingHeldBack
  <2> SUFFICES ASSUME IInv, conn, wire = <<>>, NEW n \in 1..(next - 1)
               PROVE  n \in silent \/ n <= lastSeq \/ Noticed(n)
    BY DEF NothingHeldBack
  <2>1. Accounted(n)
    <3>1. ~TellsBefore(Len(wire) + 1, n)
      BY DEF TellsBefore
    <3> QED
      BY <3>1 DEF IInv, StreamInv, AllSent
  <2>2. n \in Shown => n <= lastSeq
    BY DEF IInv, StreamInv, Behind, Shown, Noted
  <2> QED
    BY <2>1, <2>2 DEF Accounted
<1> QED
  BY <1>1, StreamIsWhole, PTL

=============================================================================
