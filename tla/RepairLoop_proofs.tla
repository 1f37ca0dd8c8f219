--------------------------- MODULE RepairLoop_proofs ---------------------------
(***************************************************************************)
(* Theorems about RepairLoop, for any memory policy, any number of repairs *)
(* and whatever the attempts print: what a rule or a raise starts has not  *)
(* run before, and what a deployment reports is the furthest it got.       *)
(***************************************************************************)
EXTENDS RepairLoop, FiniteSetTheorems, TLAPS

-----------------------------------------------------------------------------
\* The library's greatest and least elements

\* The greater of two integers is one of them, and below neither.
LEMMA MaxOfTwo ==
  ASSUME NEW a \in Int, NEW b \in Int
  PROVE  /\ Max({a, b}) \in {a, b}
         /\ Max({a, b}) >= a /\ Max({a, b}) >= b
<1>1. \E x \in {a, b} : \A y \in {a, b} : x >= y
  <2>1. CASE a >= b
    BY <2>1
  <2>2. CASE ~(a >= b)
    BY <2>2
  <2> QED BY <2>1, <2>2
<1>2. /\ Max({a, b}) \in {a, b}
      /\ \A y \in {a, b} : Max({a, b}) >= y
  BY <1>1, Zenon DEF Max
<1> QED BY <1>2

\* The lesser of two integers is one of them, and above neither.
LEMMA MinOfTwo ==
  ASSUME NEW a \in Int, NEW b \in Int
  PROVE  /\ Min({a, b}) \in {a, b}
         /\ Min({a, b}) <= a /\ Min({a, b}) <= b
<1>1. \E x \in {a, b} : \A y \in {a, b} : x <= y
  <2>1. CASE a <= b
    BY <2>1
  <2>2. CASE ~(a <= b)
    BY <2>2
  <2> QED BY <2>1, <2>2
<1>2. /\ Min({a, b}) \in {a, b}
      /\ \A y \in {a, b} : Min({a, b}) <= y
  BY <1>1, Zenon DEF Min
<1> QED BY <1>2

\* The least of three integers is one of them.
LEMMA MinOfThree ==
  ASSUME NEW a \in Int, NEW b \in Int, NEW c \in Int
  PROVE  Min({a, b, c}) \in {a, b, c}
<1>1. \E x \in {a, b, c} : \A y \in {a, b, c} : x <= y
  <2>1. CASE a <= b /\ a <= c
    BY <2>1
  <2>2. CASE b <= a /\ b <= c
    BY <2>2
  <2>3. CASE c <= a /\ c <= b
    BY <2>3
  <2> QED BY <2>1, <2>2, <2>3
<1> QED BY <1>1, Zenon DEF Min

\* Of some of the fourteen rules there is a first.
LEMMA FirstRule ==
  ASSUME NEW R \in SUBSET (1..14), R # {}
  PROVE  Min(R) \in R
<1>1. \E m \in R : \A j \in R : m <= j
  <2> SUFFICES ASSUME \A m \in R : \E j \in R : j < m
               PROVE  FALSE
    OBVIOUS
  <2>1. R \cap (1..4) = {}
    OBVIOUS
  <2>2. R \cap (1..8) = {}
    BY <2>1
  <2>3. R \cap (1..12) = {}
    BY <2>2
  <2>4. R \cap (1..14) = {}
    BY <2>3
  <2> QED BY <2>4
<1> QED BY <1>1, Zenon DEF Min

-----------------------------------------------------------------------------
\* What a rule proposes

\* A plan that is told of its database as p is.
Kept(p) == {q \in Plans : q.database = p.database}

\* What is said of an attempt that failed: a record with a socket.
Shaped(f) ==
  /\ f = [code |-> f.code, phase |-> f.phase, evidence |-> f.evidence,
          socket |-> f.socket, memory |-> f.memory, exit127 |-> f.exit127]
  /\ f.socket \in Nat

\* Every rule changes some fields of the plan, and none the database's.
LEMMA RulesKeep ==
  ASSUME NEW p \in Plans, NEW r \in Repositories, NEW f, Shaped(f), NEW text,
         NEW i \in 1..14
  PROVE  Proposals(p, r, f, text)[i] \subseteq Kept(p)
<1>1. TranspileOnly(p, r, f, text) \subseteq Kept(p)
  BY DEF TranspileOnly, Kept, Plans
<1>2. RelaxInstall(p, r, f, text) \subseteq Kept(p)
  BY DEF RelaxInstall, Kept, Plans
<1>3. LegacyPeers(p, r, f, text) \subseteq Kept(p)
  BY DEF LegacyPeers, Kept, Plans
<1>4. OtherScript(p, r, f, text) \subseteq Kept(p)
  <2>1. r.scripts \subseteq {"script:dev", "script:start"}
    BY RepositoriesAssumption
  <2>2. ASSUME \E s \in r.scripts : s # p.start
        PROVE  (CHOOSE s \in r.scripts : s # p.start) \in {"script:dev", "script:start"}
    BY <2>1, <2>2
  <2> QED BY <2>2 DEF OtherScript, Kept, Plans
<1>5. GeneratedRequirements(p, r, f, text) \subseteq Kept(p)
  BY DEF GeneratedRequirements, Kept, Plans
<1>6. InstallByName(p, r, f, text) \subseteq Kept(p)
  BY DEF InstallByName, Kept, Plans
<1>7. AddPackage(p, r, f, text) \subseteq Kept(p)
  BY DEF AddPackage, Kept, Plans
<1>8. RunAsModule(p, r, f, text) \subseteq Kept(p)
  BY DEF RunAsModule, Kept, Plans
<1>9. LegacyOpenssl(p, r, f, text) \subseteq Kept(p)
  BY DEF LegacyOpenssl, Kept, Plans
<1>10. NewerRuntime(p, r, f, text) \subseteq Kept(p)
  BY MemoryAssumption DEF NewerRuntime, Kept, Plans
<1>11. ObservedPort(p, r, f, text) \subseteq Kept(p)
  <2>1. f.socket \in Nat
    BY DEF Shaped
  <2> DEFINE moved == [p EXCEPT !.port = f.socket]
             q == [moved EXCEPT !.host = TRUE, !.loopbackFlag = FALSE, !.forced = TRUE]
  <2>2. moved \in Plans /\ moved.database = p.database
    BY <2>1 DEF Plans
  <2> HIDE DEF moved
  <2>3. q \in Plans /\ q.database = moved.database
    BY <2>2 DEF Plans
  <2>4. ObservedPort(p, r, f, text) \subseteq {q}
    BY DEF ObservedPort, moved, Plans
  <2> HIDE DEF q
  <2> QED BY <2>2, <2>3, <2>4 DEF Kept
<1>12. LoggedPort(p, r, f, text) \subseteq Kept(p)
  <2>1. r.logsPort \in Nat
    BY RepositoriesAssumption
  <2> QED BY <2>1 DEF LoggedPort, Kept, Plans
<1>13. BindAll(p, r, f, text) \subseteq Kept(p)
  BY DEF BindAll, Kept, Plans
<1>14. DocsPath(p, r, f, text) \subseteq Kept(p)
  BY DEF DocsPath, Kept, Plans
<1> QED
  BY <1>1, <1>2, <1>3, <1>4, <1>5, <1>6, <1>7, <1>8, <1>9, <1>10, <1>11, <1>12, <1>13, <1>14
  DEF Proposals

\* What the rules make of a plan is a plan, told of the database as before, and like
\* none of those tried.
LEMMA RepairIsNew ==
  ASSUME NEW p \in Plans, NEW previous, NEW r \in Repositories, NEW f, Shaped(f), NEW text,
         NEW q \in tryDeterministicRepair(p, previous, r, f, text)
  PROVE  /\ q \in Kept(p)
         /\ \A t \in {p} \cup previous : signature(q) # signature(t)
<1> DEFINE seen  == {signature(t) : t \in {p} \cup previous}
           rules == Proposals(p, r, f, text)
           fresh == {i \in DOMAIN rules \ r.refused :
                       rules[i] # {} /\ \A t \in rules[i] : signature(t) \notin seen}
<1>1. DOMAIN rules = 1..14
  BY DEF Proposals
<1>2. /\ fresh # {}
      /\ q \in rules[Min(fresh)]
  BY DEF tryDeterministicRepair
<1>3. Min(fresh) \in fresh
  BY <1>1, <1>2, FirstRule
<1>4. signature(q) \notin seen
  BY <1>2, <1>3
<1>5. q \in Kept(p)
  BY <1>1, <1>2, <1>3, RulesKeep
<1> QED BY <1>4, <1>5

-----------------------------------------------------------------------------
\* What an attempt can fail with

\* A class and a phase make a failure.
LEMMA FailureShaped ==
  ASSUME NEW code, NEW phase
  PROVE  Shaped(Failure(code, phase))
BY DEF Failure, Shaped

\* Another class, line, socket or phase leaves it one.
LEMMA ChangeShaped ==
  ASSUME NEW f, Shaped(f), NEW v
  PROVE  /\ Shaped([f EXCEPT !.evidence = v])
         /\ Shaped([f EXCEPT !.phase = v])
         /\ Shaped([f EXCEPT !.code = "OUT_OF_MEMORY", !.memory = v])
         /\ Shaped([f EXCEPT !.exit127 = v])
         /\ v \in Nat => Shaped([f EXCEPT !.socket = v])
<1>1. DOMAIN f = {"code", "phase", "evidence", "socket", "memory", "exit127"}
  BY DEF Shaped
<1>2. Shaped([f EXCEPT !.evidence = v])
  BY <1>1 DEF Shaped
<1>3. Shaped([f EXCEPT !.phase = v])
  BY <1>1 DEF Shaped
<1>4. Shaped([f EXCEPT !.code = "OUT_OF_MEMORY", !.memory = v])
  <2> DEFINE g == [f EXCEPT !.code = "OUT_OF_MEMORY"]
  <2>1. Shaped(g)
    BY <1>1 DEF Shaped
  <2>2. Shaped([g EXCEPT !.memory = v])
    <3> HIDE DEF g
    <3>1. DOMAIN g = {"code", "phase", "evidence", "socket", "memory", "exit127"}
      BY <2>1 DEF Shaped
    <3> QED BY <2>1, <3>1 DEF Shaped
  <2>3. [f EXCEPT !.code = "OUT_OF_MEMORY", !.memory = v] = [g EXCEPT !.memory = v]
    BY <1>1
  <2> QED BY <2>2, <2>3
<1>5. v \in Nat => Shaped([f EXCEPT !.socket = v])
  BY <1>1 DEF Shaped
<1>6. Shaped([f EXCEPT !.exit127 = v])
  BY <1>1 DEF Shaped
<1> QED BY <1>2, <1>3, <1>4, <1>5, <1>6

\* A verdict is a failure when the one it falls back on is.
LEMMA ClassifyShaped ==
  ASSUME NEW phase, NEW lines, NEW exit, NEW fallback, Shaped(fallback)
  PROVE  Shaped(classify(phase, lines, exit, fallback))
<1> DEFINE hits == {i \in DOMAIN SIGNATURES :
                      phase \in SIGNATURES[i].phases /\ SIGNATURES[i].line \in lines}
           first == SIGNATURES[Min(hits)]
<1>1. Shaped([Failure(first.code, phase) EXCEPT !.evidence = first.line])
  BY FailureShaped, ChangeShaped
<1>2. Shaped(Failure("OUT_OF_MEMORY", phase))
  BY FailureShaped
<1>3. Shaped([fallback EXCEPT !.evidence = CHOOSE l \in lines : TRUE])
  BY ChangeShaped
<1> HIDE DEF hits
<1> QED BY <1>1, <1>2, <1>3 DEF classify, hits

\* The memory evidence changes the class of a failure, or puts the coarse one back.
LEMMA MemoryShaped ==
  ASSUME NEW f, Shaped(f), NEW flag, NEW exit, NEW lines, NEW phase, NEW coarse, Shaped(coarse)
  PROVE  Shaped(memoryVerdict(f, flag, exit, lines, phase, coarse))
<1> DEFINE placed == IF f.phase # "none" THEN f ELSE [f EXCEPT !.phase = phase]
           oom == detectOom(flag, exit, lines)
<1>1. Shaped(placed)
  BY ChangeShaped
<1> HIDE DEF placed, oom
<1>2. Shaped([placed EXCEPT !.code = "OUT_OF_MEMORY", !.memory = oom])
  BY <1>1, ChangeShaped
<1>3. Shaped([coarse EXCEPT !.evidence = placed.evidence])
  BY ChangeShaped
<1>4. Shaped(withMemoryEvidence(placed, oom, flag, coarse))
  BY <1>1, <1>2, <1>3 DEF withMemoryEvidence
<1> QED BY <1>4 DEF memoryVerdict, placed, oom

\* However an attempt fails, what is said of it is a failure.
LEMMA FailuresShaped ==
  ASSUME NEW p \in Plans, NEW lines, NEW f \in Failures(p, lines)
  PROVE  Shaped(f)
<1>1. ASSUME NEW ph, NEW exit, NEW flag, NEW v \in CoarseExits(ph)
      PROVE  Shaped(Exited(ph, exit, flag, lines, v))
  <2> DEFINE code(g) == [g EXCEPT !.exit127 = (exit = 127)]
  <2>1. Shaped(v)
    BY FailureShaped DEF CoarseExits
  <2>2. Shaped(code(v))
    BY <2>1, ChangeShaped
  <2>3. Shaped(code(classify(ph, lines, exit, v)))
    BY <2>1, ClassifyShaped, ChangeShaped
  <2> HIDE DEF code
  <2>4. Shaped(memoryVerdict(code(classify(ph, lines, exit, v)), flag, exit, lines, ph, code(v)))
    BY <2>2, <2>3, MemoryShaped
  <2> QED BY <2>4 DEF Exited, code
<1>2. ASSUME NEW ph, NEW flag
      PROVE  Shaped(DiedUnseen(ph, 1, flag, lines))
  BY FailureShaped, MemoryShaped DEF DiedUnseen
<1>3. ASSUME NEW class, NEW q \in Nat, NEW l
      PROVE  Shaped(Seen(class, q, l))
  <2> DEFINE g == [Failure(class, "start") EXCEPT !.socket = q]
  <2>1. Shaped(g)
    BY FailureShaped, ChangeShaped
  <2>2. Seen(class, q, l) = [g EXCEPT !.evidence = l]
    BY DEF Failure, Seen
  <2> HIDE DEF g
  <2>3. Shaped([g EXCEPT !.evidence = l])
    BY <2>1, ChangeShaped
  <2> QED BY <2>2, <2>3
<1>4. ASSUME NEW u \in Unreachable(p, lines)
      PROVE  Shaped(u)
  <2>1. {1, 2} \cup {p.port} \subseteq Nat
    BY DEF Plans
  <2>2. Shaped(classify("start", lines, 0, Failure("PORT_NOT_LISTENING", "start")))
    BY FailureShaped, ClassifyShaped
  <2>3. Shaped(Failure("READINESS_TIMEOUT", "start"))
    BY FailureShaped
  <2>4. \/ \E q \in {1, 2} \cup {p.port}, l \in {"none"} \cup lines :
             u \in {Seen("PORT_BOUND_TO_LOCALHOST", q, l), Seen("PORT_NOT_LISTENING", q, l)}
        \/ u = Failure("READINESS_TIMEOUT", "start")
        \/ u = classify("start", lines, 0, Failure("PORT_NOT_LISTENING", "start"))
    BY <1>4 DEF Unreachable
  <2> QED BY <1>3, <2>1, <2>2, <2>3, <2>4
<1>5. ASSUME NEW ph, NEW d \in Deaths(p, lines, ph)
      PROVE  Shaped(d)
  BY <1>1, <1>2, <1>5 DEF Deaths
<1>6. ASSUME NEW u \in Unexplained(p)
      PROVE  Shaped(u)
  BY FailureShaped DEF Unexplained
<1>7. \/ \E ph \in Phases(p) : f \in Deaths(p, lines, ph)
      \/ f \in Unreachable(p, lines) \/ f \in Unexplained(p)
      \/ f = Failure("APPLICATION_EXITED", "start")
  <2> DEFINE P == {q \in Phases(p) : PrintedIn(lines, q)}
             D(ph) == Deaths(p, lines, ph)
             X == UNION {D(ph) : ph \in P}
             U == {u \in Unreachable(p, lines) : PrintedIn(lines, "start")}
             W == {u \in Unexplained(p) : lines = {}}
             A == {u \in {Failure("APPLICATION_EXITED", "start")} : p.forced}
  <2>1. Failures(p, lines) = X \cup U \cup W \cup A
    BY DEF Failures
  <2>2. /\ U \subseteq Unreachable(p, lines) /\ W \subseteq Unexplained(p)
        /\ A \subseteq {Failure("APPLICATION_EXITED", "start")}
    OBVIOUS
  <2>3. f \in X => \E ph \in Phases(p) : f \in Deaths(p, lines, ph)
    OBVIOUS
  <2>4. f \in Failures(p, lines)
    OBVIOUS
  <2> HIDE DEF X, U, W, A
  <2>5. f \in X \/ f \in U \/ f \in W \/ f \in A
    BY <2>1, <2>4
  <2> QED BY <2>2, <2>3, <2>5
<1>8. Shaped(Failure("APPLICATION_EXITED", "start"))
  BY FailureShaped
<1> QED BY <1>4, <1>5, <1>6, <1>7, <1>8

-----------------------------------------------------------------------------
\* The inductive invariant, in parts

Stages == {"start", "running", "judged", "asking", "modelAsked"} \cup Ended

TypeOK ==
  /\ repo \in Repositories /\ project \in BOOLEAN /\ databases \in BOOLEAN /\ model \in BOOLEAN
  /\ stage \in Stages /\ by \in {"person", "rule", "memory", "model"}
  /\ plan \in Plans /\ tried \in SUBSET Plans
  /\ mb \in Nat /\ raises \in Nat /\ heap \in Nat
  /\ aiCalls \in 0..1 /\ asked \in SUBSET Settings
  /\ Shaped(outcome) /\ Shaped(failure) /\ Shaped(kept) /\ exhausted \in BOOLEAN
  /\ furthest \in 0..3 /\ before \in 0..3 /\ threw \in BOOLEAN

\* What a deployment may spend: so many plans, raises of memory and calls of a model.
Budgets ==
  /\ IsFiniteSet(tried) /\ Cardinality(tried) <= MaxRepairs
  /\ stage = "modelAsked" => Cardinality(tried) < MaxRepairs /\ aiCalls = 1
  /\ raises <= RetryLimit

\* The diagnosis that is kept is of the furthest phase, unless it has no place.
Reports ==
  stage \in {"start", "running", "judged", "modelAsked", "FAILED"} /\ ~exhausted /\ ~threw =>
    /\ failure = NoFailure => furthest = 0
    /\ PhaseOrder(failure) > 0 => furthest = PhaseOrder(failure)

\* What the frame of a model's repair holds is of the phase reached when it asked, and
\* it is what is reported when a start within it throws.
Frames ==
  /\ threw => stage = "FAILED"
  /\ ~exhausted => /\ PhaseOrder(kept) > 0 => before = PhaseOrder(kept)
                   /\ threw /\ PhaseOrder(failure) > 0 => before = PhaseOrder(failure)

\* The plan is the one that runs, told of its database; a model's and a first one
\* are told when they start.
Wired ==
  databases /\ stage \notin Ended /\ (stage = "start" => by \in {"rule", "memory"})
    => plan.database = TRUE

\* What ran since a person answered: a plan that was replaced, or the present one.
Known ==
  /\ stage = "start" /\ by = "person" => launched = {}
  /\ \A e \in launched :
       \E q \in tried \cup (IF stage = "start" /\ by \in {"rule", "model"} THEN {} ELSE {plan}) :
          e.plan = signature(q)

\* A rule's plan is none of those replaced.
Fresh ==
  stage = "start" /\ by = "rule" => \A q \in tried : signature(plan) # signature(q)

\* Limits only rise; at one limit the heap is set at most once; and what a raise
\* starts is above everything that ran.
Ladder ==
  /\ heap \in {0, nodeHeapMbFor(mb)}
  /\ \A e \in launched :
       /\ e.mb \in Nat /\ e.heap \in Nat
       /\ e.mb < mb \/ (e.mb = mb /\ (heap = 0 => e.heap = 0))
       /\ stage = "start" /\ by = "memory" =>
            e.mb < mb \/ (e.heap = 0 /\ heap # 0)

IInv == TypeOK /\ Budgets /\ Reports /\ Frames /\ Wired /\ Known /\ Fresh /\ Ladder

-----------------------------------------------------------------------------
\* The memory ladder

\* The ceiling is a limit.
LEMMA CeilingType == Ceiling \in Nat
BY MaxOfTwo, MemoryAssumption DEF Ceiling

\* A heap is never set to nothing.
LEMMA HeapType ==
  ASSUME NEW m \in Nat
  PROVE  nodeHeapMbFor(m) \in Nat /\ nodeHeapMbFor(m) >= 128
<1> DEFINE most == (3 * m) \div 4
           left == m - 256
           within == Min({most, left})
<1>1. most \in Int /\ left \in Int
  OBVIOUS
<1> HIDE DEF most, left
<1>2. within \in Int
  <2>1. within \in {most, left}
    BY <1>1, MinOfTwo
  <2> QED BY <1>1, <2>1
<1> HIDE DEF within
<1>3. /\ Max({128, within}) \in {128, within}
      /\ Max({128, within}) >= 128
  BY <1>2, MaxOfTwo
<1>4. nodeHeapMbFor(m) = Max({128, within})
  BY DEF nodeHeapMbFor, within, most, left
<1> QED BY <1>2, <1>3, <1>4

\* The next limit is above the one that was not enough, while a raise is left.
LEMMA NextIsMore ==
  ASSUME NEW m \in Nat, NEW n \in Nat, NEW free \in Int, NEW next \in nextMemoryMb(m, n, free)
  PROVE  next \in Nat /\ next > m /\ n < RetryLimit
<1> DEFINE wanted == IF StepMb > 0 THEN m + StepMb ELSE 2 * m
           least == Min({wanted, Ceiling} \cup IF free < 0 THEN {} ELSE {free})
<1>1. wanted \in Int /\ Ceiling \in Int
  BY MemoryAssumption, CeilingType
<1> HIDE DEF wanted
<1>2. least \in Int
  <2>1. CASE free < 0
    <3>1. {wanted, Ceiling} \cup (IF free < 0 THEN {} ELSE {free}) = {wanted, Ceiling}
      BY <2>1
    <3> QED BY <1>1, <3>1, MinOfTwo
  <2>2. CASE ~(free < 0)
    <3>1. {wanted, Ceiling} \cup (IF free < 0 THEN {} ELSE {free}) = {wanted, Ceiling, free}
      BY <2>2
    <3>2. Min({wanted, Ceiling, free}) \in {wanted, Ceiling, free}
      BY <1>1, MinOfThree
    <3> QED BY <1>1, <3>1, <3>2
  <2> QED BY <2>1, <2>2
<1>3. next = least /\ least > m /\ n < RetryLimit
  BY DEF nextMemoryMb, least, wanted
<1> HIDE DEF least
<1> QED BY <1>2, <1>3

\* A phase has one of four places.
LEMMA PhaseType ==
  ASSUME NEW f
  PROVE  PhaseOrder(f) \in 0..3
BY DEF PhaseOrder

\* No failure has no place.
LEMMA NoPlace == PhaseOrder(NoFailure) = 0
BY DEF PhaseOrder, NoFailure, Failure

-----------------------------------------------------------------------------
\* Typing, action by action

\* A plan that is provisioned is a plan.
LEMMA ProvisionedType ==
  ASSUME NEW p \in Plans
  PROVE  Provisioned(p) \in Plans
<1>1. [p EXCEPT !.database = TRUE] \in Plans
  BY DEF Plans
<1> QED BY <1>1 DEF Provisioned

\* What the planner makes of a repository is a plan.
LEMMA FirstPlanType ==
  ASSUME NEW r \in Repositories, NEW given \in SUBSET Settings
  PROVE  /\ FirstPlan(r) \in Plans
         /\ [FirstPlan(r) EXCEPT !.given = given] \in Plans
<1>1. 1 \in 1..Newest
  BY MemoryAssumption
<1>2. FirstPlan(r) \in Plans
  BY <1>1 DEF FirstPlan, Plans
<1> QED BY <1>2 DEF Plans

\* The types, action by action.
LEMMA InitType == Init => TypeOK
<1> SUFFICES ASSUME Init
             PROVE  TypeOK
  OBVIOUS
<1>1. plan \in Plans
  BY FirstPlanType DEF Init
<1>2. mb \in Nat
  BY CeilingType, MemoryAssumption DEF Init
<1>3. Shaped(outcome) /\ Shaped(failure) /\ Shaped(kept)
  BY FailureShaped DEF Init, NoFailure
<1>4. project \in BOOLEAN /\ databases \in BOOLEAN /\ model \in BOOLEAN
  BY ChoicesAssumption DEF Init
<1>5. /\ repo \in Repositories /\ stage \in Stages /\ tried \in SUBSET Plans
      /\ by \in {"person", "rule", "memory", "model"}
  BY DEF Init, Stages
<1>6. raises \in Nat /\ heap \in Nat /\ aiCalls \in 0..1 /\ furthest \in 0..3
      /\ before \in 0..3 /\ asked \in SUBSET Settings
  BY DEF Init
<1>7. exhausted \in BOOLEAN /\ threw \in BOOLEAN
  BY Zenon DEF Init
<1> QED BY <1>1, <1>2, <1>3, <1>4, <1>5, <1>6, <1>7 DEF TypeOK

\* Starting again changes no type.
LEMMA StartAgainType ==
  ASSUME NEW cause \in {"person", "rule", "memory", "model"}, StartAgain(cause)
  PROVE  stage' \in Stages /\ by' \in {"person", "rule", "memory", "model"} /\ Shaped(outcome')
BY FailureShaped DEF StartAgain, Stages, NoFailure

\* Nor does giving up.
LEMMA GaveUpType ==
  ASSUME GaveUp
  PROVE  stage' \in Stages /\ Shaped(outcome')
BY FailureShaped DEF GaveUp, Over, Stages, Ended, NoFailure

\* A deployment that is over says nothing more of its attempt.
LEMMA OverType ==
  ASSUME Over
  PROVE  Shaped(outcome')
BY FailureShaped DEF Over, NoFailure

LEMMA RefuseImpossibleType ==
  ASSUME TypeOK, RefuseImpossible
  PROVE  TypeOK'
<1>1. Shaped(failure')
  BY FailureShaped DEF RefuseImpossible, TypeOK
<1> QED BY <1>1 DEF RefuseImpossible, TypeOK, Stages, Ended, fixed, memory, attempt, frame, history

LEMMA LaunchType ==
  ASSUME TypeOK, Launch
  PROVE  TypeOK'
<1>1. plan' \in Plans
  BY ProvisionedType DEF Launch, TypeOK
<1> QED BY <1>1 DEF Launch, TypeOK, Stages, fixed, memory, attempt, verdict, frame

LEMMA RestartFailsType ==
  ASSUME TypeOK, RestartFails
  PROVE  TypeOK'
BY GaveUpType DEF RestartFails, TypeOK, fixed, memory, verdict, frame, history

LEMMA StartThrowsType ==
  ASSUME TypeOK, StartThrows
  PROVE  TypeOK'
<1>1. Shaped(failure')
  BY FailureShaped DEF StartThrows, TypeOK
<1>2. stage' \in Stages /\ Shaped(outcome')
  BY OverType DEF StartThrows, Stages, Ended
<1>3. threw' \in BOOLEAN
  BY DEF StartThrows
<1> QED BY <1>1, <1>2, <1>3 DEF StartThrows, TypeOK, fixed, memory, frame

LEMMA ServesType ==
  ASSUME TypeOK, Serves
  PROVE  TypeOK'
<1>1. Shaped(failure')
  BY FailureShaped DEF Serves, NoFailure
<1>2. stage' \in Stages /\ Shaped(outcome')
  BY OverType DEF Serves, Stages, Ended
<1> QED BY <1>1, <1>2 DEF Serves, TypeOK, fixed, memory, frame, history

LEMMA FailsType ==
  ASSUME TypeOK, Fails
  PROVE  TypeOK'
<1>1. Shaped(outcome')
  BY FailuresShaped DEF Fails, TypeOK
<1>2. Shaped(failure')
  BY <1>1 DEF Fails, TypeOK
<1>3. furthest' \in 0..3
  <2>1. PhaseOrder(outcome') \in 0..3
    BY PhaseType
  <2>2. PhaseOrder(outcome') \in Int /\ furthest \in Int
    BY <2>1 DEF TypeOK
  <2>3. Max({furthest, PhaseOrder(outcome')}) \in {furthest, PhaseOrder(outcome')}
    BY <2>2, MaxOfTwo
  <2>4. furthest' = Max({furthest, PhaseOrder(outcome')})
    BY DEF Fails
  <2> QED BY <2>1, <2>3, <2>4 DEF TypeOK
<1> QED BY <1>1, <1>2, <1>3 DEF Fails, TypeOK, Stages, fixed, memory, frame

\* What is asked about are settings that nobody was asked for before, and some.
LEMMA AskedMore ==
  ASSUME TypeOK, AskForSetting
  PROVE  /\ asked' \in SUBSET Settings
         /\ \E k \in Settings \ asked : asked \cup {k} \subseteq asked'
<1>1. PICK keys \in SUBSET Names(outcome) : keys # {} /\ asked' = asked \cup keys
  BY DEF AskForSetting
<1>2. Names(outcome) \subseteq Settings \ asked
  BY DEF Names
<1> QED BY <1>1, <1>2 DEF TypeOK

LEMMA AskForSettingType ==
  ASSUME TypeOK, AskForSetting
  PROVE  TypeOK'
<1>1. Shaped(failure') /\ Shaped(kept') /\ before' = 0
  BY FailureShaped DEF AskForSetting, NoFailure
<1>2. asked' \in SUBSET Settings
  BY AskedMore
<1> QED BY <1>1, <1>2 DEF AskForSetting, TypeOK, Stages, fixed, memory, attempt, history

LEMMA AnsweredType ==
  ASSUME TypeOK, Answered
  PROVE  TypeOK'
<1>1. plan' \in Plans
  <2>1. PICK values \in SUBSET asked :
          plan' = [(IF project THEN FirstPlan(repo) ELSE plan) EXCEPT !.given = plan.given \cup values]
    BY DEF Answered
  <2>2. plan.given \cup values \in SUBSET Settings
    BY DEF TypeOK, Plans
  <2>3. CASE project
    BY <2>1, <2>2, <2>3, FirstPlanType DEF TypeOK
  <2>4. CASE ~project
    BY <2>1, <2>2, <2>4 DEF TypeOK, Plans
  <2> QED BY <2>3, <2>4
<1>2. tried' \in SUBSET Plans /\ mb' \in Nat /\ raises' \in Nat /\ heap' \in Nat
  BY CeilingType, MemoryAssumption DEF Answered, TypeOK, memory
<1>3. Shaped(failure')
  BY FailureShaped DEF Answered, NoFailure
<1>4. stage' \in Stages /\ by' \in {"person", "rule", "memory", "model"} /\ Shaped(outcome')
  BY StartAgainType DEF Answered
<1> QED BY <1>1, <1>2, <1>3, <1>4 DEF Answered, TypeOK, fixed, frame

LEMMA UnansweredType ==
  ASSUME TypeOK, Unanswered
  PROVE  TypeOK'
<1>1. Shaped(failure') /\ Shaped(outcome')
  BY FailureShaped, OverType DEF Unanswered
<1> QED BY <1>1 DEF Unanswered, TypeOK, Stages, Ended, fixed, memory, frame, history

LEMMA RaiseHeapType ==
  ASSUME TypeOK, RaiseHeap
  PROVE  TypeOK'
<1>1. heap' \in Nat /\ raises' \in Nat
  BY HeapType DEF RaiseHeap, TypeOK
<1>2. stage' \in Stages /\ by' \in {"person", "rule", "memory", "model"} /\ Shaped(outcome')
  BY StartAgainType DEF RaiseHeap
<1> QED BY <1>1, <1>2 DEF RaiseHeap, TypeOK, fixed, verdict, frame, history

LEMMA RaiseLimitType ==
  ASSUME TypeOK, RaiseLimit
  PROVE  TypeOK'
<1>1. mb' \in Nat
  BY NextIsMore, ChoicesAssumption DEF RaiseLimit, TypeOK
<1>2. heap' \in Nat /\ raises' \in Nat
  BY <1>1, HeapType DEF RaiseLimit, TypeOK
<1>3. stage' \in Stages /\ by' \in {"person", "rule", "memory", "model"} /\ Shaped(outcome')
  BY StartAgainType DEF RaiseLimit
<1> QED BY <1>1, <1>2, <1>3 DEF RaiseLimit, TypeOK, fixed, verdict, frame, history

LEMMA RepairByRuleType ==
  ASSUME TypeOK, RepairByRule
  PROVE  TypeOK'
<1>1. plan' \in Plans
  BY RepairIsNew DEF RepairByRule, TypeOK, Kept
<1>2. tried' \in SUBSET Plans
  BY DEF RepairByRule, TypeOK
<1>3. stage' \in Stages /\ by' \in {"person", "rule", "memory", "model"} /\ Shaped(outcome')
  BY StartAgainType DEF RepairByRule
<1> QED BY <1>1, <1>2, <1>3 DEF RepairByRule, TypeOK, fixed, memory, verdict, frame, history

LEMMA AskModelType ==
  ASSUME TypeOK, AskModel
  PROVE  TypeOK'
<1>1. aiCalls' \in 0..1
  BY DEF AskModel, MayAsk, AiCalls, TypeOK
<1>2. Shaped(kept') /\ before' \in 0..3
  BY DEF AskModel, TypeOK
<1> QED BY <1>1, <1>2 DEF AskModel, TypeOK, Stages, fixed, memory, attempt, verdict, history

LEMMA ModelAnswersType ==
  ASSUME TypeOK, ModelAnswers
  PROVE  TypeOK'
<1>1. plan' \in Plans
  BY DEF ModelAnswers
<1>2. tried' \in SUBSET Plans
  BY DEF ModelAnswers, TypeOK
<1>3. stage' \in Stages /\ by' \in {"person", "rule", "memory", "model"} /\ Shaped(outcome')
  BY StartAgainType DEF ModelAnswers
<1> QED BY <1>1, <1>2, <1>3 DEF ModelAnswers, TypeOK, fixed, memory, verdict, frame, history

LEMMA ModelFailsType ==
  ASSUME TypeOK, ModelFails
  PROVE  TypeOK'
BY GaveUpType DEF ModelFails, TypeOK, fixed, memory, verdict, frame, history

LEMMA MemoryExhaustedType ==
  ASSUME TypeOK, MemoryExhausted
  PROVE  TypeOK'
BY GaveUpType DEF MemoryExhausted, TypeOK, fixed, memory, frame, history

LEMMA GiveUpType ==
  ASSUME TypeOK, GiveUp
  PROVE  TypeOK'
BY GaveUpType DEF GiveUp, TypeOK, fixed, memory, verdict, frame, history

\* Every step keeps the types.
LEMMA StepType ==
  ASSUME TypeOK, [Next]_vars
  PROVE  TypeOK'
<1>1. CASE UNCHANGED vars
  BY <1>1 DEF vars, TypeOK, fixed, memory, attempt, verdict, frame, history
<1>2. CASE Next
  BY <1>2, RefuseImpossibleType, LaunchType, RestartFailsType, StartThrowsType, ServesType,
     FailsType, AskForSettingType, AnsweredType, UnansweredType, RaiseHeapType, RaiseLimitType,
     RepairByRuleType, AskModelType, ModelAnswersType, ModelFailsType, MemoryExhaustedType,
     GiveUpType DEF Next
<1> QED BY <1>1, <1>2

-----------------------------------------------------------------------------
\* The diagnosis that is kept

\* The furthest phase is as far as before, or where the attempt failed.
LEMMA FurthestMoves ==
  ASSUME TypeOK, Fails
  PROVE  /\ furthest' \in {furthest, PhaseOrder(outcome')}
         /\ furthest' >= furthest /\ furthest' >= PhaseOrder(outcome')
<1>1. PhaseOrder(outcome') \in Int /\ furthest \in Int
  BY PhaseType DEF TypeOK
<1>2. furthest' = Max({furthest, PhaseOrder(outcome')})
  BY DEF Fails
<1> QED BY <1>1, <1>2, MaxOfTwo

\* A failure is reported when it got further, and kept when it did not.
LEMMA FailsReports ==
  ASSUME TypeOK, Reports, Fails
  PROVE  Reports'
<1> SUFFICES ASSUME ~exhausted, ~threw
             PROVE  /\ failure' = NoFailure => furthest' = 0
                    /\ PhaseOrder(failure') > 0 => furthest' = PhaseOrder(failure')
  BY DEF Reports, Fails
<1>1. /\ failure = NoFailure => furthest = 0
      /\ PhaseOrder(failure) > 0 => furthest = PhaseOrder(failure)
  BY DEF Reports, Fails
<1>2. /\ PhaseOrder(outcome') \in 0..3 /\ PhaseOrder(failure) \in 0..3 /\ furthest \in 0..3
      /\ PhaseOrder(NoFailure) = 0
  BY PhaseType, NoPlace DEF TypeOK
<1>3. /\ furthest' \in {furthest, PhaseOrder(outcome')}
      /\ furthest' >= furthest /\ furthest' >= PhaseOrder(outcome')
  BY FurthestMoves
<1>4. CASE failure = NoFailure
  <2>1. failure' = outcome'
    BY <1>4 DEF Fails
  <2> QED BY <1>1, <1>2, <1>3, <1>4, <2>1
<1>5. CASE failure # NoFailure /\ progressedPast(failure, outcome')
  <2>1. failure' = outcome'
    BY <1>5 DEF Fails
  <2>2. outcome' # NoFailure /\ PhaseOrder(failure) > 0
        /\ PhaseOrder(outcome') >= PhaseOrder(failure)
    BY <1>2, <1>5 DEF progressedPast
  <2> QED BY <1>1, <1>2, <1>3, <2>1, <2>2
<1>6. CASE failure # NoFailure /\ ~progressedPast(failure, outcome')
  <2>1. failure' = failure
    BY <1>6 DEF Fails
  <2>2. PhaseOrder(failure) > 0 => PhaseOrder(outcome') <= PhaseOrder(failure)
    BY <1>2, <1>6, NoPlace DEF progressedPast
  <2> QED BY <1>1, <1>2, <1>3, <1>6, <2>1, <2>2
<1> QED BY <1>4, <1>5, <1>6

\* A plan nobody can run is refused with the diagnosis there was, or one without a
\* place.
LEMMA RefuseReports ==
  ASSUME TypeOK, Reports, RefuseImpossible
  PROVE  Reports'
<1> DEFINE own == Failure(IF plan.fromModel THEN "INVALID_AI_PLAN" ELSE "UNSUPPORTED_PROJECT", "none")
<1>1. own # NoFailure /\ PhaseOrder(own) = 0
  BY DEF NoFailure, Failure, PhaseOrder
<1> HIDE DEF own
<1>2. failure' \in {failure, own} /\ (failure' = NoFailure => FALSE)
  BY <1>1 DEF RefuseImpossible, own
<1>3. UNCHANGED <<furthest, exhausted, threw>> /\ stage = "start"
  BY DEF RefuseImpossible, history
<1> QED BY <1>1, <1>2, <1>3 DEF Reports

\* Every step keeps what is reported the furthest.
LEMMA StepReports ==
  ASSUME TypeOK, Reports, [Next]_vars
  PROVE  Reports'
<1> DEFINE Open == {"start", "running", "judged", "modelAsked", "FAILED"}
<1>1. CASE UNCHANGED vars
  BY <1>1 DEF vars, Reports, verdict, history
<1>2. CASE RefuseImpossible
  BY <1>2, RefuseReports
<1>3. CASE Launch
  BY <1>3 DEF Launch, Reports, verdict
<1>4. CASE Serves
  BY <1>4 DEF Serves, Reports
<1>5. CASE Fails
  BY <1>5, FailsReports
<1>6. CASE AskForSetting
  BY <1>6 DEF AskForSetting, Reports
<1>7. CASE Answered
  BY <1>7, NoPlace DEF Answered, Reports
<1>8. CASE Unanswered
  BY <1>8 DEF Unanswered, Reports
<1>9. CASE RaiseHeap \/ RaiseLimit \/ RepairByRule \/ AskModel \/ ModelAnswers
  <2>1. stage \in {"judged", "modelAsked"} /\ UNCHANGED <<failure, furthest, exhausted, threw>>
    BY <1>9 DEF RaiseHeap, RaiseLimit, RepairByRule, AskModel, ModelAnswers, OutOfMemory,
       Repairable, verdict, history
  <2> QED BY <2>1 DEF Reports
<1>10. CASE RestartFails \/ ModelFails \/ GiveUp
  <2>1. /\ stage \in {"start", "judged", "modelAsked"}
        /\ UNCHANGED <<failure, furthest, exhausted, threw>>
    BY <1>10 DEF RestartFails, RestartFailing, ModelFails, GiveUp, verdict, history
  <2> QED BY <2>1 DEF Reports
<1>11. CASE MemoryExhausted
  BY <1>11 DEF MemoryExhausted, Reports
<1>12. CASE StartThrows
  <2>1. ~threw' => failure' = Failure("UNKNOWN_RUNTIME_ERROR", "none")
    BY <1>12 DEF StartThrows
  <2>2. /\ Failure("UNKNOWN_RUNTIME_ERROR", "none") # NoFailure
        /\ PhaseOrder(Failure("UNKNOWN_RUNTIME_ERROR", "none")) = 0
    BY DEF NoFailure, Failure, PhaseOrder
  <2> QED BY <2>1, <2>2 DEF Reports
<1> QED BY <1>1, <1>2, <1>3, <1>4, <1>5, <1>6, <1>7, <1>8, <1>9, <1>10, <1>11, <1>12 DEF Next

\* Every step keeps what the frame of a model's repair holds.
LEMMA StepFrames ==
  ASSUME TypeOK, Reports, Frames, [Next]_vars
  PROVE  Frames'
<1>1. CASE UNCHANGED vars
  BY <1>1 DEF vars, Frames, verdict, frame, history
<1>2. CASE UNCHANGED <<kept, before, threw>> /\ stage # "FAILED" /\ (exhausted => exhausted')
  BY <1>2 DEF Frames, TypeOK
<1>3. CASE RefuseImpossible \/ Launch \/ RestartFails \/ Serves \/ Fails \/ Answered \/ Unanswered
  <2>1. UNCHANGED <<kept, before, threw>> /\ stage # "FAILED" /\ (exhausted => exhausted')
    BY <1>3 DEF RefuseImpossible, Launch, RestartFails, RestartFailing, Serves, Fails, Answered,
       Unanswered, verdict, frame, history
  <2> QED BY <1>2, <2>1
<1>4. CASE RaiseHeap \/ RaiseLimit \/ RepairByRule \/ ModelAnswers \/ ModelFails \/ MemoryExhausted \/ GiveUp
  <2>1. UNCHANGED <<kept, before, threw>> /\ stage # "FAILED" /\ (exhausted => exhausted')
    BY <1>4 DEF RaiseHeap, RaiseLimit, RepairByRule, ModelAnswers, ModelFails, MemoryExhausted,
       GiveUp, OutOfMemory, Repairable, verdict, frame, history
  <2> QED BY <1>2, <2>1
<1>5. CASE AskForSetting
  BY <1>5, NoPlace DEF AskForSetting, Frames, history
<1>6. CASE AskModel
  <2>1. /\ stage = "judged" /\ stage' = "modelAsked" /\ kept' = failure /\ before' = furthest
        /\ UNCHANGED <<exhausted, threw, failure>>
    BY <1>6 DEF AskModel, Repairable, verdict, history
  <2>2. ~threw
    BY <2>1 DEF Frames
  <2> QED BY <2>1, <2>2 DEF Frames, Reports
<1>7. CASE StartThrows
  <2>1. /\ stage' = "FAILED" /\ UNCHANGED <<kept, before, exhausted>>
        /\ threw' => failure' = kept
    BY <1>7 DEF StartThrows, frame
  <2> QED BY <2>1 DEF Frames
<1> QED BY <1>1, <1>3, <1>4, <1>5, <1>6, <1>7 DEF Next

-----------------------------------------------------------------------------
\* What a deployment may spend

\* No step overspends.
LEMMA StepBudgets ==
  ASSUME TypeOK, Budgets, [Next]_vars
  PROVE  Budgets'
<1> USE MemoryAssumption
<1> DEFINE Resting == stage' # "modelAsked"
<1>0. IsFiniteSet(tried) /\ Cardinality(tried) \in Nat
  BY FS_CardinalityType DEF Budgets
<1>1. CASE UNCHANGED <<tried, raises>> /\ Resting
  BY <1>1 DEF Budgets
<1>2. CASE Answered
  <2>1. tried' \in {tried, {}} /\ raises' \in {raises, 0} /\ Resting
    BY <1>2 DEF Answered, StartAgain, memory
  <2> QED BY <2>1, FS_EmptySet DEF Budgets
<1>3. CASE RaiseHeap
  <2>1. UNCHANGED tried /\ raises' = raises + 1 /\ raises < RetryLimit /\ Resting
    BY <1>3 DEF RaiseHeap, HeapFirst, StartAgain
  <2> QED BY <2>1 DEF Budgets, TypeOK
<1>4. CASE RaiseLimit
  <2>1. UNCHANGED tried /\ raises' = raises + 1 /\ raises < RetryLimit /\ Resting
    BY <1>4, NextIsMore, ChoicesAssumption DEF RaiseLimit, StartAgain, TypeOK
  <2> QED BY <2>1 DEF Budgets, TypeOK
<1>5. CASE RepairByRule \/ ModelAnswers
  <2>1. /\ tried' = tried \cup {plan} /\ UNCHANGED raises /\ Resting
        /\ Cardinality(tried) < MaxRepairs
    BY <1>5 DEF RepairByRule, ModelAnswers, UnderLimit, StartAgain, memory, Budgets
  <2>2. /\ IsFiniteSet(tried \cup {plan})
        /\ Cardinality(tried \cup {plan}) \in {Cardinality(tried), Cardinality(tried) + 1}
    BY <1>0, FS_AddElement
  <2> QED BY <1>0, <2>1, <2>2 DEF Budgets
<1>6. CASE AskModel
  <2>1. aiCalls' = 1
    BY <1>6 DEF AskModel, MayAsk, AiCalls, TypeOK
  <2> QED BY <1>6, <2>1 DEF AskModel, UnderLimit, Budgets, memory
<1>7. CASE AskForSetting
  BY <1>7 DEF AskForSetting, Budgets, memory
<1>8. CASE UNCHANGED vars
  BY <1>8 DEF vars, memory, Budgets
<1>9. CASE RefuseImpossible \/ Launch \/ StartThrows \/ Serves \/ Fails \/ Unanswered
  <2>1. UNCHANGED <<tried, raises>> /\ Resting
    BY <1>9 DEF RefuseImpossible, Launch, StartThrows, Serves, Fails, Unanswered, memory
  <2> QED BY <1>1, <2>1
<1>10. CASE RestartFails \/ ModelFails \/ MemoryExhausted \/ GiveUp
  <2>1. UNCHANGED <<tried, raises>> /\ Resting
    BY <1>10 DEF RestartFails, ModelFails, MemoryExhausted, GiveUp, GaveUp, memory
  <2> QED BY <1>1, <2>1
<1> QED BY <1>2, <1>3, <1>4, <1>5, <1>6, <1>7, <1>8, <1>9, <1>10 DEF Next

-----------------------------------------------------------------------------
\* The plans that ran

\* Telling a plan that was told of its database changes nothing.
LEMMA ProvisionedAlready ==
  ASSUME NEW p \in Plans, databases => p.database = TRUE
  PROVE  Provisioned(p) = p
<1>1. p.database = TRUE => [p EXCEPT !.database = TRUE] = p
  BY DEF Plans
<1> QED BY <1>1 DEF Provisioned

\* A deployment that goes on with the plan it has.
LEMMA SamePlan ==
  ASSUME TypeOK, Wired, Known, stage \in {"running", "judged", "asking", "modelAsked"},
         UNCHANGED <<databases, plan, tried, launched>>,
         stage' = "start" => by' = "memory"
  PROVE  Wired' /\ Known' /\ Fresh'
<1>1. Wired'
  BY DEF Wired, Ended
<1>2. Known'
  <2>1. \A e \in launched : \E q \in tried \cup {plan} : e.plan = signature(q)
    BY DEF Known
  <2>2. ~(stage' = "start" /\ by' \in {"rule", "model"})
    OBVIOUS
  <2>3. ~(stage' = "start" /\ by' = "person")
    OBVIOUS
  <2> QED BY <2>1, <2>2, <2>3 DEF Known
<1>3. Fresh'
  BY DEF Fresh
<1> QED BY <1>1, <1>2, <1>3

\* A launch adds its plan to those that ran, and leaves what was tried.
LEMMA LaunchPlans ==
  ASSUME TypeOK, Wired, Known, Launch
  PROVE  Wired' /\ Known' /\ Fresh'
<1>1. /\ plan' = Provisioned(plan) /\ stage = "start" /\ stage' = "running"
      /\ launched' = launched \cup {[plan |-> signature(plan'), mb |-> mb, heap |-> heap]}
      /\ UNCHANGED <<databases, by, tried>>
  BY DEF Launch, fixed
<1>2. Wired'
  <2>1. plan \in Plans
    BY DEF TypeOK
  <2>2. databases => plan'.database = TRUE
    BY <1>1, <2>1 DEF Provisioned, Plans
  <2> QED BY <1>1, <2>2 DEF Wired
<1>3. Known'
  <2> SUFFICES ASSUME NEW e \in launched'
               PROVE  \E q \in tried' \cup {plan'} : e.plan = signature(q)
    BY <1>1 DEF Known
  <2>1. CASE e \notin launched
    <3>1. e.plan = signature(plan')
      BY <1>1, <2>1
    <3> QED BY <3>1
  <2>2. CASE e \in launched /\ by \in {"rule", "model"}
    BY <1>1, <2>2 DEF Known
  <2>3. CASE e \in launched /\ by = "memory"
    <3>1. plan' = plan
      BY <1>1, <2>3, ProvisionedAlready DEF Wired, TypeOK, Ended
    <3> QED BY <1>1, <2>3, <3>1 DEF Known
  <2>4. CASE e \in launched /\ by = "person"
    BY <1>1, <2>4 DEF Known
  <2> QED BY <2>1, <2>2, <2>3, <2>4 DEF TypeOK
<1>4. Fresh'
  BY <1>1 DEF Fresh
<1> QED BY <1>2, <1>3, <1>4

\* A repair replaces the plan by one told of the database as it was; a rule's is
\* like none of those replaced.
LEMMA RepairByRulePlans ==
  ASSUME TypeOK, Wired, Known, RepairByRule
  PROVE  Wired' /\ Known' /\ Fresh'
<1>1. /\ stage = "judged" /\ stage' = "start" /\ by' = "rule"
      /\ tried' = tried \cup {plan} /\ UNCHANGED <<databases, launched>>
  BY DEF RepairByRule, Repairable, StartAgain, fixed, history
<1>2. /\ plan' \in Kept(plan)
      /\ \A t \in {plan} \cup tried : signature(plan') # signature(t)
  BY RepairIsNew DEF RepairByRule, TypeOK
<1>3. Wired'
  BY <1>1, <1>2 DEF Wired, Kept, Ended
<1>4. Known'
  BY <1>1 DEF Known
<1>5. Fresh'
  BY <1>1, <1>2 DEF Fresh
<1> QED BY <1>3, <1>4, <1>5

\* What a model answers is started with the plan it replaces among those tried.
LEMMA ModelAnswersPlans ==
  ASSUME TypeOK, Wired, Known, ModelAnswers
  PROVE  Wired' /\ Known' /\ Fresh'
<1>1. /\ stage = "modelAsked" /\ stage' = "start" /\ by' = "model"
      /\ tried' = tried \cup {plan} /\ UNCHANGED <<databases, launched>>
  BY DEF ModelAnswers, StartAgain, fixed, history
<1>2. Known'
  BY <1>1 DEF Known
<1> QED BY <1>1, <1>2 DEF Wired, Fresh

\* Every step keeps what is known of the plans that ran.
LEMMA StepPlans ==
  ASSUME TypeOK, Wired, Known, Fresh, [Next]_vars
  PROVE  Wired' /\ Known' /\ Fresh'
<1>1. CASE UNCHANGED vars
  BY <1>1 DEF vars, fixed, history, Wired, Known, Fresh
<1>2. CASE RefuseImpossible \/ RestartFails \/ StartThrows
  <2>1. /\ stage \in {"start", "running"} /\ stage' \in Ended
        /\ UNCHANGED <<databases, plan, tried, launched, by>>
    BY <1>2 DEF RefuseImpossible, RestartFails, RestartFailing, StartThrows, GaveUp, Ended, fixed, history
  <2>2. stage' # "start"
    BY <2>1 DEF Ended
  <2>3. Known'
    BY <2>1, <2>2 DEF Known
  <2> QED BY <2>1, <2>2, <2>3 DEF Wired, Fresh
<1>3. CASE Launch
  BY <1>3, LaunchPlans
<1>4. CASE Serves \/ Fails \/ AskForSetting \/ Unanswered \/ AskModel
  <2>1. /\ stage \in {"running", "judged", "asking", "modelAsked"} /\ stage' # "start"
        /\ UNCHANGED <<databases, plan, tried, launched>>
    BY <1>4 DEF Serves, Fails, AskForSetting, Unanswered, AskModel, Repairable, fixed, history
  <2> QED BY <2>1, SamePlan
<1>5. CASE Answered
  BY <1>5 DEF Answered, StartAgain, Wired, Known, Fresh
<1>6. CASE RaiseHeap \/ RaiseLimit
  <2>1. /\ stage = "judged" /\ by' = "memory"
        /\ UNCHANGED <<databases, plan, tried, launched>>
    BY <1>6 DEF RaiseHeap, RaiseLimit, OutOfMemory, Repairable, StartAgain, fixed, history
  <2> QED BY <2>1, SamePlan
<1>7. CASE RepairByRule
  BY <1>7, RepairByRulePlans
<1>8. CASE ModelAnswers
  BY <1>8, ModelAnswersPlans
<1>9. CASE ModelFails \/ MemoryExhausted \/ GiveUp
  <2>1. /\ stage \in {"judged", "modelAsked"} /\ stage' # "start"
        /\ UNCHANGED <<databases, plan, tried, launched>>
    BY <1>9 DEF ModelFails, MemoryExhausted, GiveUp, GaveUp, OutOfMemory, Repairable, fixed, history
  <2> QED BY <2>1, SamePlan
<1> QED BY <1>1, <1>2, <1>3, <1>4, <1>5, <1>6, <1>7, <1>8, <1>9 DEF Next

-----------------------------------------------------------------------------
\* The memory they ran under

\* A deployment whose limit and heap stay, and that does not start again for memory.
LEMMA SameMemory ==
  ASSUME TypeOK, Ladder, UNCHANGED <<mb, heap, launched>>,
         stage' = "start" /\ by' = "memory" => stage = "start" /\ by = "memory"
  PROVE  Ladder'
BY DEF Ladder

\* What a launch ran with is not above what there is now.
LEMMA LaunchLadder ==
  ASSUME TypeOK, Ladder, Launch
  PROVE  Ladder'
<1>1. /\ stage' = "running" /\ UNCHANGED <<mb, heap>>
      /\ launched' = launched \cup {[plan |-> signature(plan'), mb |-> mb, heap |-> heap]}
  BY DEF Launch, memory
<1> SUFFICES ASSUME NEW e \in launched'
             PROVE  /\ e.mb \in Nat /\ e.heap \in Nat
                    /\ e.mb < mb \/ (e.mb = mb /\ (heap = 0 => e.heap = 0))
  BY <1>1 DEF Ladder
<1>2. CASE e \in launched
  BY <1>2 DEF Ladder
<1>3. CASE e \notin launched
  <2>1. e.mb = mb /\ e.heap = heap
    BY <1>1, <1>3
  <2> QED BY <2>1 DEF TypeOK
<1> QED BY <1>2, <1>3

\* A heap raised is one no start had at this limit.
LEMMA RaiseHeapLadder ==
  ASSUME TypeOK, Ladder, RaiseHeap
  PROVE  Ladder'
<1>1. /\ heap # nodeHeapMbFor(mb) /\ heap' = nodeHeapMbFor(mb)
      /\ UNCHANGED <<mb, launched>>
  BY DEF RaiseHeap, HeapFirst, history
<1>2. heap = 0
  BY <1>1 DEF Ladder
<1>3. heap' # 0 /\ heap' \in Nat
  BY <1>1, HeapType DEF TypeOK
<1>4. \A e \in launched : /\ e.mb \in Nat /\ e.heap \in Nat
                          /\ e.mb < mb \/ (e.mb = mb /\ e.heap = 0)
  BY <1>2 DEF Ladder
<1> QED BY <1>1, <1>3, <1>4 DEF Ladder

\* A limit raised is above that of every start there was.
LEMMA RaiseLimitLadder ==
  ASSUME TypeOK, Ladder, RaiseLimit
  PROVE  Ladder'
<1>1. mb' \in Nat /\ mb' > mb
  BY NextIsMore, ChoicesAssumption DEF RaiseLimit, TypeOK
<1>2. heap' \in {0, nodeHeapMbFor(mb')} /\ UNCHANGED launched
  BY DEF RaiseLimit, history
<1>3. \A e \in launched : e.mb \in Nat /\ e.heap \in Nat /\ e.mb < mb'
  BY <1>1 DEF Ladder, TypeOK
<1> QED BY <1>2, <1>3 DEF Ladder

\* Every step keeps the ladder of limits and heaps.
LEMMA StepLadder ==
  ASSUME TypeOK, Ladder, [Next]_vars
  PROVE  Ladder'
<1>1. CASE UNCHANGED vars
  BY <1>1, SameMemory DEF vars, memory, history
<1>2. CASE \/ RefuseImpossible \/ RestartFails \/ StartThrows \/ Serves \/ Fails \/ AskForSetting
            \/ Unanswered \/ AskModel
  <2>1. stage' # "start" /\ UNCHANGED <<mb, heap, launched>>
    BY <1>2 DEF RefuseImpossible, RestartFails, StartThrows, GaveUp, Serves, Fails, AskForSetting, Unanswered, AskModel, memory, history
  <2> QED BY <2>1, SameMemory
<1>3. CASE Launch
  BY <1>3, LaunchLadder
<1>4. CASE Answered
  <2>1. launched' = {} /\ heap' \in {0, heap} /\ (mb' = mb \/ heap' = 0)
    BY <1>4 DEF Answered, memory
  <2> QED BY <2>1 DEF Ladder
<1>5. CASE RaiseHeap
  BY <1>5, RaiseHeapLadder
<1>6. CASE RaiseLimit
  BY <1>6, RaiseLimitLadder
<1>7. CASE RepairByRule \/ ModelAnswers
  <2>1. by' # "memory" /\ UNCHANGED <<mb, heap, launched>>
    BY <1>7 DEF RepairByRule, ModelAnswers, StartAgain, memory, history
  <2> QED BY <2>1, SameMemory
<1>8. CASE ModelFails \/ MemoryExhausted \/ GiveUp
  <2>1. stage' # "start" /\ UNCHANGED <<mb, heap, launched>>
    BY <1>8 DEF ModelFails, MemoryExhausted, GiveUp, GaveUp, memory, history
  <2> QED BY <2>1, SameMemory
<1> QED BY <1>1, <1>2, <1>3, <1>4, <1>5, <1>6, <1>7, <1>8 DEF Next

-----------------------------------------------------------------------------
\* What is left to spend

\* The plans that were replaced, and the one that runs or is to run.
Spent == tried \cup {Provisioned(plan)}

\* What is left, by what it is left of: a question gives back the plans and the raises.
Worth    == MaxRepairs + RetryLimit + 1
Open     == Cardinality(Settings \ asked) + (IF stage = "asking" THEN 1 ELSE 0)
Question == Worth * Open
Call     == IF aiCalls = 0 \/ stage = "modelAsked" THEN 1 ELSE 0

\* What is left, as the sum of its four parts.
LEMMA LeftIs == Left = Question + Call + (MaxRepairs + 1 - Cardinality(Spent)) + (RetryLimit - raises)
BY DEF Left, Worth, Open, Question, Call, Spent

\* More questions are worth more, and one more its worth.
LEMMA TimesMore ==
  ASSUME NEW w \in Nat, NEW m \in Nat, NEW n \in Nat
  PROVE  /\ w * m \in Nat
         /\ m <= n => w * m <= w * n
         /\ n = m + 1 => w * n = w * m + w
<1>1. \A i, j \in Nat : i * j \in Nat
  OBVIOUS
<1>2. m <= n => w * m <= w * n
  <2> SUFFICES ASSUME m <= n
               PROVE  w * m <= w * n
    OBVIOUS
  <2>1. n - m \in Nat
    OBVIOUS
  <2>2. w * (n - m) \in Nat
    BY <1>1, <2>1
  <2>3. w * n = w * m + w * (n - m)
    OBVIOUS
  <2> QED BY <1>1, <2>2, <2>3
<1>3. n = m + 1 => w * n = w * m + w
  OBVIOUS
<1> QED BY <1>1, <1>2, <1>3

\* The settings nobody was asked for are so many.
LEMMA UnaskedType ==
  ASSUME TypeOK
  PROVE  IsFiniteSet(Settings \ asked) /\ Cardinality(Settings \ asked) \in Nat
<1>1. IsFiniteSet(Settings \ asked)
  BY SettingsAssumption, FS_Difference
<1> QED BY <1>1, FS_CardinalityType

\* There is always a plan, and at most one beyond the repairs allowed.
LEMMA SpentBounds ==
  ASSUME Budgets
  PROVE  /\ IsFiniteSet(Spent)
         /\ Cardinality(Spent) \in 1..(MaxRepairs + 1)
<1>1. IsFiniteSet(tried) /\ Cardinality(tried) \in Nat /\ Cardinality(tried) <= MaxRepairs
  BY FS_CardinalityType DEF Budgets
<1>2. /\ IsFiniteSet(Spent)
      /\ Cardinality(Spent) \in {Cardinality(tried), Cardinality(tried) + 1}
  BY <1>1, FS_AddElement DEF Spent
<1>3. Cardinality(Spent) # 0
  BY <1>2, FS_EmptySet DEF Spent
<1> QED BY <1>1, <1>2, <1>3, MemoryAssumption

\* Nothing is overdrawn.
LEMMA LeftType ==
  ASSUME TypeOK, Budgets
  PROVE  /\ Open \in Nat /\ Question \in Nat /\ Call \in {0, 1}
         /\ Left \in Nat
<1>0. Open \in Nat /\ Worth \in Nat
  BY UnaskedType, MemoryAssumption DEF Open, Worth
<1>1. Question \in Nat /\ Call \in {0, 1}
  BY <1>0, TimesMore DEF Question, Call
<1>2. Cardinality(Spent) \in 1..(MaxRepairs + 1)
  BY SpentBounds
<1>3. raises \in Nat /\ raises <= RetryLimit
  BY DEF TypeOK, Budgets
<1> QED BY <1>0, <1>1, <1>2, <1>3, LeftIs, MemoryAssumption

\* Before a step and after it: the four sums, and what each is within.
LEMMA Sums ==
  ASSUME TypeOK, Budgets, TypeOK', Budgets'
  PROVE  /\ Left = Question + Call + (MaxRepairs + 1 - Cardinality(Spent)) + (RetryLimit - raises)
         /\ Left' = Question' + Call' + (MaxRepairs + 1 - Cardinality(Spent')) + (RetryLimit - raises')
         /\ Cardinality(Spent) \in 1..(MaxRepairs + 1) /\ Cardinality(Spent') \in 1..(MaxRepairs + 1)
         /\ raises \in 0..RetryLimit /\ raises' \in 0..RetryLimit
         /\ Question \in Nat /\ Question' \in Nat
         /\ Open \in Nat /\ Open' \in Nat
         /\ Open' <= Open => Question' <= Question
         /\ Open = Open' + 1 => Question = Question' + Worth
         /\ Call \in {0, 1} /\ Call' \in {0, 1}
<1>1. Left = Question + Call + (MaxRepairs + 1 - Cardinality(Spent)) + (RetryLimit - raises)
  BY LeftIs
<1>2. Left' = Question' + Call' + (MaxRepairs + 1 - Cardinality(Spent')) + (RetryLimit - raises')
  BY DEF Left, Worth, Open, Question, Call, Spent
<1>3. Cardinality(Spent) \in 1..(MaxRepairs + 1)
  BY SpentBounds
<1>4. Cardinality(Spent') \in 1..(MaxRepairs + 1)
  <2>1. IsFiniteSet(tried') /\ Cardinality(tried') \in Nat /\ Cardinality(tried') <= MaxRepairs
    BY FS_CardinalityType DEF Budgets
  <2>2. /\ IsFiniteSet(Spent')
        /\ Cardinality(Spent') \in {Cardinality(tried'), Cardinality(tried') + 1}
    BY <2>1, FS_AddElement DEF Spent
  <2>3. Cardinality(Spent') # 0
    BY <2>2, FS_EmptySet DEF Spent
  <2> QED BY <2>1, <2>2, <2>3, MemoryAssumption
<1>5. raises \in 0..RetryLimit /\ raises' \in 0..RetryLimit
  BY MemoryAssumption DEF TypeOK, Budgets
<1>6. Call \in {0, 1} /\ Call' \in {0, 1}
  BY DEF Call
<1>7. Worth \in Nat /\ Open \in Nat
  BY UnaskedType, MemoryAssumption DEF Open, Worth
<1>8. Open' \in Nat
  <2>1. IsFiniteSet(Settings \ asked')
    BY SettingsAssumption, FS_Difference
  <2>2. Cardinality(Settings \ asked') \in Nat
    BY <2>1, FS_CardinalityType
  <2> QED BY <2>2 DEF Open
<1>9. Question = Worth * Open /\ Question' = Worth * Open'
  BY DEF Question, Worth
<1>10. /\ Question \in Nat /\ Question' \in Nat
       /\ Open' <= Open => Question' <= Question
       /\ Open = Open' + 1 => Question = Question' + Worth
  BY <1>7, <1>8, <1>9, TimesMore
<1> QED BY <1>1, <1>2, <1>3, <1>4, <1>5, <1>6, <1>7, <1>8, <1>10

\* A rule pays with a plan: the one it replaces was not tried before.
LEMMA RuleCosts ==
  ASSUME TypeOK, Budgets, Wired, TypeOK', Budgets', RepairByRule
  PROVE  Left' < Left
<1>1. /\ stage = "judged" /\ stage' = "start" /\ tried' = tried \cup {plan}
      /\ UNCHANGED <<databases, raises, asked, aiCalls>>
  BY DEF RepairByRule, Repairable, StartAgain, fixed, memory
<1>2. /\ plan' \in Kept(plan)
      /\ \A t \in {plan} \cup tried : signature(plan') # signature(t)
  BY RepairIsNew DEF RepairByRule, TypeOK
<1>3. databases => plan.database = TRUE /\ plan'.database = TRUE
  BY <1>1, <1>2 DEF Wired, Kept, Ended
<1>4. Provisioned(plan) = plan
  BY <1>3, ProvisionedAlready DEF TypeOK
<1>5. Provisioned(plan)' = plan'
  <2>1. plan'.database = TRUE => [plan' EXCEPT !.database = TRUE] = plan'
    BY DEF TypeOK, Plans
  <2> QED BY <1>1, <1>3, <2>1 DEF Provisioned
<1>6. Spent = tried \cup {plan} /\ Spent' = Spent \cup {plan'} /\ plan' \notin Spent
  BY <1>1, <1>2, <1>4, <1>5 DEF Spent
<1>7. Cardinality(Spent') = Cardinality(Spent) + 1
  BY <1>6, SpentBounds, FS_AddElement
<1>8. Question' = Question /\ Call' = Call
  BY <1>1 DEF Question, Worth, Open, Call
<1> QED BY <1>1, <1>7, <1>8, Sums, MemoryAssumption

\* Memory pays with a raise.
LEMMA RaiseCosts ==
  ASSUME TypeOK, Budgets, TypeOK', Budgets', RaiseHeap \/ RaiseLimit
  PROVE  Left' < Left
<1>1. /\ stage = "judged" /\ stage' = "start" /\ raises' = raises + 1
      /\ UNCHANGED <<databases, tried, plan, asked, aiCalls>>
  BY DEF RaiseHeap, RaiseLimit, OutOfMemory, Repairable, StartAgain, fixed
<1>2. Spent' = Spent
  BY <1>1 DEF Spent, Provisioned
<1>3. Question' = Question /\ Call' = Call
  BY <1>1 DEF Question, Worth, Open, Call
<1> QED BY <1>1, <1>2, <1>3, Sums, MemoryAssumption

\* A model's answer pays with the call; the plan it gives may be one that was tried.
LEMMA AnswerCosts ==
  ASSUME TypeOK, Budgets, Wired, TypeOK', Budgets', ModelAnswers
  PROVE  Left' < Left
<1>1. /\ stage = "modelAsked" /\ stage' = "start" /\ tried' = tried \cup {plan}
      /\ UNCHANGED <<databases, raises, asked, aiCalls>>
  BY DEF ModelAnswers, StartAgain, fixed, memory
<1>2. Provisioned(plan) = plan
  BY <1>1, ProvisionedAlready DEF TypeOK, Wired, Ended
<1>3. Spent' = Spent \cup {Provisioned(plan)'}
  BY <1>1, <1>2 DEF Spent
<1>4. Cardinality(Spent') \in {Cardinality(Spent), Cardinality(Spent) + 1}
  BY <1>3, SpentBounds, FS_AddElement
<1>5. Call = 1 /\ Call' = 0 /\ Question' = Question
  BY <1>1 DEF Question, Worth, Open, Call, Budgets
<1> QED BY <1>1, <1>4, <1>5, Sums, MemoryAssumption

\* A person's answer pays with the question, whatever a project is given back.
LEMMA PersonCosts ==
  ASSUME TypeOK, Budgets, TypeOK', Budgets', Answered
  PROVE  Left' < Left
<1>1. /\ stage = "asking" /\ stage' = "start" /\ UNCHANGED <<asked, aiCalls>>
  BY DEF Answered, StartAgain
<1>2. Open = Open' + 1 /\ Call' = Call
  BY <1>1, UnaskedType DEF Open, Call
<1> QED BY <1>2, Sums, MemoryAssumption DEF Worth

\* Nothing else starts a deployment again, or gives anything back.
LEMMA OthersCost ==
  ASSUME TypeOK, Budgets, TypeOK', Budgets',
         \/ RefuseImpossible \/ Launch \/ RestartFails \/ StartThrows \/ Serves \/ Fails
         \/ AskForSetting \/ Unanswered \/ AskModel \/ ModelFails \/ MemoryExhausted \/ GiveUp \/ UNCHANGED vars
  PROVE  Left' <= Left /\ (stage # "start" => stage' # "start")
<1>1. CASE Launch
  <2>1. /\ stage = "start" /\ stage' = "running" /\ plan' = Provisioned(plan)
        /\ UNCHANGED <<databases, tried, raises, asked, aiCalls>>
    BY <1>1 DEF Launch, fixed, memory
  <2>2. Provisioned(plan)' = Provisioned(plan)
    <3>1. [[plan EXCEPT !.database = TRUE] EXCEPT !.database = TRUE] = [plan EXCEPT !.database = TRUE]
      BY DEF TypeOK, Plans
    <3> QED BY <2>1, <3>1 DEF Provisioned
  <2>3. Spent' = Spent /\ Question' = Question /\ Call' = Call
    BY <2>1, <2>2 DEF Spent, Question, Worth, Open, Call
  <2> QED BY <2>1, <2>3, Sums, MemoryAssumption
<1>2. CASE AskForSetting
  <2>1. /\ stage = "judged" /\ stage' = "asking"
        /\ UNCHANGED <<databases, plan, tried, raises, aiCalls>>
    BY <1>2 DEF AskForSetting, fixed, memory
  <2>2. PICK k \in Settings \ asked : asked \cup {k} \subseteq asked'
    BY <1>2, AskedMore
  <2>3. /\ Settings \ asked' \in SUBSET (Settings \ asked)
        /\ Settings \ asked' # Settings \ asked
    BY <2>2
  <2>4. /\ IsFiniteSet(Settings \ asked) /\ Cardinality(Settings \ asked) \in Nat
        /\ IsFiniteSet(Settings \ asked') /\ Cardinality(Settings \ asked') \in Nat
    BY UnaskedType, <2>3, FS_Subset, FS_CardinalityType
  <2>5. Cardinality(Settings \ asked') < Cardinality(Settings \ asked)
    BY <2>3, <2>4, FS_Subset
  <2>6. Open' <= Open
    BY <2>1, <2>4, <2>5 DEF Open
  <2>7. Spent' = Spent /\ Call' = Call
    BY <2>1 DEF Spent, Call, Provisioned
  <2> QED BY <2>1, <2>6, <2>7, Sums, MemoryAssumption
<1>3. CASE AskModel
  <2>1. /\ stage = "judged" /\ stage' = "modelAsked" /\ aiCalls = 0
        /\ UNCHANGED <<databases, plan, tried, raises, asked>>
    BY <1>3 DEF AskModel, Repairable, MayAsk, AiCalls, fixed, memory, TypeOK
  <2>2. Spent' = Spent /\ Question' = Question /\ Call' = Call
    BY <2>1 DEF Spent, Question, Worth, Open, Call, Provisioned
  <2> QED BY <2>1, <2>2, Sums, MemoryAssumption
<1>4. CASE RefuseImpossible \/ RestartFails \/ StartThrows \/ Serves \/ Fails \/ Unanswered
            \/ ModelFails \/ MemoryExhausted \/ GiveUp
  <2>1. /\ stage' \notin {"start", "asking", "modelAsked"}
        /\ UNCHANGED <<databases, plan, tried, raises, asked, aiCalls>>
    BY <1>4 DEF RefuseImpossible, RestartFails, StartThrows, Serves, Fails, Unanswered, ModelFails,
       MemoryExhausted, GiveUp, GaveUp, fixed, memory
  <2>2. Spent' = Spent /\ Open' <= Open /\ Call' <= Call
    BY <2>1, UnaskedType DEF Spent, Open, Call, Provisioned
  <2> QED BY <2>1, <2>2, Sums, MemoryAssumption
<1>5. CASE UNCHANGED vars
  <2>1. UNCHANGED <<stage, databases, plan, tried, raises, asked, aiCalls>>
    BY <1>5 DEF vars, fixed, memory
  <2>2. Spent' = Spent /\ Question' = Question /\ Call' = Call
    BY <2>1 DEF Spent, Question, Worth, Open, Call, Provisioned
  <2> QED BY <2>1, <2>2, Sums, MemoryAssumption
<1> QED BY <1>1, <1>2, <1>3, <1>4, <1>5

-----------------------------------------------------------------------------
\* The theorems

\* The invariant holds at first.
LEMMA InitInv == Init => IInv
<1> SUFFICES ASSUME Init
             PROVE  IInv
  OBVIOUS
<1>1. TypeOK
  BY InitType
<1>2. Budgets
  BY FS_EmptySet, MemoryAssumption DEF Init, Budgets
<1>3. Reports /\ Frames /\ Wired /\ Known /\ Fresh /\ Ladder
  BY NoPlace DEF Init, Reports, Frames, Wired, Known, Fresh, Ladder
<1> QED BY <1>1, <1>2, <1>3 DEF IInv

\* Every step keeps the invariant.
LEMMA StepInv == IInv /\ [Next]_vars => IInv'
BY StepType, StepBudgets, StepReports, StepFrames, StepPlans, StepLadder DEF IInv

\* The invariant the others follow from, in every state of every deployment.
THEOREM RepairIsBounded == Spec => [](TypeOK /\ Budgets)
<1>1. Init => IInv
  BY InitInv
<1>2. IInv /\ [Next]_vars => IInv'
  BY StepInv
<1>3. IInv => TypeOK /\ Budgets
  BY DEF IInv
<1> QED BY <1>1, <1>2, <1>3, PTL DEF Spec

\* A deployment that failed reports the phase it got furthest in, whichever order
\* its attempts failed in (progressedPast in SessionManager.verifyProject).
THEOREM FurthestIsReported == Spec => []ReportedIsFurthest
<1>1. Init => IInv
  BY InitInv
<1>2. IInv /\ [Next]_vars => IInv'
  BY StepInv
<1>3. IInv => ReportedIsFurthest
  BY DEF IInv, TypeOK, Reports, Frames, ReportedIsFurthest
<1> QED BY <1>1, <1>2, <1>3, PTL DEF Spec

\* Every start of a deployment is paid for out of what Left counts, which only falls:
\* so many attempts and no more, whoever repairs it and whatever a project is given
\* back (MAX_REPAIR_ATTEMPTS, maxAiCalls, the retry limit, askForCrashSettings' once).
THEOREM StartsAreFinite == Spec => EveryStartCosts
<1> DEFINE Costs == /\ 0 <= Left' /\ Left' <= Left
                    /\ stage # "start" /\ stage' = "start" => Left' < Left
<1>1. Init => IInv
  BY InitInv
<1>2. IInv /\ [Next]_vars => IInv'
  BY StepInv
<1>3. IInv /\ [Next]_vars => [Costs]_vars
  <2> SUFFICES ASSUME IInv, Next
               PROVE  Costs
    BY DEF vars
  <2>1. TypeOK /\ Budgets /\ Wired /\ TypeOK' /\ Budgets'
    BY <1>2 DEF IInv
  <2>2. Left \in Nat /\ 0 <= Left' /\ Left' \in Int
    <3>1. Left \in Nat
      BY <2>1, LeftType
    <3>2. Left' \in Int /\ 0 <= Left'
      BY <2>1, Sums, MemoryAssumption
    <3> QED BY <3>1, <3>2
  <2>3. CASE RepairByRule \/ RaiseHeap \/ RaiseLimit \/ ModelAnswers \/ Answered
    <3>1. Left' < Left
      BY <2>1, <2>3, RuleCosts, RaiseCosts, AnswerCosts, PersonCosts
    <3> QED BY <2>2, <3>1
  <2>4. CASE \/ RefuseImpossible \/ Launch \/ RestartFails \/ StartThrows \/ Serves \/ Fails
             \/ AskForSetting \/ Unanswered \/ AskModel \/ ModelFails \/ MemoryExhausted \/ GiveUp
    BY <2>1, <2>2, <2>4, OthersCost
  <2> QED BY <2>3, <2>4 DEF Next
<1> QED BY <1>1, <1>2, <1>3, PTL DEF Spec, EveryStartCosts

\* What a rule or a raise of memory starts differs, in its plan or in its memory, from
\* everything started since a person last answered.
LEMMA LaunchIsNew ==
  ASSUME IInv, Launch, by \in {"rule", "memory"}
  PROVE  launched' # launched
<1> DEFINE e == [plan |-> signature(plan'), mb |-> mb, heap |-> heap]
<1>1. e \in launched' /\ stage = "start"
  BY DEF Launch
<1>2. plan' = plan
  BY ProvisionedAlready DEF Launch, IInv, TypeOK, Wired, Ended
<1>3. CASE by = "rule"
  <2>1. \A d \in launched : \E q \in tried : d.plan = signature(q)
    BY <1>1, <1>3 DEF IInv, Known
  <2>2. \A q \in tried : signature(plan) # signature(q)
    BY <1>1, <1>3 DEF IInv, Fresh
  <2>3. e.plan = signature(plan)
    BY <1>2
  <2>4. e \notin launched
    BY <2>1, <2>2, <2>3
  <2> QED BY <1>1, <2>4
<1>4. CASE by = "memory"
  <2>1. \A d \in launched : d.mb \in Nat /\ (d.mb < mb \/ (d.heap = 0 /\ heap # 0))
    BY <1>1, <1>4 DEF IInv, Ladder
  <2>2. e.mb = mb /\ e.heap = heap /\ mb \in Nat
    BY DEF IInv, TypeOK
  <2>3. e \notin launched
    BY <2>1, <2>2
  <2> QED BY <1>1, <2>3
<1> QED BY <1>3, <1>4

\* A deployment's repairs never run again what ran: whatever the containers print and
\* Docker says, five minutes are not spent on what is known (tryDeterministicRepair,
\* nextMemoryMb, the heap once per limit).
THEOREM NoRepairRepeats == Spec => RulesMakeProgress
<1> DEFINE Progress == stage = "start" /\ stage' = "running" /\ by \in {"rule", "memory"}
                         => launched' # launched
<1>1. Init => IInv
  BY InitInv
<1>2. IInv /\ [Next]_vars => IInv'
  BY StepInv
<1>3. IInv /\ [Next]_vars => [Progress]_vars
  <2> SUFFICES ASSUME IInv, Next, stage = "start", stage' = "running", by \in {"rule", "memory"}
               PROVE  launched' # launched
    BY DEF vars
  <2>1. CASE Launch
    BY <2>1, LaunchIsNew
  <2>2. ~(RefuseImpossible \/ RestartFails \/ StartThrows \/ Serves \/ Fails \/ AskForSetting \/ Answered \/ Unanswered)
    BY DEF RefuseImpossible, RestartFails, GaveUp, StartThrows, Serves, Fails, AskForSetting,
       Answered, Unanswered
  <2>3. ~(RaiseHeap \/ RaiseLimit \/ RepairByRule \/ AskModel \/ ModelAnswers)
    BY DEF RaiseHeap, RaiseLimit, RepairByRule, AskModel, ModelAnswers, OutOfMemory, Repairable
  <2>4. ~(ModelFails \/ MemoryExhausted \/ GiveUp)
    BY DEF ModelFails, MemoryExhausted, GiveUp, OutOfMemory, Repairable
  <2> QED BY <2>1, <2>2, <2>3, <2>4 DEF Next
<1> QED BY <1>1, <1>2, <1>3, PTL DEF Spec, RulesMakeProgress

=============================================================================
