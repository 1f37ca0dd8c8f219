------------------------------- MODULE RepairLoop -------------------------------
(***************************************************************************)
(* One deployment from its plan to its last word: start, judge the         *)
(* outcome, ask for a setting, raise the memory, rewrite the plan by rule  *)
(* or by model, start again, until it serves, completes or gives up        *)
(* (SessionManager.startAndVerify and tryRepair; for a service of a        *)
(* project verifyProject and tryRepairService).                            *)
(*                                                                         *)
(* What the containers do is the environment's choice: whether an attempt  *)
(* starts at all, which phase it dies in, what it printed, what Docker     *)
(* says of it, whether a crash names a setting.  Stops and the session's   *)
(* clocks are SessionLifecycle's and are left out here.                    *)
(***************************************************************************)
EXTENDS FailureRules

CONSTANTS
    Repositories,  \* what repositories are like, as far as a rule can tell
    Projects,      \* the deployments checked: TRUE, a project's service; FALSE, a lone one
    Databases,     \* whether the repository has a database provisioned
    Models,        \* whether a model is reachable
    Deltas,        \* bound: what a model may answer with, as the fields it rewrites
    Free           \* what the machine may have left when it is asked; -1 unknown

ASSUME ChoicesAssumption ==
    /\ Projects \subseteq BOOLEAN /\ Databases \subseteq BOOLEAN /\ Models \subseteq BOOLEAN
    /\ Free \subseteq Int

\* lines: what an attempt may print that somebody reads; refused: the rules whose
\* proposals the validator refuses.
ASSUME RepositoriesAssumption ==
    \A r \in Repositories :
        /\ r.language \in {"node", "python"} /\ r.logsPort \in Nat
        /\ r.scripts \subseteq {"script:dev", "script:start"}
        /\ {r.declares, r.imports, r.builds, r.hardcoded} \subseteq BOOLEAN
        /\ r.psycopg \in {"none", "source", "pinned"} /\ r.refused \subseteq 1..14

\* The plan it starts from: what the planner makes of it.
FirstPlan(r) ==
    [install |-> IF r.language = "node" THEN "strict" ELSE "declared", added |-> FALSE,
     legacyPeers |-> FALSE, build |-> IF r.builds THEN "planned" ELSE "none",
     start |-> IF r.language = "node" THEN "script:start" ELSE "console",
     port |-> 1, host |-> FALSE, loopbackFlag |-> FALSE, runtime |-> 1,
     legacyOpenssl |-> FALSE, transpileOnly |-> FALSE, path |-> "/", database |-> FALSE,
     given |-> {}, forced |-> FALSE, fromModel |-> FALSE]

VARIABLES
    repo, project, databases, model,   \* the deployment, fixed
    stage,      \* "start" | "running" | "judged" | "asking" | "modelAsked" | how it ended
    by,         \* what the next start is due to: "person" | "rule" | "memory" | "model"
    plan,       \* session.plan, or the service's
    tried,      \* repairAttempts: the plans replaced
    mb, raises, heap,                  \* the memory an attempt runs under
    aiCalls,    \* session.aiRepairCalls
    asked,      \* session.askedSettings
    outcome,    \* how the last attempt failed
    printed,    \* what it printed
    earlier,    \* what the attempts before it printed, still in the session's log
    failure,    \* session.failure
    exhausted,  \* session.memoryExhausted
    kept,       \* `original` of the frame that asked the model; NoFailure: no such frame
    launched,   \* history: what was run since a person last answered
    furthest,   \* history: the latest phase an attempt failed in since then
    before,     \* history: that phase when the model was asked
    threw       \* history: a start within the model's repair threw

fixed == <<repo, project, databases, model>>
memory == <<mb, raises, heap>>
attempt == <<outcome, printed, earlier>>
verdict == <<failure, exhausted>>
frame == <<kept, before>>
history == <<launched, furthest, threw>>
vars == <<fixed, stage, by, plan, tried, memory, aiCalls, asked, attempt, verdict, frame, history>>

Ended == {"READY", "PARTIALLY_READY", "COMPLETED", "FAILED", "CANCELLED"}

Init ==
    /\ repo \in Repositories /\ project \in Projects /\ databases \in Databases /\ model \in Models
    /\ stage = "start" /\ by = "person" /\ plan = FirstPlan(repo) /\ tried = {}
    \* rememberedStart: the last run of this repository may have needed more
    /\ mb \in {InitialMb, Ceiling} /\ raises = 0 /\ heap = 0
    /\ aiCalls = 0 /\ asked = {}
    /\ outcome = NoFailure /\ printed = {} /\ earlier = {}
    /\ failure = NoFailure /\ exhausted = FALSE
    /\ kept = NoFailure /\ before = 0
    /\ launched = {} /\ furthest = 0 /\ threw = FALSE

-----------------------------------------------------------------------------
(* Starting an attempt *)

\* provisionBacking: the database's address, in whatever plan is about to run.
Provisioned(p) == IF databases THEN [p EXCEPT !.database = TRUE] ELSE p

\* A plan that names a script the manifest does not define; a project's plans
\* were checked before any of its services started.
Impossible(p) == ~project /\ p.start = "invented"

\* refuseImpossiblePlan: the first diagnosis when a repair invented it, and
\* otherwise its own.
RefuseImpossible ==
    /\ stage = "start" /\ Impossible(plan)
    /\ stage' = "FAILED"
    /\ failure' = IF tried # {} /\ failure # NoFailure THEN failure
                  ELSE Failure(IF plan.fromModel THEN "INVALID_AI_PLAN" ELSE "UNSUPPORTED_PROJECT", "none")
    /\ UNCHANGED <<fixed, by, plan, tried, memory, aiCalls, asked, attempt, exhausted, frame, history>>

\* The gate, the database, and the container.
Launch ==
    /\ stage = "start" /\ ~Impossible(plan)
    /\ stage' = "running"
    /\ plan' = Provisioned(plan)
    /\ launched' = launched \cup {[plan |-> signature(plan'), mb |-> mb, heap |-> heap]}
    /\ UNCHANGED <<fixed, by, tried, memory, aiCalls, asked, attempt, verdict, frame, furthest, threw>>

\* What every way of trying again does: the container goes, the log is kept.
StartAgain(cause) ==
    /\ stage' = "start" /\ by' = cause
    /\ outcome' = NoFailure /\ printed' = {} /\ earlier' = earlier \cup printed

\* A deployment is over: FAILED, unless another service of its project still serves.
Over == outcome' = NoFailure /\ printed' = {} /\ earlier' = {}

GaveUp == /\ stage' = "FAILED" \/ (project /\ stage' = "PARTIALLY_READY")
          /\ Over

\* A project's service that cannot be started again: caught there, and the project
\* ends with the diagnosis it had.
RestartFailing == project /\ stage = "start" /\ by \in {"rule", "memory"}

RestartFails ==
    /\ RestartFailing /\ GaveUp
    /\ UNCHANGED <<fixed, by, plan, tried, memory, aiCalls, asked, verdict, frame, history>>

\* A start that throws ends the deployment: the validator refuses the plan, Docker does
\* not create the container, nobody can look at it.  What is reported is what was
\* thrown (failureOf, which gives it no phase) -- but a throw within the model's repair is
\* swallowed by the frame that asked the model, which reports what it had then.
StartThrows ==
    /\ stage \in {"start", "running"} /\ ~RestartFailing
    /\ stage' = "FAILED" /\ Over
    /\ failure' = IF kept = NoFailure THEN Failure("UNKNOWN_RUNTIME_ERROR", "none") ELSE kept
    /\ threw' = (kept # NoFailure)
    /\ UNCHANGED <<fixed, by, plan, tried, memory, aiCalls, asked, exhausted, frame, launched, furthest>>

-----------------------------------------------------------------------------
(* How an attempt ends *)

\* What one attempt prints: nothing that matters, or one line.
Prints == {{}} \cup {{l} : l \in repo.lines}

\* Where a line is printed: an install's in an install, a server's by the program.
PrintedIn(lines, phase) ==
    /\ phase # "start" => lines \cap {"listeningElsewhere", "root404"} = {}
    /\ phase # "install" => "lockfile" \notin lines
    /\ \A i \in DOMAIN SIGNATURES : SIGNATURES[i].line \in lines => phase \in SIGNATURES[i].phases

\* The phases an attempt can die in: there is a build when the plan has one.
Phases(p) == {"none", "install", "build", "start"} \ IF p.build = "none" THEN {"build"} ELSE {}

\* The coarse verdicts of a container that exited (classifyExit).  Until the program is
\* started the wrapper's codes count: the phase's own, no directory to work in, or none
\* of them.
CoarseExits(phase) ==
    IF phase = "start" THEN {Failure("START_COMMAND_FAILED", "start")}
    ELSE {Failure("CONTAINER_CREATE_FAILED", "none"), Failure("UNKNOWN_RUNTIME_ERROR", "none")}
         \cup (IF phase = "install" THEN {Failure("DEPENDENCY_INSTALL_FAILED", "install")} ELSE {})
         \cup (IF phase = "build" THEN {Failure("BUILD_FAILED", "build")} ELSE {})

\* The exit codes told apart: any, the kernel's kill, and a console script not found.
ExitCodes(p, phase) == {1, 137} \cup (IF phase = "start" /\ p.start = "console" THEN {127} ELSE {})

\* It exited while readiness was awaited, and is explained from its exit code,
\* its log and Docker's flag.
Exited(phase, exit, flag, lines, coarse) ==
    LET code(f) == [f EXCEPT !.exit127 = (exit = 127)]
    IN  memoryVerdict(code(classify(phase, lines, exit, coarse)),
                      flag, exit, lines, phase, code(coarse))

\* It was found dead before it had published a port.
DiedUnseen(phase, exit, flag, lines) ==
    LET died == IF flag = "yes" THEN Failure("OUT_OF_MEMORY", phase)
                ELSE Failure("APPLICATION_EXITED", phase)
    IN  memoryVerdict(died, flag, exit, lines, phase, died)

\* A socket the kernel showed, with the last error that was printed.
Seen(code, socket, line) == [Failure(code, "start") EXCEPT !.socket = socket, !.evidence = line]

\* It runs, and the socket table says where it listens (PortManager.diagnose): on
\* loopback, on one other port, where it should and without an answer, or nowhere.
Unreachable(p, lines) ==
    {Seen("PORT_BOUND_TO_LOCALHOST", q, l) : q \in {1, 2} \cup {p.port}, l \in {"none"} \cup lines}
    \cup {Seen("PORT_NOT_LISTENING", q, l) : q \in {1, 2} \ {p.port}, l \in {"none"} \cup lines}
    \cup {Failure("READINESS_TIMEOUT", "start"),
          classify("start", lines, 0, Failure("PORT_NOT_LISTENING", "start"))}

\* Its container died in this phase.
Deaths(p, lines, phase) ==
    {Exited(phase, exit, flag, lines, coarse) :
        exit \in ExitCodes(p, phase), flag \in {"yes", "no", "unread"}, coarse \in CoarseExits(phase)}
    \cup {DiedUnseen(phase, 1, flag, lines) : flag \in {"yes", "no"}}

\* What is said without a line: an install or a build out of time, a container Docker
\* cannot show, one without a port mapping.
Unexplained(p) ==
    {Failure("PROCESS_TIMEOUT", ph) : ph \in Phases(p) \ {"none", "start"}}
    \cup {Failure("UNKNOWN_RUNTIME_ERROR", "none"), Failure("PORT_NOT_LISTENING", "none")}

\* Everything an attempt can fail with.  A server that stopped with 0 and was told
\* where to listen stopped; it did not finish.
Failures(p, lines) ==
    (UNION {Deaths(p, lines, ph) : ph \in {q \in Phases(p) : PrintedIn(lines, q)}})
    \cup {f \in Unreachable(p, lines) : PrintedIn(lines, "start")}
    \cup {f \in Unexplained(p) : lines = {}}
    \cup {f \in {Failure("APPLICATION_EXITED", "start")} : p.forced}

\* waitForReady, and what the session does with a success.
Serves ==
    /\ stage = "running"
    /\ \/ stage' = "READY"
       \/ stage' = "COMPLETED" /\ ~plan.forced /\ ~project
    /\ Over /\ failure' = NoFailure
    /\ UNCHANGED <<fixed, by, plan, tried, memory, aiCalls, asked, exhausted, frame, history>>

\* waitForReady fails: the first diagnosis is kept, unless this one got further.
\* A bind address in the source only changes the remedy (withBindRemedy).
Fails ==
    /\ stage = "running"
    /\ \E lines \in Prints :
        /\ outcome' \in Failures(plan, lines)
        /\ printed' = lines
    /\ stage' = "judged"
    /\ failure' = IF failure = NoFailure \/ progressedPast(failure, outcome') THEN outcome' ELSE failure
    /\ furthest' = Max({furthest, PhaseOrder(outcome')})
    /\ UNCHANGED <<fixed, by, plan, tried, memory, aiCalls, asked, earlier, exhausted, frame,
                   launched, threw>>

-----------------------------------------------------------------------------
(* What is done about it *)

\* Mutant: a setting is asked for again of somebody who chose to go without it.
NamesAgain(f) ==
    IF f.phase = "install" \/ f.code = "OUT_OF_MEMORY" THEN {} ELSE Settings \ plan.given

\* What a crash may be asked about: the settings nobody gave and nobody was asked for.
Names(f) ==
    IF f.phase = "install" \/ f.code = "OUT_OF_MEMORY" THEN {} ELSE Settings \ (plan.given \cup asked)

\* askForCrashSettings, where the log's frames lead to a line that reads some of them:
\* the container goes, and whoever was waiting for this attempt returns.
AskForSetting ==
    /\ stage = "judged"
    /\ \E keys \in SUBSET Names(outcome) : keys # {} /\ asked' = asked \cup keys
    /\ stage' = "asking"
    /\ failure' = Failure("MISSING_ENV", "start")
    /\ kept' = NoFailure /\ before' = 0
    /\ UNCHANGED <<fixed, by, plan, tried, memory, aiCalls, attempt, exhausted, history>>

\* resolve and continueAfterInput: the diagnosis has been answered, with values or
\* without.  A project starts again from the plans it was given, its repairs with them.
Answered ==
    /\ stage = "asking"
    /\ \E values \in SUBSET asked :
        plan' = [(IF project THEN FirstPlan(repo) ELSE plan) EXCEPT !.given = plan.given \cup values]
    /\ IF project THEN tried' = {} /\ mb' \in {InitialMb, Ceiling} /\ raises' = 0 /\ heap' = 0
                  ELSE UNCHANGED <<tried, memory>>
    /\ StartAgain("person")
    /\ failure' = NoFailure /\ launched' = {} /\ furthest' = 0
    /\ UNCHANGED <<fixed, aiCalls, asked, exhausted, frame, threw>>

\* cancelUnanswered: nobody answers.
Unanswered ==
    /\ stage = "asking"
    /\ stage' = "CANCELLED" /\ Over /\ failure' = Failure("PROCESS_TIMEOUT", "none")
    /\ UNCHANGED <<fixed, by, plan, tried, memory, aiCalls, asked, exhausted, frame, history>>

\* refuseHardcodedBind: no plan changes a literal in the source.
Hardcoded == repo.hardcoded /\ outcome.code = "PORT_BOUND_TO_LOCALHOST"

Repairable ==
    /\ stage = "judged"
    /\ ~Hardcoded /\ Repairability(outcome.code) # "NON_REPAIRABLE"

UnderLimit == Cardinality(tried) < MaxRepairs

\* Memory is looked at before the attempts a lone deployment has left, and after
\* those of a project's service.
OutOfMemory == Repairable /\ outcome.code = "OUT_OF_MEMORY" /\ (project => UnderLimit)

\* decideMemory, a heap that ran out: a larger one first, once per limit.
HeapFirst == outcome.memory = "node-heap" /\ RetryEnabled /\ raises < RetryLimit
             /\ heap # nodeHeapMbFor(mb)

RaiseHeap ==
    /\ OutOfMemory /\ HeapFirst
    /\ heap' = nodeHeapMbFor(mb) /\ raises' = raises + 1
    /\ StartAgain("memory")
    /\ UNCHANGED <<fixed, plan, tried, mb, aiCalls, asked, verdict, frame, history>>

\* decideMemory: the next limit the policy and the machine allow.
RaiseLimit ==
    /\ OutOfMemory /\ ~HeapFirst
    /\ \E free \in Free : mb' \in nextMemoryMb(mb, raises, free)
    /\ raises' = raises + 1
    /\ heap' = IF heap # 0 THEN nodeHeapMbFor(mb') ELSE heap
    /\ StartAgain("memory")
    /\ UNCHANGED <<fixed, plan, tried, aiCalls, asked, verdict, frame, history>>

\* A rule with evidence.  The tail of the log it reads may reach back into what the
\* attempts before this one printed.
RepairByRule ==
    /\ Repairable /\ outcome.code # "OUT_OF_MEMORY" /\ UnderLimit
    /\ Repairability(outcome.code) = "DETERMINISTIC"
    /\ \E text \in {printed, printed \cup earlier} :
        plan' \in tryDeterministicRepair(plan, tried, repo, outcome, text)
    /\ tried' = tried \cup {plan}
    /\ StartAgain("rule")
    /\ UNCHANGED <<fixed, memory, aiCalls, asked, verdict, frame, history>>

NoRule == \/ Repairability(outcome.code) # "DETERMINISTIC"
          \/ \E text \in {printed, printed \cup earlier} :
                tryDeterministicRepair(plan, tried, repo, outcome, text) = {}

\* Never for a project's service: its siblings were told its address.
MayAsk == ~project /\ model /\ aiCalls < AiCalls(outcome.code)

\* One model call, the failed container released before it.  The frame that makes it
\* holds the diagnosis of its own attempt until what the answer starts is over.
AskModel ==
    /\ Repairable /\ outcome.code # "OUT_OF_MEMORY" /\ UnderLimit /\ NoRule /\ MayAsk
    /\ stage' = "modelAsked" /\ aiCalls' = aiCalls + 1
    /\ kept' = failure /\ before' = furthest
    /\ UNCHANGED <<fixed, by, plan, tried, memory, asked, attempt, verdict, history>>

\* The fields an answer may rewrite: the commands, the runtime, the port, the health
\* check, and the environment -- the bind address, the database's variable, the given
\* settings and ts-node's checking among it.  A manager's flags go with its command.
Rewritable == {"install", "added", "legacyPeers", "build", "start", "loopbackFlag", "port", "runtime",
               "path", "host", "database", "given", "transpileOnly"}

\* What it leaves out stays; where the server listens is then no longer known.
Answers(p, delta) ==
    [f \in DOMAIN p |-> IF f = "forced" THEN FALSE ELSE IF f = "fromModel" THEN TRUE
                       ELSE IF f \in DOMAIN delta \cap Rewritable THEN delta[f] ELSE p[f]]

\* AIRepair: refused by the validator, and when it is one already tried.
NewAnswer(p) == aiSignature(p) \notin {aiSignature(q) : q \in {plan} \cup tried}

ModelAnswers ==
    /\ stage = "modelAsked"
    /\ \E delta \in Deltas :
        LET p == Answers(plan, delta)
        IN  p \in Plans /\ NewAnswer(p) /\ plan' = p
    /\ tried' = tried \cup {plan}
    /\ StartAgain("model")
    /\ UNCHANGED <<fixed, memory, aiCalls, asked, verdict, frame, history>>

\* The model is unreachable, refused, or serves the files instead of the program.
ModelFails ==
    /\ stage = "modelAsked" /\ GaveUp
    /\ UNCHANGED <<fixed, by, plan, tried, memory, aiCalls, asked, verdict, frame, history>>

\* Out of memory with nothing left to raise is reported as itself.
MemoryExhausted ==
    /\ OutOfMemory /\ ~HeapFirst
    /\ \E free \in Free : nextMemoryMb(mb, raises, free) = {}
    /\ GaveUp /\ exhausted' = TRUE /\ failure' = outcome
    /\ UNCHANGED <<fixed, by, plan, tried, memory, aiCalls, asked, frame, history>>

\* Nothing applies: the diagnosis that was kept is the session's last word.
GiveUp ==
    /\ stage = "judged"
    /\ \/ ~Repairable
       \/ outcome.code = "OUT_OF_MEMORY" /\ project /\ ~UnderLimit
       \/ outcome.code # "OUT_OF_MEMORY" /\ (~UnderLimit \/ (NoRule /\ ~MayAsk))
    /\ GaveUp
    /\ UNCHANGED <<fixed, by, plan, tried, memory, aiCalls, asked, verdict, frame, history>>

Next == \/ RefuseImpossible \/ Launch \/ RestartFails \/ StartThrows \/ Serves \/ Fails
        \/ AskForSetting \/ Answered \/ Unanswered
        \/ RaiseHeap \/ RaiseLimit \/ RepairByRule \/ AskModel \/ ModelAnswers \/ ModelFails
        \/ MemoryExhausted \/ GiveUp

Spec == Init /\ [][Next]_vars

\* Every wait has a clock of its own: readiness and the install their budgets, the
\* question its timer, the model its timeout.
FairSpec == Spec /\ WF_vars(Next)

-----------------------------------------------------------------------------
(* What must hold *)

\* The loop is finite whatever the containers print, whatever Docker says of them,
\* whatever a person or a model answers: the attempts, the raises, the model's calls
\* and the questions are each bounded, and together they are.
LoopEnds == <>(stage \in Ended)

\* What is left to spend on another start: the questions, with all that answering it gives
\* back to a project; the model's call; the plans and the raises.
Left ==
    (MaxRepairs + RetryLimit + 1) * (Cardinality(Settings \ asked) + (IF stage = "asking" THEN 1 ELSE 0))
    + (IF aiCalls = 0 \/ stage = "modelAsked" THEN 1 ELSE 0)
    + (MaxRepairs + 1 - Cardinality(tried \cup {Provisioned(plan)}))
    + (RetryLimit - raises)

\* Why the loop is finite: whatever starts a deployment again has paid for it, and what
\* it paid with is never given back and never overdrawn.
EveryStartCosts ==
    [][/\ 0 <= Left' /\ Left' <= Left
       /\ stage # "start" /\ stage' = "start" => Left' < Left]_vars

\* What a rule or a raise starts has not run since a person last answered: five
\* minutes spent learning what is already known is what the progress check is for
\* (tryDeterministicRepair, nextMemoryMb, the heap once per limit).
RulesMakeProgress ==
    [][stage = "start" /\ stage' = "running" /\ by \in {"rule", "memory"}
         => launched' # launched]_vars

\* A deployment that failed reports the phase it got furthest in, not the phase the
\* last repair broke and not the first that a repair answered (progressedPast).  Where a
\* start within the model's repair threw, the frame that asked the model reports, and
\* what it holds is the phase reached when it asked.  A kill with no memory left to give
\* is reported as itself.
ReportedIsFurthest ==
    stage = "FAILED" /\ ~exhausted /\ PhaseOrder(failure) > 0
        => PhaseOrder(failure) = IF threw THEN before ELSE furthest

\* SessionManager.ts:1576-1577: "The first diagnosis is kept - unless a later attempt got
\* further."  Not so when what the model's answer started got further, and a start after
\* it threw: the catch of tryRepair (1959-1964) leaves the outer frame its older one.
FurthestUnexcepted ==
    stage = "FAILED" /\ ~exhausted /\ PhaseOrder(failure) > 0 => PhaseOrder(failure) = furthest

\* AIRepair.ts:30-31: "**Progress.** Each attempt must differ from every previous
\* one."  A model's answer that only leaves the database's variable out differs when
\* it is compared, and is the same plan again once it has been provisioned.
EveryAttemptDiffers ==
    [][stage = "start" /\ stage' = "running" /\ by # "person" => launched' # launched]_vars
=============================================================================
