------------------------------ MODULE FailureRules ------------------------------
(***************************************************************************)
(* What DevLaunch makes of an attempt that failed, as pure operators: the  *)
(* signatures a log is searched for, the memory evidence, the policy of    *)
(* each failure class, the memory ladder, and the fourteen rules that      *)
(* rewrite a plan from evidence.                                           *)
(*                                                                         *)
(* A log line is a name.  One name stands for every line the patterns of   *)
(* one signature match; lines only a rule reads have names of their own.   *)
(* A plan is the record of the fields some rule reads or writes.           *)
(***************************************************************************)
EXTENDS Integers, Sequences, FiniteSets, FiniteSetsExt, SequencesExt

CONSTANTS
    InitialMb,      \* the limit a container starts with, and the raises above it
    MaxMb,
    StepMb,         \* a fixed increment; 0 doubles
    RetryEnabled,
    RetryLimit,
    MaxRepairs,     \* MAX_REPAIR_ATTEMPTS
    Newest,         \* runtimes 1..Newest are approved, oldest first
    Settings        \* what the program may read from its environment, and nobody gave

ASSUME MemoryAssumption ==
    /\ InitialMb \in Nat \ {0} /\ MaxMb \in Nat /\ StepMb \in Nat
    /\ RetryEnabled \in BOOLEAN /\ RetryLimit \in Nat
    /\ MaxRepairs \in Nat /\ Newest \in Nat \ {0}

ASSUME SettingsAssumption == IsFiniteSet(Settings)

-----------------------------------------------------------------------------
(* The signatures, in the order they are tried *)

AnyPhase == {"none", "install", "build", "start"}
Preparing == {"install", "build"}
Running == {"build", "start"}

S(line, code, phases) == [line |-> line, code |-> code, phases |-> phases]

SandboxSignatures == <<
    S("heapLimit",     "OUT_OF_MEMORY",             AnyPhase),
    S("Killed",        "OUT_OF_MEMORY",             AnyPhase),
    S("noSocket",      "DOCKER_SOCKET_REQUIRED",    AnyPhase),
    S("workspaceUrl",  "DEPENDENCY_INSTALL_FAILED", AnyPhase),
    S("diskFull",      "DEPENDENCY_INSTALL_FAILED", AnyPhase) >>

EnvironmentSignatures == <<
    S("execFormat",    "ARCH_INCOMPATIBLE",         AnyPhase),
    S("refusedDb",     "DATABASE_REQUIRED",         AnyPhase),
    S("unsetVariable", "MISSING_ENV",               AnyPhase),
    S("unknownBuiltin","WRONG_RUNTIME_VERSION",     AnyPhase),
    S("TSError",       "START_COMMAND_FAILED",      {"start"}),
    S("opensslHash",   "WRONG_RUNTIME_VERSION",     AnyPhase),
    S("badEngine",     "WRONG_RUNTIME_VERSION",     AnyPhase) >>

InstallSignatures == <<
    S("ERESOLVE",      "DEPENDENCY_INSTALL_FAILED", {"install"}),
    S("flatLayout",    "DEPENDENCY_INSTALL_FAILED", {"install"}),
    S("noPgConfig",    "DEPENDENCY_INSTALL_FAILED", Preparing),
    S("sdistOldBuild", "WRONG_RUNTIME_VERSION",     Preparing),
    S("removedStdlib", "WRONG_RUNTIME_VERSION",     AnyPhase),
    S("noPython",      "DEPENDENCY_INSTALL_FAILED", Preparing),
    S("gypError",      "DEPENDENCY_INSTALL_FAILED", Preparing),
    S("noSuchVersion", "DEPENDENCY_INSTALL_FAILED", {"install"}) >>

NetworkSignatures == <<
    S("badManifest",   "INVALID_MANIFEST",          AnyPhase),
    S("hostUnknown",   "DEPENDENCY_INSTALL_FAILED", {"install"}),
    S("registryDown",  "NETWORK_FAILURE",           AnyPhase) >>

StartSignatures == <<
    S("ownFileMissing","BROKEN_IMPORT",             Running),
    S("entryMissing",  "START_COMMAND_FAILED",      {"start"}),
    S("noModule",      "START_COMMAND_FAILED",      Running),
    S("noOtherModule", "START_COMMAND_FAILED",      Running),
    S("addressInUse",  "PORT_NOT_LISTENING",        {"start"}),
    S("noEnvFile",     "MISSING_ENV",               {"start"}),
    S("notFound",      "START_COMMAND_FAILED",      AnyPhase),
    S("missingScript", "START_COMMAND_FAILED",      AnyPhase) >>

SIGNATURES == SandboxSignatures \o EnvironmentSignatures \o InstallSignatures
                \o NetworkSignatures \o StartSignatures

\* A failure: its class, the phase it is placed in ("none" where the code leaves
\* the field out), the line quoted, the socket the kernel showed (0: none), which
\* memory ran out ("none": not about memory), and whether it exited with 127, the one
\* code a rule reads.
Failure(code, phase) ==
    [code |-> code, phase |-> phase, evidence |-> "none", socket |-> 0, memory |-> "none",
     exit127 |-> FALSE]

NoFailure == Failure("none", "none")

\* The first signature of this phase that any line matches; else exit 137 read as
\* the kernel's kill; else the coarse verdict, with the last line worth showing.
classify(phase, lines, exit, fallback) ==
    LET hits == {i \in DOMAIN SIGNATURES :
                    phase \in SIGNATURES[i].phases /\ SIGNATURES[i].line \in lines}
    IN  IF hits # {}
        THEN [Failure(SIGNATURES[Min(hits)].code, phase)
                EXCEPT !.evidence = SIGNATURES[Min(hits)].line]
        ELSE IF exit = 137 THEN Failure("OUT_OF_MEMORY", phase)
        ELSE IF lines = {} THEN fallback
        ELSE [fallback EXCEPT !.evidence = CHOOSE l \in lines : TRUE]

-----------------------------------------------------------------------------
(* Memory: the evidence, the ladder, the heap *)

\* Docker's flag ("yes", "no", "unread") first; the heap message next; a Killed
\* line or exit 137 only where the flag could not be read.
detectOom(flag, exit, lines) ==
    IF flag = "yes" THEN "container"
    ELSE IF "heapLimit" \in lines THEN "node-heap"
    ELSE IF flag = "unread" /\ ("Killed" \in lines \/ exit = 137) THEN "container"
    ELSE "none"

\* A verdict of memory from the text alone is withdrawn when Docker says no.
withMemoryEvidence(failure, oom, flag, coarse) ==
    IF oom # "none" THEN [failure EXCEPT !.code = "OUT_OF_MEMORY", !.memory = oom]
    ELSE IF failure.code = "OUT_OF_MEMORY" /\ flag = "no"
    THEN [coarse EXCEPT !.evidence = failure.evidence]
    ELSE failure

memoryVerdict(failure, flag, exit, lines, phase, coarse) ==
    withMemoryEvidence(
        IF failure.phase # "none" THEN failure ELSE [failure EXCEPT !.phase = phase],
        detectOom(flag, exit, lines), flag, coarse)

\* The ceiling is never below the first limit, which is honoured as it is set.
Ceiling == Max({MaxMb, InitialMb})

\* The next limit after a kill at mb, free being what the machine has left
\* (-1: unknown); {} when there is none.
nextMemoryMb(mb, raises, free) ==
    LET wanted == IF StepMb > 0 THEN mb + StepMb ELSE 2 * mb
        next   == Min({wanted, Ceiling} \cup IF free < 0 THEN {} ELSE {free})
    IN  IF RetryEnabled /\ raises < RetryLimit /\ next > mb THEN {next} ELSE {}

nodeHeapMbFor(mb) == Max({128, Min({(3 * mb) \div 4, mb - 256})})

-----------------------------------------------------------------------------
(* The policy of a failure class *)

RuleClasses == {"OUT_OF_MEMORY", "START_COMMAND_FAILED", "PORT_NOT_LISTENING",
    "PORT_BOUND_TO_LOCALHOST", "READINESS_TIMEOUT", "APPLICATION_UNHEALTHY",
    "DEPENDENCY_INSTALL_FAILED", "BUILD_FAILED", "WRONG_RUNTIME_VERSION", "PROCESS_TIMEOUT"}

Repairability(code) ==
    IF code \in RuleClasses THEN "DETERMINISTIC"
    ELSE IF code = "UNKNOWN_RUNTIME_ERROR" THEN "AI_ONLY" ELSE "NON_REPAIRABLE"

\* How many model calls a failure of this class may be answered with.
AiCalls(code) ==
    IF Repairability(code) = "NON_REPAIRABLE"
       \/ code \in {"OUT_OF_MEMORY", "WRONG_RUNTIME_VERSION"} THEN 0 ELSE 1

-----------------------------------------------------------------------------
(* The plan, and the rules that rewrite it.  A rule returns the set of what it  *)
(* proposes: {} where the code returns null.                                    *)

\* Where a command is one of several shapes, the field names the shape: install "none" |
\* "strict" | "relaxed" (a manager's), "flat" (pip install .), "generated",
\* "declared" (-r requirements.txt), "byName" (pip install a b c); build "none" |
\* "planned" | "rewritten" (by a model: no rule does);
\* start "script:x" | "console" (uvicorn ...) | "module" (python -m uvicorn ...).
Plans == [install : {"none", "strict", "relaxed", "flat", "generated", "declared", "byName"},
          added : BOOLEAN, legacyPeers : BOOLEAN, build : {"none", "planned", "rewritten"},
          start : {"script:dev", "script:start", "invented", "console", "module"},
          port : Nat, host : BOOLEAN, loopbackFlag : BOOLEAN, runtime : 1..Newest,
          legacyOpenssl : BOOLEAN, transpileOnly : BOOLEAN, path : {"/", "/docs"},
          database : BOOLEAN, given : SUBSET Settings, forced : BOOLEAN, fromModel : BOOLEAN]

\* What makes a plan one already tried: everything that runs, not who wrote it.
signature(p) == [p EXCEPT !.forced = FALSE, !.fromModel = FALSE]

\* The model's answer is compared without the health path and the OpenSSL flag.
aiSignature(p) == [signature(p) EXCEPT !.path = "/", !.legacyOpenssl = FALSE]

\* ts-node refused code that does not type-check: run it unchecked.
TranspileOnly(p, repo, f, text) ==
    IF f.code \in {"START_COMMAND_FAILED", "PORT_NOT_LISTENING", "APPLICATION_EXITED"}
       /\ "TSError" \in text /\ ~p.transpileOnly
    THEN {[p EXCEPT !.transpileOnly = TRUE]} ELSE {}

\* A strict install refused a lockfile out of step with its manifest.
RelaxInstall(p, repo, f, text) ==
    IF f.code = "DEPENDENCY_INSTALL_FAILED" /\ p.install = "strict" /\ "lockfile" \in text
    THEN {[p EXCEPT !.install = "relaxed"]} ELSE {}

\* npm refused a peer conflict that npm 6 installed with a warning.
LegacyPeers(p, repo, f, text) ==
    IF f.code = "DEPENDENCY_INSTALL_FAILED" /\ p.install \in {"strict", "relaxed"}
       /\ ~p.legacyPeers /\ "ERESOLVE" \in text
    THEN {[p EXCEPT !.legacyPeers = TRUE]} ELSE {}

\* The start script does not exist, and the manifest has another.  Read from the
\* evidence and the message, never from the log.
OtherScript(p, repo, f, text) ==
    IF f.code = "START_COMMAND_FAILED" /\ f.evidence = "missingScript"
       /\ \E s \in repo.scripts : s # p.start
    THEN {[p EXCEPT !.start = CHOOSE s \in repo.scripts : s # p.start]} ELSE {}

\* pip was asked to build a project that is not a package.
GeneratedRequirements(p, repo, f, text) ==
    IF f.code = "DEPENDENCY_INSTALL_FAILED" /\ "flatLayout" \in text
       /\ p.install = "flat" /\ repo.declares
    THEN {[p EXCEPT !.install = "generated"]} ELSE {}

\* psycopg2 cannot build: the same list by name, with the wheel's name in it -- or
\* without the pin that has no wheel; the list unchanged is no repair.
InstallByName(p, repo, f, text) ==
    IF f.code = "DEPENDENCY_INSTALL_FAILED" /\ "noPgConfig" \in text
       /\ p.install = "declared" /\ ~p.added /\ repo.psycopg \in {"source", "pinned"}
    THEN {[p EXCEPT !.install = "byName"]} ELSE {}

\* The package an error names: added to a list DevLaunch composed; to one the
\* repository declared only when its own source imports it and its list does not
\* name it.
AddPackage(p, repo, f, text) ==
    IF f.code \in {"START_COMMAND_FAILED", "BUILD_FAILED"}
       /\ "noModule" \in text /\ ~p.added
       /\ \/ p.install = "byName"
          \/ p.install = "declared" /\ repo.imports
    THEN {[p EXCEPT !.added = TRUE]} ELSE {}

\* A Python console script is not on PATH; the module is.
RunAsModule(p, repo, f, text) ==
    IF f.code = "START_COMMAND_FAILED" /\ p.start = "console" /\ ("notFound" \in text \/ f.exit127)
    THEN {[p EXCEPT !.start = "module"]} ELSE {}

\* webpack 4 on Node 17 and later.
LegacyOpenssl(p, repo, f, text) ==
    IF f.code = "WRONG_RUNTIME_VERSION" /\ repo.language = "node"
       /\ ~p.legacyOpenssl /\ "opensslHash" \in text
    THEN {[p EXCEPT !.legacyOpenssl = TRUE]} ELSE {}

\* Only a signature says which way the runtime is wrong.
Older(f) == f.evidence \in {"opensslHash", "removedStdlib"}

\* The nearest approved runtime above, for one that is too old and only for that.
NewerRuntime(p, repo, f, text) ==
    IF f.code = "WRONG_RUNTIME_VERSION" /\ ~Older(f) /\ p.runtime < Newest
       /\ ~(repo.language = "python" /\ "removedStdlib" \in text)
    THEN {[p EXCEPT !.runtime = p.runtime + 1]} ELSE {}

\* The container's socket table shows another port open; the bind address is
\* corrected with it.
ObservedPort(p, repo, f, text) ==
    IF f.code \in {"PORT_NOT_LISTENING", "PORT_BOUND_TO_LOCALHOST"}
       /\ f.socket # 0 /\ f.socket # p.port
    THEN {[p EXCEPT !.port = f.socket, !.host = TRUE, !.loopbackFlag = FALSE, !.forced = TRUE]}
    ELSE {}

\* The log names another port.
LoggedPort(p, repo, f, text) ==
    IF f.code = "PORT_NOT_LISTENING" /\ "listeningElsewhere" \in text /\ p.port # repo.logsPort
    THEN {[p EXCEPT !.port = repo.logsPort]} ELSE {}

\* Bound to loopback.
BindAll(p, repo, f, text) ==
    IF f.code = "PORT_BOUND_TO_LOCALHOST" /\ (~p.host \/ p.loopbackFlag)
    THEN {[p EXCEPT !.host = TRUE, !.loopbackFlag = FALSE, !.forced = TRUE]} ELSE {}

\* The root 404s on a framework whose documentation page is a known path.
DocsPath(p, repo, f, text) ==
    IF f.code \in {"APPLICATION_UNHEALTHY", "READINESS_TIMEOUT"} /\ p.path = "/"
       /\ p.start \in {"console", "module"} /\ "root404" \in text
    THEN {[p EXCEPT !.path = "/docs"]} ELSE {}

Proposals(p, repo, f, text) == <<
    TranspileOnly(p, repo, f, text), RelaxInstall(p, repo, f, text),
    LegacyPeers(p, repo, f, text), OtherScript(p, repo, f, text),
    GeneratedRequirements(p, repo, f, text), InstallByName(p, repo, f, text),
    AddPackage(p, repo, f, text), RunAsModule(p, repo, f, text),
    LegacyOpenssl(p, repo, f, text), NewerRuntime(p, repo, f, text),
    ObservedPort(p, repo, f, text), LoggedPort(p, repo, f, text),
    BindAll(p, repo, f, text), DocsPath(p, repo, f, text) >>

\* Mutant: the progress check is left to the rules.
tryDeterministicRepairUnchecked(p, previous, repo, f, text) ==
    LET rules == Proposals(p, repo, f, text)
        fresh == {i \in DOMAIN rules \ repo.refused : rules[i] # {}}
    IN  IF fresh = {} THEN {} ELSE rules[Min(fresh)]

\* The first proposal that the validator passes and that was not tried before; {} when
\* there is none.
tryDeterministicRepair(p, previous, repo, f, text) ==
    LET seen  == {signature(q) : q \in {p} \cup previous}
        rules == Proposals(p, repo, f, text)
        fresh == {i \in DOMAIN rules \ repo.refused :
                    rules[i] # {} /\ \A q \in rules[i] : signature(q) \notin seen}
    IN  IF fresh = {} THEN {} ELSE rules[Min(fresh)]

-----------------------------------------------------------------------------
(* Which of two diagnoses is kept *)

PhaseOrder(f) == CASE f.phase = "install" -> 1 [] f.phase = "build" -> 2
                   [] f.phase = "start" -> 3 [] OTHER -> 0

MissingPackage(f) == IF f.evidence \in {"noModule", "noOtherModule"} THEN f.evidence ELSE "none"

\* Mutant: any change of the quoted line counts as progress.
progressedPastAny(first, latest) ==
    first # NoFailure /\ latest # NoFailure /\ latest.evidence # first.evidence

\* A later phase, or the same phase with the missing package no longer missing.
progressedPast(first, latest) ==
    /\ first # NoFailure /\ latest # NoFailure
    /\ PhaseOrder(first) > 0 /\ PhaseOrder(latest) > 0
    /\ \/ PhaseOrder(latest) > PhaseOrder(first)
       \/ /\ PhaseOrder(latest) = PhaseOrder(first)
          /\ MissingPackage(first) # "none" /\ latest.evidence # "none"
          /\ MissingPackage(latest) # MissingPackage(first)

=============================================================================
