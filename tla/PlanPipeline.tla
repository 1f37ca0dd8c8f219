-------------------------------- MODULE PlanPipeline --------------------------------
(***************************************************************************)
(* SessionManager from a launch to running containers: clone, analyse,     *)
(* plan, ask, validate, start, and ask again about a crash.  One session;  *)
(* its slot, its stop and its teardown are SessionLifecycle's.             *)
(***************************************************************************)
EXTENDS ProjectPlanning, SessionStates

CONSTANTS
    Repos,       \* the repositories somebody launches, each as Read reads it
    ModelPlans,  \* what the fallback planner's model may answer with
    Replies      \* the values a person may give for a setting

VARIABLES
    repo,      \* the clone, as it is read
    state,     \* session.state
    analysed,  \* the directory session.metadata is of
    kind,      \* what session.plan, session.project and session.dockerSetup hold
    services,  \* session.project.services, or the one session.plan
    readFor,   \* the directory session.planMetadata is of; Nowhere when undefined
    ran,       \* the plans as launched, with what provisioning and wiring added
    pending,   \* session.pending: the settings or packages asked about
    asked,     \* session.askedSettings: what a crash has been asked about
    failure,   \* why the session failed
    questions, \* every setting anybody was asked for (for the properties)
    reply      \* the last answer: what was asked, and the values given (for the properties)

vars == <<repo, state, analysed, kind, services, readFor, ran, pending, asked, failure, questions, reply>>

NoQuestion == [env |-> {}, choices |-> {}, crash |-> FALSE]
NoReply == [asked |-> {}, values |-> <<>>]
Ended == {"READY", "FAILED", "CANCELLED"}

\* What is read of a clone, and what its rules plan: the same whenever they are asked.
PlannedAs(dirs, analysis, planned) ==
    [dirs |-> dirs, analysis |-> analysis, planned |-> planned,
     outcome |-> planRepository(dirs, analysis[Root], planned),
     project |-> draftProject(dirs, analysis[Root], planned)]

Read(dirs) == PlannedAs(dirs, [dir \in DOMAIN dirs |-> analyze(dirs, dir)],
                              [dir \in DOMAIN dirs |-> planAt(dirs, dir)])

\* A clone has directories, each with its facts, and is read.
ASSUME ReposAreRead ==
    \A r \in Repos :
        /\ r = Read(r.dirs)
        /\ Root \in DOMAIN r.dirs
        /\ \A d \in DOMAIN r.dirs :
              d \in Seq(STRING) /\ d # Nowhere /\ DOMAIN r.dirs[d].facts = DOMAIN Facts

\* A candidate is what inspectDir makes of a directory.
IsCandidate(dirs, c) ==
    c.dir \in DOMAIN dirs /\ c.scripts = DOMAIN dirs[c.dir].facts.package.scripts

\* A list that is selected or sorted from another holds what that one does: what
\* SelectSeq and SortSeq do, which the provers cannot read.
ASSUME ListsHoldCandidates ==
    \A r \in Repos :
        LET meta == r.analysis[Root]
        IN  /\ \A list \in {meta.services, meta.sole} :
                  list \in Seq(Range(list)) /\ \A c \in Range(list) : IsCandidate(r.dirs, c)
            /\ Ready(meta, r.planned) \in Seq({c \in Range(meta.services) : r.planned[c.dir].planned})

\* What a person gives is told apart from all that DevLaunch or a repository supplies.
ASSUME RepliesAreTold ==
    /\ Replies \cap {"", "injected", "generated"} = {}
    /\ \A r \in Repos : \A s \in Range(r.project.services) :
          \A k \in DOMAIN s.env : s.env[k].value \notin Replies

\* A plan, as RunPlanSchema parses it: every field, and no name of its own yet.
IsPlan(p) == DOMAIN p = DOMAIN Plan /\ p.name = Alone /\ p.role = "web"

\* AIPlanner's normalise pins what a model may not decide.
ASSUME ModelPlansArePlans == \A p \in ModelPlans : IsPlan(p) /\ p.source = "ai-fallback"

TypeOK ==
    /\ repo \in Repos
    /\ state \in ExecutionState
    /\ kind \in {"none", "single", "project", "docker"}
    /\ kind = "none" <=> services = <<>>
    /\ pending.choices \subseteq DOMAIN repo.dirs
    /\ asked \subseteq {q.key : q \in questions}

Init ==
    /\ repo \in Repos
    /\ state = "QUEUED" /\ analysed = Nowhere
    /\ kind = "none" /\ services = <<>> /\ readFor = Nowhere /\ ran = <<>>
    /\ pending = NoQuestion /\ asked = {} /\ failure = "none"
    /\ questions = {} /\ reply = NoReply

-----------------------------------------------------------------------------

metadata == repo.analysis[analysed]
SubdirChosen == analysed # Root

fail(why) == state' = "FAILED" /\ failure' = why

awaitInput(env, choices, crash) ==
    /\ state' = "AWAITING_INPUT"
    /\ pending' = [env |-> env, choices |-> choices, crash |-> crash]
    /\ questions' = questions \cup env

\* The gate: a question about what is missing, or on to the validator.
Gate(missing) ==
    LET left == {q \in missing : q.key \notin SelfSigning}
    IN  IF left # {} THEN awaitInput(left, {}, FALSE)
        ELSE state' = "VALIDATING" /\ UNCHANGED <<pending, questions>>

-----------------------------------------------------------------------------
(* Up to a plan *)

EnsureDocker ==
    /\ state = "QUEUED"
    /\ \/ state' = "CLONING" /\ UNCHANGED failure
       \/ fail("docker down")
    /\ UNCHANGED <<repo, analysed, kind, services, readFor, ran, pending, asked, questions, reply>>

Clone ==
    /\ state = "CLONING"
    /\ \/ state' = "ANALYZING" /\ analysed' = Root /\ UNCHANGED failure
       \/ fail("clone") /\ UNCHANGED analysed
    /\ UNCHANGED <<repo, kind, services, readFor, ran, pending, asked, questions, reply>>

Analyse ==
    /\ state = "ANALYZING"
    /\ IF desktopProgram(metadata) THEN fail("desktop") ELSE state' = "PLANNING" /\ UNCHANGED failure
    /\ UNCHANGED <<repo, analysed, kind, services, readFor, ran, pending, asked, questions, reply>>

\* Several services, planned as one project.
IsProject == ~SubdirChosen /\ repo.project.services # <<>>

PlanTheProject ==
    /\ state = "PLANNING" /\ IsProject
    /\ kind' = "project" /\ services' = repo.project.services
    /\ Gate(repo.project.missing)
    /\ UNCHANGED <<repo, analysed, readFor, ran, asked, failure, reply>>

\* What the planner says of a repository that is no project, or of the package chosen.
outcome == IF SubdirChosen THEN repo.planned[analysed] ELSE repo.outcome

PlanningOne == state = "PLANNING" /\ ~IsProject

AskForPackage ==
    /\ PlanningOne /\ Cardinality(outcome.choices) > 1
    /\ awaitInput({}, outcome.choices, FALSE)
    /\ UNCHANGED <<repo, analysed, kind, services, readFor, ran, asked, failure, reply>>

\* A plan of its own, from the rules or the model: the settings its directory's example
\* ships, a question for those the analysed directory's does not.
AcceptPlan(p) ==
    LET meta == metadata
        sub == IF p.dir = Root THEN meta ELSE repo.analysis[p.dir]
        supplied == provisionedKeys(meta.backing) \cup provisionedKeys(sub.backing)
        filled == withExampleDefaults(p, sub.facts.envExample, supplied, ReadDir(repo.dirs, p.dir).crashReads)
        declared == requiredConfigurationForSingle(meta)
        missing == declared \cup selfSigningMissing(repo.dirs, {filled}, declared)
    IN  /\ readFor' = IF p.dir = Root THEN Nowhere ELSE p.dir
        /\ kind' = "single"
        /\ services' = <<[filled EXCEPT !.env = Merged(@, generated(missing))]>>
        /\ Gate(missing)
        /\ UNCHANGED <<repo, analysed, ran, asked, failure, reply>>

PlanByRules ==
    /\ PlanningOne /\ Cardinality(outcome.choices) <= 1 /\ outcome.planned
    /\ AcceptPlan(outcome.plan)

\* No rule plans it, and no model is asked: the manifest cannot be read, the code is
\* somewhere else.
Undecided == PlanningOne /\ Cardinality(outcome.choices) <= 1 /\ ~outcome.planned
Hopeless == metadata.invalidManifest \/ metadata.unsourcedLinks

DeclinePlan ==
    LET docker == ReadDir(repo.dirs, Root).docker
    IN  /\ Undecided
        /\ \/ Hopeless /\ fail(IF metadata.invalidManifest THEN "invalid manifest" ELSE "no source")
           \/ ~Hopeless /\ docker = "refused" /\ fail("docker setup refused")
           \/ ~Hopeless /\ docker = "none" /\ fail("unsupported")
        /\ UNCHANGED <<repo, analysed, kind, services, readFor, ran, pending, asked, questions, reply>>

\* The repository's own Docker setup, before any model.
dockerProjectPlan ==
    [Plan EXCEPT !.language = "container", !.version = 0, !.source = "repo-docker", !.docker = TRUE,
                 !.port = 8080, !.name = <<"app", 1>>]

PlanDockerSetup ==
    /\ Undecided /\ ~Hopeless /\ ReadDir(repo.dirs, Root).docker = "setup"
    /\ kind' = "docker" /\ services' = <<dockerProjectPlan>>
    /\ state' = "VALIDATING"
    /\ UNCHANGED <<repo, analysed, readFor, ran, pending, asked, failure, questions, reply>>

\* The fallback planner: its answer is validated before it is a plan.
PlanByModel ==
    /\ Undecided /\ ~Hopeless /\ ReadDir(repo.dirs, Root).docker = "none" /\ ~outcome.unrunnable
    /\ \E p \in ModelPlans :
          IF validate(p) THEN AcceptPlan(p)
          ELSE /\ fail("unsupported")
               /\ UNCHANGED <<repo, analysed, kind, services, readFor, ran, pending, asked, questions, reply>>

-----------------------------------------------------------------------------
(* From a plan to containers *)

\* Mutant: those of the directory that was analysed
declaredScriptsAnalysed(s) ==
    IF kind = "single" THEN DOMAIN metadata.facts.package.scripts
    ELSE CandidateOf(metadata.services, s).scripts

\* The scripts of the manifest the plan runs beside.
declaredScripts(s) ==
    IF kind = "single"
    THEN DOMAIN repo.analysis[IF readFor = Nowhere THEN analysed ELSE readFor].facts.package.scripts
    ELSE CandidateOf(metadata.services, s).scripts

FilesOf(dir) == Range(ReadDir(repo.dirs, dir).facts.package.entryFiles)

\* The one gate for every plan.  A Docker setup's own launch looks for no image.
Rejected(s) == ~validate(s) \/ (kind # "docker" /\ ~imageForRuntime(s))
Impossible(s) == impossibleCommand(s, declaredScripts(s)) \/ missingEntryFile(s, FilesOf(s.dir))

refuseImpossiblePlan(s) == fail(IF s.source = "ai-fallback" THEN "invalid AI plan" ELSE "DevLaunch bug")

\* Each service in turn; the first that is refused ends the run.
Validate ==
    LET refused == {i \in DOMAIN services : Rejected(services[i]) \/ Impossible(services[i])}
        first == services[Min(refused)]
    IN  /\ state = "VALIDATING"
        /\ IF refused = {} THEN state' = "STARTING" /\ UNCHANGED failure
           ELSE IF Rejected(first) THEN fail("rejected")
           ELSE refuseImpossiblePlan(first)
        /\ UNCHANGED <<repo, analysed, kind, services, readFor, ran, pending, asked, questions, reply>>

Injected(keys) == [k \in keys |-> Value("injected")]

\* One plan: the injected value wins over the plan's.  Without its databases it starts
\* all the same, and says what it lacks.
LaunchOne ==
    /\ state = "STARTING" /\ kind = "single"
    /\ \E keys \in {{}, provisionedKeys(metadata.backing)} :
          services' = <<[services[1] EXCEPT !.env = Layered(Injected(keys), @)]>>
    /\ ran' = services'
    /\ state' = "WAITING_FOR_READY"
    /\ UNCHANGED <<repo, analysed, kind, readFor, pending, asked, failure, questions, reply>>

\* A project: what its services carry wins; siblings' addresses are added last.  A Docker
\* setup's services get nothing, and may not be built.
LaunchProject ==
    LET envKeys(s) == CandidateOf(metadata.services, s).envKeys
        added(s) == IF kind = "docker" THEN {}
                    ELSE provisionedKeys(metadata.backing) \cup wireService(services, s, envKeys(s))
    IN  /\ state = "STARTING" /\ kind # "single"
        /\ \/ /\ ran' = [i \in DOMAIN services |->
                            [services[i] EXCEPT !.env =
                                Layered(Restrict(@, Given(services[i])),
                                        Layered(Injected(added(services[i])), @))]]
              /\ state' = "WAITING_FOR_READY" /\ UNCHANGED failure
           \/ kind = "project" /\ DOMAIN metadata.backing # {} /\ fail("no database") /\ UNCHANGED ran
           \/ kind = "docker" /\ fail("application") /\ UNCHANGED ran
        /\ UNCHANGED <<repo, analysed, kind, services, readFor, pending, asked, questions, reply>>

Finish ==
    /\ state = "WAITING_FOR_READY"
    /\ \/ state' = "READY" /\ UNCHANGED failure
       \/ fail("application")
    /\ UNCHANGED <<repo, analysed, kind, services, readFor, ran, pending, asked, questions, reply>>

Blank == "blank"     \* a value that is given, and empty

\* The settings the code of a service reads and nothing set.
ReadUnset(s) ==
    LET d == ReadDir(repo.dirs, s.dir)
    IN  (d.envReads \cup d.crashReads) \ ({k \in Given(s) : s.env[k].value # Blank} \cup ALWAYS_SUPPLIED)

\* Mutant: a setting is asked about as often as it is missed
UnaskedEver(s) == ReadUnset(s)

Unasked(s) == ReadUnset(s) \ asked

\* A service crashed on the line that reads some of them: each is asked about once.
CrashOnSettings ==
    /\ state = "WAITING_FOR_READY"
    /\ \E i \in DOMAIN ran :
          \E keys \in SUBSET Unasked(ran[i]) \ {{}} :
              /\ awaitInput({[service |-> ran[i].name, key |-> k] : k \in keys}, {}, TRUE)
              /\ asked' = asked \cup keys
    /\ failure' = "missing settings" /\ ran' = <<>>
    /\ UNCHANGED <<repo, analysed, kind, services, readFor, reply>>

-----------------------------------------------------------------------------
(* Answers *)

\* A package this run offered.
ChoosePackage(dir) ==
    /\ state = "AWAITING_INPUT" /\ dir \in pending.choices
    /\ analysed' = dir /\ state' = "ANALYZING"
    /\ UNCHANGED <<repo, kind, services, readFor, ran, pending, asked, failure, questions, reply>>

\* An answer that chooses none, to a session that has no plan.
ResumeWithoutPlan ==
    /\ state = "AWAITING_INPUT" /\ kind = "none"
    /\ fail("no plan")
    /\ UNCHANGED <<repo, analysed, kind, services, readFor, ran, pending, asked, questions, reply>>

\* Values for settings: to the plan, or each to the services that declare it.
ResumeWith(values) ==
    LET nonblank == [k \in {k \in DOMAIN values : values[k] # Blank} |-> values[k]]
    IN  /\ state = "AWAITING_INPUT" /\ kind # "none"
        /\ services' =
              IF kind = "single" THEN <<[services[1] EXCEPT !.env = Merged(@, values)]>>
              ELSE LET applied == applyConfiguration(services, metadata.services, values)
                   IN  IF pending.crash THEN withCrashAnswers(applied, pending.env, nonblank) ELSE applied
        /\ kind' = IF kind = "single" THEN "single" ELSE "project"
        /\ state' = "VALIDATING"
        /\ pending' = NoQuestion
        /\ reply' = [asked |-> pending.env, values |-> values]
        /\ failure' = IF pending.crash THEN "none" ELSE failure
        /\ UNCHANGED <<repo, analysed, readFor, ran, asked, questions>>

Undeclared == "UNDECLARED"   \* a name nothing asked for

Resume ==
    LET names == {q.key : q \in pending.env}
    IN  \E keys \in (SUBSET names) \cup {names \cup {Undeclared}} : \E v \in Replies :
            ResumeWith([k \in keys |-> v])

\* Nobody answered.
CancelUnanswered ==
    /\ state = "AWAITING_INPUT"
    /\ state' = "CANCELLED" /\ failure' = "timeout"
    /\ UNCHANGED <<repo, analysed, kind, services, readFor, ran, pending, asked, questions, reply>>

-----------------------------------------------------------------------------

Work ==
    \/ EnsureDocker \/ Clone \/ Analyse
    \/ PlanTheProject \/ AskForPackage \/ PlanByRules \/ DeclinePlan \/ PlanDockerSetup \/ PlanByModel
    \/ Validate \/ LaunchOne \/ LaunchProject \/ Finish \/ CrashOnSettings

Person == (\E dir \in pending.choices : ChoosePackage(dir)) \/ ResumeWithoutPlan \/ Resume

Next == Work \/ Person \/ CancelUnanswered

Spec == Init /\ [][Next]_vars

\* Every step of the program itself is a promise that settles or a timer that fires; a
\* person need not answer.
FairSpec == Spec /\ WF_vars(Work) /\ WF_vars(CancelUnanswered)

-----------------------------------------------------------------------------
(* Properties *)

Launched == state = "WAITING_FOR_READY"
AskedOf(s) == {q.key : q \in {q \in questions : q.service = s.name}}

\* A plan the rules made names only scripts the repository has: it is never refused as
\* one DevLaunch should not have made (refuseImpossiblePlan's "a rule producing one is a
\* bug here"), whichever directory the plan runs in.
RulePlansCanRun == failure # "DevLaunch bug"

\* A value given for a project is in the environment of every service it was asked for,
\* and in that of no service that neither declares its name nor was asked about it.
AnswersGoHome ==
    Launched /\ kind = "project" =>
        \A s \in Range(ran) :
            LET c == CandidateOf(metadata.services, s)
                given == {k \in DOMAIN s.env : s.env[k].value \in Replies \ {Blank}}
            IN  /\ given \subseteq NamesOf(c.envExample) \cup c.envKeys \cup AskedOf(s)
                /\ \A q \in reply.asked :
                      q.service = s.name /\ q.key \in DOMAIN reply.values /\ reply.values[q.key] # Blank
                          => s.env[q.key].value = reply.values[q.key]

\* A container starts with every setting its example declares without a value, or
\* somebody was asked for it.  What a database supplies is injected by then, and a name
\* for a sibling's address is left to the wiring (which may find no sibling).  Of the
\* services the gate reads: those that run where their example is, and not in an image
\* the repository builds, whose settings its own setup gives.
NothingIsLeftUnasked ==
    Launched =>
        \A s \in {s \in Range(ran) : ~s.docker} :
            LET c == CandidateOf(metadata.services, s)
                read == IF kind # "single" THEN Range(c.envExample)
                        ELSE IF s.dir = analysed THEN Range(metadata.facts.envExample) ELSE {}
            IN  {v.key : v \in {v \in read : ~v.hasDefault}}
                    \subseteq Given(s) \cup AskedOf(s) \cup ALWAYS_SUPPLIED
                        \cup provisionedNames(metadata.backing)
                        \cup (IF kind = "single" THEN provisionedKeys(metadata.backing)
                              ELSE wirableKeys(s.role, c.envKeys))

\* What an example gives a value; a file may declare the same setting again, without.
ShippedBy(c) == {v.key : v \in {v \in Range(c.envExample) : v.value # ""}}

\* Nobody is asked before a run for a value DevLaunch decides: a database's address, a
\* sibling's; of a project, not what its plans carry either (unless the example declares
\* a setting once with a value and once without).
NeverAskedForOurOwn ==
    state = "AWAITING_INPUT" /\ ~pending.crash =>
        \A q \in pending.env : \A s \in {s \in Range(services) : s.name = q.service} :
            LET c == CandidateOf(metadata.services, s)
            IN  q.key \notin (IF kind = "single" THEN provisionedKeys(metadata.backing)
                              ELSE provisionedNames(metadata.backing))
                                 \cup wireService(services, s, c.envKeys)
                                 \cup (IF kind = "project" THEN Given(s) \ ShippedBy(c) ELSE {})

\* The port DevLaunch watches is the one the command was told, where a rule told it by a
\* flag.  What a model says of a port is only its word.
FollowsItsPort(s) ==
    s.source = "rule-based" /\ s.start.flag \in {"--port", "-p"} => s.start.port = s.port

PortsAgree == Launched => \A s \in Range(ran) : FollowsItsPort(s)

\* Whoever walks away, and however often a start crashes on settings, the run ends: a
\* setting is asked about once.
PipelineEnds == <>(state \in Ended)

\* RuleBasedPlanner.ts:600: of a script that starts several programs, "PORT stays the
\* API's": it is not the port the page is watched on.
PortStaysTheApis ==
    Launched => \A s \in {s \in Range(ran) : s.source = "rule-based"} :
        LET scripts == ReadDir(repo.dirs, s.dir).facts.package.scripts
            script == scriptRun(s.start)
        IN  script \in DOMAIN scripts /\ RunsSeveral(scripts[script]) => s.portEnv # s.port

\* SessionManager.ts:907, "ask for configuration before building a container that would
\* only crash for want of it": no plan is launched with a setting it still carries as
\* required, and nobody was asked.
GateAsksForPlaceholders ==
    Launched => \A s \in Range(ran) : \A k \in DOMAIN s.env :
        s.env[k].required /\ s.env[k].value = "" => k \in AskedOf(s)

\* RequiredConfiguration.ts:234, "so a person is never asked for a database password
\* DevLaunch is about to supply": nobody is asked before a run for a setting a database is
\* injected under.
NoDatabaseIsAskedFor ==
    state = "AWAITING_INPUT" /\ ~pending.crash =>
        {q.key : q \in pending.env} \cap provisionedKeys(metadata.backing) = {}

\* SessionManager.ts:2027, "ask for that setting, and start again with it": what was
\* running when it crashed is not refused once its settings are given.
AnsweredRunStartsAgain ==
    asked # {} /\ (\A k \in DOMAIN reply.values : validateEnvVarValue(reply.values[k]))
        => failure # "rejected"
=============================================================================
