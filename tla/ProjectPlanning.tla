------------------------------ MODULE ProjectPlanning ------------------------------
(***************************************************************************)
(* From a repository's metadata to what runs: the one plan of              *)
(* RuleBasedPlanner.planRepository or the several of ProjectPlanner, the   *)
(* settings each still needs, and where the values given for them go.      *)
(***************************************************************************)
EXTENDS Discovery

Merged(env, values) == Layered([k \in DOMAIN values |-> [value |-> values[k], required |-> TRUE]], env)
OnlyKeys(f, keys) == Restrict(f, DOMAIN f \cap keys)

-----------------------------------------------------------------------------
(* One plan *)

\* A workspace installs at its root, with the manager that wrote its lockfile.
InstalledAtRoot(repo, p) ==
    LET root == ReadDir(repo, Root).facts
    IN  [p EXCEPT !.install = detectNodeInstall(root), !.installDirectory = Root,
                  !.manager = Manager(root)]

\* What a directory is planned as, on its own: `planned` below maps each to this.
planAt(repo, dir) == plan(readFacts(ReadDir(repo, dir)), dir)

\* Several runnable packages are a choice for a person.  One is planned where it lives,
\* and so is the one service of a repository whose root plans to nothing.
planRepository(repo, meta, planned) ==
    LET atRoot == planned[Root]
    IN  IF Cardinality(meta.runnable) > 1 THEN [Unplanned EXCEPT !.choices = meta.runnable]
        ELSE IF meta.runnable # {}
        THEN LET only == planned[CHOOSE d \in meta.runnable : TRUE]
             IN  IF only.planned /\ isWorkspaceRoot(repo)
                 THEN [only EXCEPT !.plan = InstalledAtRoot(repo, @)] ELSE only
        ELSE IF atRoot.planned \/ atRoot.unrunnable \/ meta.sole = <<>> THEN atRoot
        ELSE LET sole == planned[meta.sole[1].dir] IN IF sole.planned THEN sole ELSE atRoot

-----------------------------------------------------------------------------
(* One plan for each service *)

\* Mutant: the command keeps the planner's port
withStartPortUnmoved(command, from, to) == command

withStartPort(command, from, to) ==
    IF command.flag \in {"--port", "-p"} /\ command.port = from
    THEN [command EXCEPT !.port = to] ELSE command

\* A name other services can resolve: the directory's, numbered when it is taken.
dnsName(candidates, i) ==
    LET base(c) == IF c.dir = Root THEN "root" ELSE Last(c.dir)
        taken == {j \in 1..(i - 1) : base(candidates[j]) = base(candidates[i])}
    IN  <<base(candidates[i]), Cardinality(taken) + 1>>

\* The port everything else in the repository agrees on is the candidate's own.
ServicePlan(repo, candidate, name, planned) ==
    LET port == IF candidate.port # 0 THEN candidate.port ELSE planned.port
        installed == IF isWorkspaceRoot(repo) /\ planned.language = "node"
                     THEN InstalledAtRoot(repo, planned) ELSE planned
    IN  [installed EXCEPT !.port = port, !.portEnv = port,
                          !.start = withStartPort(@, planned.port, port),
                          !.name = name, !.role = candidate.role]

\* Services that cannot be planned are left out; fewer than two are no project (<<>>).
Ready(meta, planned) == SelectSeq(meta.services, LAMBDA c : planned[c.dir].planned)

planProject(repo, meta, planned) ==
    LET ready == Ready(meta, planned)
    IN  IF Len(ready) < 2 THEN <<>>
        ELSE [i \in DOMAIN ready |->
                 ServicePlan(repo, ready[i], dnsName(ready, i), planned[ready[i].dir].plan)]

-----------------------------------------------------------------------------
(* What DevLaunch supplies by itself *)

provisionedNames(backing) == UNION {backing[k] : k \in DOMAIN backing}

\* Every name a provisioned database is injected under; the generic ones only when they
\* can mean one database.
provisionedKeys(backing) ==
    provisionedNames(backing) \cup UNION {ComponentKeys[k] : k \in DOMAIN backing}

wirableKeys(role, declared) ==
    declared \cap (CASE role = "web" -> API_BASE_KEYS [] role = "api" -> ORIGIN_KEYS [] OTHER -> {})

\* What is wired in the end: to a page when there is an API, to an API when there is a page.
wireService(project, service, declared) ==
    LET other == IF service.role = "web" THEN "api" ELSE "web"
    IN  IF \E s \in Range(project) : s.role = other THEN wirableKeys(service.role, declared) ELSE {}

NoCandidate == [envKeys |-> {}, envExample |-> <<>>, scripts |-> {}]
CandidateAt(candidates, dir) == FirstOf(candidates, LAMBDA c : c.dir = dir, NoCandidate)
CandidateOf(candidates, service) == CandidateAt(candidates, service.dir)

Given(p) == {k \in DOMAIN p.env : p.env[k].value # ""}

\* Mutant: the databases are forgotten
suppliedKeysBare(service, candidate, backing) ==
    ALWAYS_SUPPLIED \cup Given(service) \cup wirableKeys(service.role, candidate.envKeys)

suppliedKeys(service, candidate, backing) ==
    ALWAYS_SUPPLIED \cup Given(service) \cup provisionedNames(backing)
        \cup wirableKeys(service.role, candidate.envKeys)

-----------------------------------------------------------------------------
(* What a person still has to give *)

\* What one service still needs.
missingFor(s, c, backing) ==
    {[service |-> s.name, key |-> k] :
        k \in {v.key : v \in {v \in Range(c.envExample) : ~v.hasDefault}} \ suppliedKeys(s, c, backing)}

\* Mutant: one question for each setting
requiredConfigurationByKey(project, candidates, backing) ==
    LET all == UNION {missingFor(s, CandidateOf(candidates, s), backing) : s \in Range(project)}
    IN  {CHOOSE q \in all : q.key = k : k \in {q.key : q \in all}}

\* One question for each service that declares the setting.
requiredConfiguration(project, candidates, backing) ==
    UNION {missingFor(s, CandidateOf(candidates, s), backing) : s \in Range(project)}

requiredConfigurationForSingle(meta) ==
    {[service |-> Alone, key |-> k] :
        k \in {v.key : v \in Undefaulted(meta.facts)} \ (ALWAYS_SUPPLIED \cup provisionedKeys(meta.backing))}

\* Secrets that only sign the application's own things, read by its code and set by nothing.
selfSigningMissing(repo, services, already) ==
    UNION {{[service |-> s.name, key |-> k] :
               k \in (ReadDir(repo, s.dir).envReads \cap SelfSigning) \ Given(s)} : s \in services}
        \ already

-----------------------------------------------------------------------------
(* Where values go *)

\* Mutant: every value to every service
applyConfigurationAll(project, candidates, values) ==
    [i \in DOMAIN project |-> [project[i] EXCEPT !.env = Merged(@, values)]]

\* A flat map of values, each to the services that declare its name.
applyConfiguration(project, candidates, values) ==
    [i \in DOMAIN project |->
        LET c == CandidateOf(candidates, project[i])
            mine == OnlyKeys(values, NamesOf(c.envExample) \cup c.envKeys)
        IN  [project[i] EXCEPT !.env = Merged(@, mine)]]

\* What was asked of one service after it crashed goes to it by name.
withCrashAnswers(project, asked, values) ==
    [i \in DOMAIN project |->
        [project[i] EXCEPT !.env =
            Merged(@, OnlyKeys(values, {q.key : q \in {q \in asked : q.service = project[i].name}}))]]

Database == "postgres://db"      \* what an example gives a database's address as
Loopback == "http://localhost"

\* What the example gives a value and the code cannot start without: the lowest layer,
\* never an address, never a name the validator would refuse.
withExampleDefaults(p, declared, supplied, required) ==
    LET copied == {v \in Range(declared) :
                      /\ v.value # "" /\ v.key \in required
                      /\ v.key \notin DOMAIN p.env \cup supplied \cup ALWAYS_SUPPLIED
                      /\ v.value \notin {Loopback, Database}
                      /\ validateEnvVarKey(v.key) /\ validateEnvVarValue(v.value)}
    IN  [p EXCEPT !.env = Layered(@, [k \in {v.key : v \in copied} |->
                                         Value((CHOOSE v \in copied : v.key = k).value)])]

projectWithExampleDefaults(repo, project, candidates, backing) ==
    [i \in DOMAIN project |->
        LET c == CandidateOf(candidates, project[i])
        IN  withExampleDefaults(project[i], c.envExample, suppliedKeys(project[i], c, backing),
                                ReadDir(repo, project[i].dir).crashReads)]

\* A random value for each secret that is only the application's own: to those that
\* declare it, and to the service whose code was seen to read it.
generated(missing) == [k \in {q.key : q \in missing} \cap SelfSigning |-> "generated"]

projectWithGenerated(project, candidates, missing) ==
    LET applied == applyConfiguration(project, candidates, generated(missing))
        own(s) == {q \in missing : q.service = s.name /\ q.key \in SelfSigning \ DOMAIN s.env}
    IN  [i \in DOMAIN applied |->
            [applied[i] EXCEPT !.env = Merged(@, OnlyKeys(generated(missing),
                                                          {q.key : q \in own(applied[i])}))]]

\* The services as SessionManager keeps them, and the settings they are still without.
draftProject(repo, meta, planned) ==
    LET project == planProject(repo, meta, planned)
        declared == requiredConfiguration(project, meta.services, meta.backing)
        missing == declared \cup selfSigningMissing(repo, Range(project), declared)
    IN  [services |-> projectWithGenerated(
                          projectWithExampleDefaults(repo, project, meta.services, meta.backing),
                          meta.services, missing),
         missing |-> missing]
=============================================================================
