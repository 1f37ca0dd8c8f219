-------------------------------- MODULE Discovery --------------------------------
(***************************************************************************)
(* What RepositoryAnalyzer and ServiceDiscovery read out of a repository:  *)
(* its runnable parts, the databases they expect, what its compose file    *)
(* says of both, the packages of its workspace.                            *)
(*                                                                         *)
(* A repository is a function from its directories to what each holds; a   *)
(* subdirectory is analysed the same way, as the repository it would be.   *)
(***************************************************************************)
EXTENDS Planning

\* name: where the directory comes in a listing.  manifest: package.json is there, read
\* or not.  example: its example settings file has a name both readers of one look for.
\* The Python files that may start something: its own, those of a package inside it, and
\* those one level down.  members: the directories its workspace patterns match.
Directory == [
    facts |-> Facts, at |-> 0, invalidManifest |-> FALSE, example |-> TRUE,
    envReads |-> {}, crashReads |-> {},
    ownEntries |-> <<>>, packageEntries |-> <<>>, childEntries |-> <<>>, childImports |-> {},
    members |-> {}, compose |-> <<>>, composeBacking |-> {},
    hardcodedDatabase |-> "none", desktopGui |-> FALSE,
    unsourcedLinks |-> FALSE, docker |-> "none" ]

ReadDir(repo, dir) == IF dir \in DOMAIN repo THEN repo[dir] ELSE Directory

\* The repository a subdirectory would be.
Within(repo, dir) ==
    LET below == {d \in DOMAIN repo : IsPrefix(dir, d)}
    IN  [rest \in {SubSeq(d, Len(dir) + 1, Len(d)) : d \in below} |-> repo[dir \o rest]]

-----------------------------------------------------------------------------
(* Names *)

ALWAYS_SUPPLIED == {"PORT", "HOST", "NODE_ENV"}
API_BASE_KEYS == {"VITE_API_URL", "REACT_APP_API_URL", "API_URL", "BACKEND_URL"}
ORIGIN_KEYS == {"CORS_ORIGIN", "CLIENT_URL", "FRONTEND_URL"}
SelfSigning == {"SECRET_KEY", "JWT_SECRET"}

IGNORED == {"node_modules", "dist", "vendor", ".git"}
CONTAINER_DIRS == {"apps", "app", "packages", "services", "src"}
NOT_THE_APP == {"examples", "docs", "tests"}

WEB_DEPS == {"react", "next", "vite", "react-scripts", "vue", "gatsby", "astro"}
API_DEPS == {"express", "fastify", "koa", "@nestjs/core", "socket.io"}
WEB_NAMES == {"frontend", "client", "web"}
API_NAMES == {"backend", "server", "api"}
PYTHON_API_DEPS == {"flask", "django", "fastapi"}
PYTHON_WEB_DEPS == {"streamlit", "gradio"}

BACKING_RULES == [
    mongodb  |-> [deps |-> {"mongoose", "pymongo"},     keys |-> {"MONGO_URI", "MONGODB_URI"}],
    postgres |-> [deps |-> {"pg", "prisma", "psycopg2", "asyncpg"}, keys |-> {"DATABASE_URL", "POSTGRES_URL"}],
    redis    |-> [deps |-> {"redis", "bullmq"},         keys |-> {"REDIS_URL"}] ]

\* Names shaped like a connection string that no rule lists, and the kind each one says.
ConnectionNames == [CONNECTION_STRING |-> "none", ORDERS_MONGO_URI |-> "mongodb"]

\* The separate settings a provisioned database is also injected under.
ComponentKeys == [mongodb |-> {"MONGO_HOST"}, postgres |-> {"POSTGRES_PASSWORD", "DB_PASSWORD"},
                  redis |-> {"REDIS_HOST"}]

-----------------------------------------------------------------------------
(* One directory as a service *)

NamesOf(vars) == {v.key : v \in Range(vars)}

\* The example file of a service, which discovery looks for under three of the seven
\* names analysis knows.
serviceEnvExample(d) == IF d.example THEN d.facts.envExample ELSE <<>>
serviceEnvKeys(d) == NamesOf(serviceEnvExample(d)) \cup d.envReads

allDeps(package) == DOMAIN package.deps \cup DOMAIN package.devDeps

\* Dependencies first, the directory's name when they do not say.
classifyNode(dir, deps) ==
    LET name == IF dir = Root THEN "none" ELSE Last(dir)
        role == IF deps \cap WEB_DEPS # {} THEN "web"
                ELSE IF deps \cap API_DEPS # {} THEN "api"
                ELSE IF name \in WEB_NAMES THEN "web"
                ELSE IF name \in API_NAMES THEN "api" ELSE "worker"
    IN  [role |-> role, byDependency |-> deps \cap (WEB_DEPS \cup API_DEPS) # {}]

\* Which databases a service needs, each with the names it is injected under.  A name no
\* rule lists counts when it says the kind, or when there is only one kind to mean.
customConnectionKeys(declared, kind, kinds) ==
    {k \in declared \cap DOMAIN ConnectionNames :
        ConnectionNames[k] = kind \/ (kinds = {kind} /\ ConnectionNames[k] = "none")}

backingFor(deps, declared) ==
    LET kinds == {k \in DOMAIN BACKING_RULES : BACKING_RULES[k].deps \cap deps # {}}
    IN  [k \in kinds |-> BACKING_RULES[k].keys \cup customConnectionKeys(declared, k, kinds)]

Candidate(dir, d, class, language, port, backing) ==
    [dir |-> dir, at |-> d.at, role |-> class.role, byDependency |-> class.byDependency,
     language |-> language, port |-> port, scripts |-> DOMAIN d.facts.package.scripts,
     envKeys |-> serviceEnvKeys(d), envExample |-> serviceEnvExample(d), backing |-> backing]

\* What a directory is as a service, when it is one: a package that can be started, or a
\* Python framework.
inspectDir(repo, dir) ==
    LET d == ReadDir(repo, dir)
        package == d.facts.package
        py == d.facts.python
        deps == py.requirements \cup py.dependencies
        web == deps \cap PYTHON_WEB_DEPS # {} /\ ~py.hasManagePy
        manifest == py.requirements # {} \/ py.hasPyproject \/ py.hasManagePy
    IN  IF package.present
        THEN IF DOMAIN package.scripts \cap {"dev", "start"} = {} THEN <<>>
             ELSE <<Candidate(dir, d, classifyNode(dir, allDeps(package)), "node",
                              d.facts.declaredPort, backingFor(allDeps(package), serviceEnvKeys(d)))>>
        ELSE IF ~manifest \/ (deps \cap (PYTHON_API_DEPS \cup PYTHON_WEB_DEPS) = {} /\ ~py.hasManagePy)
        THEN <<>>
        ELSE <<Candidate(dir, d, [role |-> IF web THEN "web" ELSE "api", byDependency |-> FALSE],
                         "python", IF py.hasManagePy THEN 8000 ELSE 0, backingFor(deps, serviceEnvKeys(d)))>>

-----------------------------------------------------------------------------
(* Every service of a repository *)

isWorkspaceRoot(repo) ==
    LET root == ReadDir(repo, Root)
    IN  root.facts.pnpmWorkspace \/ (root.facts.package.present /\ root.facts.package.workspaces)

\* A set in the order of a key that tells its elements apart.
InOrder(S, key(_)) ==
    [i \in 1..Cardinality(S) |-> CHOOSE x \in S : Cardinality({y \in S : key(y) < key(x)}) = i - 1]

InListingOrder(repo, dirs) == InOrder(dirs, LAMBDA d : repo[d].at)

Visible(dir) == Range(dir) \cap IGNORED = {}

\* The root, what the compose file names, the folders, and those inside the folders
\* monorepos keep their parts in.
candidateDirs(repo) ==
    LET compose == ReadDir(repo, Root).compose
        declared == {c.dir : c \in Range(compose)} \ {Root, Nowhere}
        named(d) == CHOOSE i \in DOMAIN compose :
                        compose[i].dir = d /\ \A j \in 1..(i - 1) : compose[j].dir # d
        listed == {d \in DOMAIN repo : Visible(d) /\ \/ Len(d) = 1
                                                     \/ Len(d) = 2 /\ d[1] \in CONTAINER_DIRS}
    IN  <<Root>> \o InOrder(declared, named)
                 \o InListingOrder(repo, listed \ declared)

\* With nothing to run in reach and no manifest at the root: the folders inside the one
\* folder that holds the application.
wrappedDirs(repo) ==
    LET root == ReadDir(repo, Root)
        py == root.facts.python
        reached == Range(candidateDirs(repo))
        found == {d \in DOMAIN repo : /\ Len(d) = 2 /\ Visible(d) /\ Range(d) \cap NOT_THE_APP = {}
                                      /\ inspectDir(repo, d) # <<>>} \ reached
    IN  IF \/ root.facts.package.present \/ root.invalidManifest
           \/ py.requirements # {} \/ py.hasPyproject \/ py.hasManagePy
           \/ \E d \in reached : inspectDir(repo, d) # <<>>
           \/ Cardinality({d[1] : d \in found}) # 1
        THEN <<>>
        ELSE InListingOrder(repo, found)

\* A workspace's root orchestrates its packages, and is none of the services itself.
ServicesAmong(repo, dirs) ==
    LET probed == IF isWorkspaceRoot(repo) THEN Tail(dirs) ELSE dirs
        found == SelectSeq(probed, LAMBDA dir : inspectDir(repo, dir) # <<>>)
    IN  [i \in DOMAIN found |-> inspectDir(repo, found[i])[1]]

discoverServices(repo) == ServicesAmong(repo, candidateDirs(repo) \o wrappedDirs(repo))

\* The pages first, then the APIs, then the rest.
RoleRank == [web |-> 0, api |-> 1, worker |-> 2]
sortByRole(candidates) ==
    SortSeq(candidates, LAMBDA a, b :
        \/ RoleRank[a.role] < RoleRank[b.role]
        \/ RoleRank[a.role] = RoleRank[b.role] /\ a.at < b.at)

\* Of several services that need one kind, the first one's names are the ones kept.
discoveredBacking(candidates) ==
    LET kinds == UNION {DOMAIN c.backing : c \in Range(candidates)}
    IN  [k \in kinds |-> SelectSeq(candidates, LAMBDA c : k \in DOMAIN c.backing)[1].backing[k]]

-----------------------------------------------------------------------------
(* The compose file *)

\* A service of the file: dir is Nowhere for one run from a stock image.
Compose == [name |-> "app", dir |-> Nowhere, port |-> 0, command |-> FALSE, proxy |-> FALSE,
            keys |-> {}, dependsOn |-> {}]

\* A page by its name, or by its port when nothing but a proxy depends on it; a worker
\* publishes none.
composeRole(services, c) ==
    LET dependedOn == UNION {s.dependsOn : s \in {s \in Range(services) : ~s.proxy}}
    IN  IF c.name \in WEB_NAMES \/ (c.port \in {80, 3000, 5173} /\ c.name \notin dependedOn) THEN "web"
        ELSE IF c.port = 0 THEN "worker" ELSE "api"

\* Of several services built from one directory, the one that runs it as it was built to.
primaryFor(services, dir) ==
    LET sharing == SelectSeq(services, LAMBDA c : c.dir = dir)
    IN  FirstOf(sharing, LAMBDA c : ~c.command /\ c.port # 0,
        FirstOf(sharing, LAMBDA c : ~c.command,
        FirstOf(sharing, LAMBDA c : c.port # 0, sharing[1])))

\* The file's port, unless only its production image can have it; its role, unless the
\* dependencies are evidence of another; the names it declares.
composeOverlay(services, candidate) ==
    IF ~ \E c \in Range(services) : c.dir = candidate.dir THEN candidate
    ELSE LET c == primaryFor(services, candidate.dir)
         IN  [candidate EXCEPT
                 !.role = IF candidate.byDependency THEN @ ELSE composeRole(services, c),
                 !.port = IF c.port >= 1024 THEN c.port ELSE @,
                 !.envKeys = @ \cup c.keys]

-----------------------------------------------------------------------------
(* The metadata of a repository, or of a directory of it *)

\* The files beside the manifests, else a package's, else those one level down.
readPython(d) ==
    LET framed(entries) == \E e \in Range(entries) : e.framework # "none"
        beyond == IF framed(d.ownEntries) THEN <<>> ELSE d.packageEntries
        walked == ~framed(d.ownEntries \o beyond) /\ d.childEntries # <<>>
    IN  [d.facts.python EXCEPT
            !.entries = d.ownEntries \o beyond \o (IF walked THEN <<d.childEntries[1]>> ELSE <<>>),
            !.imports = @ \cup (IF walked THEN d.childImports ELSE {})]

runnablePackages(repo) ==
    {m \in ReadDir(repo, Root).members :
        DOMAIN ReadDir(repo, m).facts.package.scripts \cap {"dev", "start"} # {}}

\* What the services need, what the source hardcodes, what the example file names, what
\* the compose file declares: each adds kinds, and no names to one that has some.
mergedBacking(repo, candidates) ==
    LET root == ReadDir(repo, Root)
        named(k) == BACKING_RULES[k].keys \cap NamesOf(root.facts.envExample)
        one(names) == IF names = {} THEN {} ELSE {CHOOSE n \in names : TRUE}
        fromEnv == [k \in {k \in DOMAIN BACKING_RULES : named(k) # {}} |-> named(k)]
    IN  discoveredBacking(candidates) @@ [k \in {root.hardcodedDatabase} \ {"none"} |-> one(named(k))]
            @@ fromEnv @@ [k \in root.composeBacking |-> {}]

\* What a planner is given of a directory.
readFacts(d) == [d.facts EXCEPT !.python = IF @.present THEN readPython(d) ELSE @]

\* One service is no project; it is worth knowing when it lives somewhere other than the
\* root.
Metadata(here, dir, candidates) ==
    LET root == ReadDir(here, Root)
        overlaid(cs) == [i \in DOMAIN cs |-> composeOverlay(root.compose, cs[i])]
    IN  [facts |-> readFacts(root),
         invalidManifest |-> root.invalidManifest,
         services |-> IF Len(candidates) > 1 THEN overlaid(sortByRole(candidates)) ELSE <<>>,
         sole |-> IF Len(candidates) = 1 /\ candidates[1].dir # Root THEN overlaid(candidates) ELSE <<>>,
         backing |-> mergedBacking(here, candidates),
         runnable |-> runnablePackages(here),
         unsourcedLinks |-> dir = Root /\ root.unsourcedLinks,
         desktopGui |-> root.desktopGui]

\* RepositoryAnalyzer.analyze, of the directory `dir`.
analyze(repo, dir) ==
    LET here == Within(repo, dir) IN Metadata(here, dir, discoverServices(here))

\* A program that draws in a window, and nothing else that would serve a page.
desktopProgram(meta) ==
    /\ meta.desktopGui
    /\ ~meta.facts.python.hasManagePy /\ ~meta.facts.package.present /\ Len(meta.services) <= 1
    /\ \A e \in Range(meta.facts.python.entries) : e.framework = "none"
=============================================================================
