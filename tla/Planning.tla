-------------------------------- MODULE Planning --------------------------------
(***************************************************************************)
(* RuleBasedPlanner: what one directory says of itself, in; a run plan, or *)
(* why there is none, out.                                                 *)
(*                                                                         *)
(* The facts of a directory are a record (Facts below has those of an      *)
(* empty one).  A script is the set of programs its body names, a          *)
(* dependency the major version its range names (0 when none can be read). *)
(***************************************************************************)
EXTENDS RunPlans, FiniteSetsExt, TLC

None == [k \in {} |-> 0]       \* no dependencies, no scripts

\* What package.json says.  manager is the packageManager field, engineLower the
\* highest lower bound of engines.node, main where `main` points, workspaces whether it
\* declares a pattern.
Package == [
    present |-> FALSE, scripts |-> [k \in {} |-> {}], deps |-> None, devDeps |-> None,
    manager |-> [name |-> "none", major |-> 0], engineLower |-> 0, main |-> "none",
    workspaces |-> FALSE, entryFiles |-> <<>> ]

\* What the Python files and manifests say.  floor is the newest version asked for.
Python == [
    present |-> FALSE, requirements |-> {}, hasPyproject |-> FALSE, packageable |-> TRUE,
    dependencies |-> {}, imports |-> {}, hasManagePy |-> FALSE, entries |-> <<>>,
    initScripts |-> <<>>, hasAlembic |-> FALSE, floor |-> 0 ]

\* A Python file that may start the program.  dir is where it lives, when that is one
\* level down in a directory that is no package.
Entry == [file |-> "app.py", framework |-> "none", conventional |-> TRUE,
          dir |-> "none", module |-> "app", appVariable |-> "app"]

Facts == [
    package |-> Package, python |-> Python,
    lockfiles |-> {}, yarnBerry |-> FALSE, pnpmWorkspace |-> FALSE,
    configs |-> {}, nodeBuiltins |-> {}, bindHostEnv |-> "none", prisma |-> "none",
    declaredPort |-> 0, devServerPort |-> 0, routes |-> {}, tls |-> FALSE,
    staticIndex |-> FALSE, foreignRuntimes |-> {}, envExample |-> <<>> ]

-----------------------------------------------------------------------------
(* Frameworks, the most specific first *)

Framework(id, dep, port, scripts, style, tool) ==
    [id |-> id, dep |-> dep, config |-> "none", port |-> port, scripts |-> scripts,
     style |-> style, tool |-> tool, binding |-> "forced"]

\* tool: the program a script starts it with; "node" for what a file that node runs
\* imports.
NODE_FRAMEWORKS == <<
    Framework("next",       "next",               3000, <<"dev", "start">>,     "-p",     "next"),
    Framework("nuxt",       "nuxt",               3000, <<"dev">>,              "--port", "nuxt"),
    Framework("sveltekit",  "@sveltejs/kit",      5173, <<"dev">>,              "--port", "vite"),
    Framework("astro",      "astro",              4321, <<"dev", "start">>,     "--port", "astro"),
    Framework("remix",      "@remix-run/dev",     3000, <<"dev">>,              "none",   "remix"),
    Framework("gatsby",     "gatsby",             8000, <<"develop", "start">>, "-p",     "gatsby"),
    Framework("docusaurus", "@docusaurus/core",   3000, <<"start", "dev">>,     "--port", "docusaurus"),
    [Framework("angular",   "@angular/cli",       4200, <<"start", "dev">>,     "--port", "ng")
        EXCEPT !.config = "angular.json"],
    Framework("vue-cli",    "@vue/cli-service",   8080, <<"serve", "dev">>,     "--port", "vue-cli-service"),
    Framework("cra",        "react-scripts",      3000, <<"start">>,            "none",   "react-scripts"),
    Framework("vite",       "vite",               5173, <<"dev", "start", "serve">>, "--port", "vite"),
    Framework("parcel",     "parcel",             1234, <<"dev", "start">>,     "--port", "parcel"),
    Framework("webpack-dev-server", "webpack-dev-server", 8080, <<"dev", "start", "serve">>, "--port", "webpack"),
    Framework("nest",       "@nestjs/core",       3000, <<"start:dev", "start", "dev">>, "none", "nest"),
    [Framework("fastify",   "fastify",            3000, <<"dev", "start">>,     "none",   "node")
        EXCEPT !.binding = "unknown"],
    Framework("koa",        "koa",                3000, <<"dev", "start">>,     "none",   "node"),
    Framework("express",    "express",            3000, <<"dev", "start">>,     "none",   "node") >>

\* No framework: a script called dev, start or serve, and nothing known of it.
PlainNode == [Framework("node", "none", 3000, <<"dev", "start", "serve">>, "none", "node")
                 EXCEPT !.binding = "unknown"]

\* In the order requirements are searched.
PYTHON_FRAMEWORKS == <<"django", "flask", "fastapi", "streamlit", "gradio">>
DefaultPort == [django |-> 8000, flask |-> 5000, fastapi |-> 8000,
                streamlit |-> 8501, gradio |-> 7860]

\* The flags a framework is made reachable with.
bindingArgs(fw) == fw.style

-----------------------------------------------------------------------------
(* Which tool installs, and how *)

\* The manager that is pinned, unless it is Bun; then what a lockfile is evidence of.
Manager(facts) ==
    LET pinned == facts.package.manager.name
    IN  IF pinned \in {"npm", "yarn", "pnpm"} THEN pinned
        ELSE IF "pnpm-lock.yaml" \in facts.lockfiles \/ facts.pnpmWorkspace THEN "pnpm"
        ELSE IF "yarn.lock" \in facts.lockfiles THEN "yarn"
        ELSE "npm"

\* Strict with the manager's own lockfile.
detectNodeInstall(facts) ==
    LET pm == Manager(facts)
        berry == facts.yarnBerry \/ (pm = "yarn" /\ facts.package.manager.major >= 2)
    IN  IF pm = "npm"
        THEN Cmd(<<"npm", IF facts.lockfiles \cap {"package-lock.json", "npm-shrinkwrap.json"} # {}
                          THEN "ci" ELSE "install">>)
        ELSE IF pm = "pnpm"
        THEN Cmd(<<"pnpm", "install">> \o (IF "pnpm-lock.yaml" \in facts.lockfiles
                                           THEN <<"--frozen-lockfile">> ELSE <<>>))
        ELSE Cmd(<<"yarn", "install">> \o
                 (IF "yarn.lock" \notin facts.lockfiles THEN <<>>
                  ELSE IF berry THEN <<"--immutable">> ELSE <<"--frozen-lockfile">>))

needsManagerToResolve(package) == package.manager.name = "yarn" /\ package.manager.major >= 2

\* What a Python project's manifests say to install.
detectPythonInstall(py) ==
    IF py.requirements # {} THEN Cmd(<<"pip", "install", "-r", "requirements.txt">>)
    ELSE IF ~py.hasPyproject \/ (~py.packageable /\ py.dependencies = {}) THEN NoCommand
    ELSE IF py.packageable THEN Cmd(<<"pip", "install", ".">>)
    ELSE Cmd(<<"pip", "install", "-r", "generated.txt">>)

-----------------------------------------------------------------------------
(* What a Node project runs on, and whether it runs at all *)

LowestFrom(versions, floor, default) ==
    LET enough == {v \in versions : v >= floor}
    IN  IF enough = {} THEN default ELSE Min(enough)

BuiltinSince == [sqlite |-> 22]

nodeVersionFor(facts) ==
    LowestFrom({20, 22},
        Max({20, facts.package.engineLower}
            \cup {BuiltinSince[b] : b \in facts.nodeBuiltins \cap DOMAIN BuiltinSince}), 20)

pythonImageVersion(py) == LowestFrom({312, 313, 314}, py.floor, 312)

\* webpack 4, or the react-scripts that brings it, in the dependencies proper.
needsLegacyOpenssl(deps) ==
    LET old(d) == d \in DOMAIN deps /\ deps[d] \in 1..4
    IN  old("react-scripts") \/ old("webpack")

ServerRunners == {
    "node", "nodemon", "ts-node", "tsx", "babel-node", "next", "nuxt", "vite", "astro", "remix",
    "gatsby", "ng", "vue-cli-service", "react-scripts", "nest", "docusaurus", "parcel",
    "webpack-dev-server", "serve", "http-server", "live-server", "concurrently" }
NodeRunners == {"node", "nodemon", "ts-node", "tsx", "babel-node"}
SeveralRunners == {"concurrently", "npm-run-all", "run-p", "run-s"}

runsBun(body) == body \cap {"bun", "bunx"} # {}
RunsSeveral(body) == body \cap SeveralRunners # {}

\* Nothing in it starts a server, it depends on nothing, and `main` is built.
looksLikeALibrary(package) ==
    /\ DOMAIN package.scripts # {}
    /\ \A s \in DOMAIN package.scripts \cap {"dev", "start", "serve", "develop", "start:dev", "dev:server", "serve:dev"} :
          package.scripts[s] \cap ServerRunners = {}
    /\ DOMAIN package.deps = {}
    /\ package.main = "build"

\* The first of a list that passes a test.
FirstOf(seq, Test(_), default) ==
    LET those == {i \in DOMAIN seq : Test(seq[i])}
    IN  IF those = {} THEN default ELSE seq[Min(those)]

pickScript(package, candidates) ==
    FirstOf(candidates, LAMBDA s : s \in DOMAIN package.scripts, NoScript)

scriptRuns(body, fw) ==
    IF fw.tool = "node" THEN body \cap NodeRunners # {} ELSE fw.tool \in body

\* The framework a manifest declares; of several, the one whose script starts it.
matchNodeFramework(facts) ==
    LET package == facts.package
        matches(fw) == \/ fw.dep \in DOMAIN package.deps \cup DOMAIN package.devDeps
                       \/ fw.config \in facts.configs
        started(fw) == LET s == pickScript(package, fw.scripts)
                       IN  s # NoScript /\ scriptRuns(package.scripts[s], fw)
    IN  FirstOf(NODE_FRAMEWORKS, LAMBDA fw : matches(fw) /\ started(fw),
                FirstOf(NODE_FRAMEWORKS, matches, PlainNode))

-----------------------------------------------------------------------------
(* Ports, health paths, setup *)

\* A framework told its port on the command line listens there; of one told by its
\* environment the source knows better.
portFor(fw, facts) ==
    IF fw.style # "none" \/ facts.declaredPort = 0 THEN fw.port ELSE facts.declaredPort

ExamplePort(facts) == FirstOf(facts.envExample, LAMBDA v : v.key = "PORT", [port |-> 0]).port

\* The API's port, beside a dev server in the same container: never the dev server's.
apiPortBeside(facts, devPort) ==
    FirstOf(<<ExamplePort(facts), facts.declaredPort, 8080, 8081>>,
            LAMBDA p : p \notin {0, devPort}, 0)

\* A route is [method, path, kind, length]; kind: "root" | "live" | "ready" | "plain" | "parameter".
Shortest(routes) == CHOOSE r \in routes : \A q \in routes : r.length <= q.length

healthPathFor(facts) ==
    LET gets == {r \in facts.routes : r.method = "GET"}
        of(kinds) == {r \in gets : r.kind \in kinds}
    IN  IF of({"root"}) # {} \/ of({"live", "plain", "ready"}) = {} THEN "/"
        ELSE IF of({"live"}) # {} THEN Shortest(of({"live"})).path
        ELSE IF of({"plain"}) # {} THEN Shortest(of({"plain"})).path
        ELSE Shortest(of({"ready"})).path

\* FastAPI answers at /docs, unless it declares / or something better.
pythonHealthPath(kind, facts) ==
    IF kind = "fastapi" /\ healthPathFor(facts) = "/" /\ ~ \E r \in facts.routes : r.kind = "root" /\ r.method = "GET"
    THEN "/docs" ELSE healthPathFor(facts)

\* Prisma's client, and its tables when it ships migrations.
prismaSetup(facts) ==
    LET deps == DOMAIN facts.package.deps \cup DOMAIN facts.package.devDeps
        npx == Cmd(<<"npx", "prisma">>)
    IN  IF facts.prisma = "none" \/ deps \cap {"@prisma/client", "prisma"} = {} THEN <<>>
        ELSE IF facts.prisma = "migrations" THEN <<npx, npx>> ELSE <<npx>>

bindHostEnv(facts) ==
    [k \in {"HOST", facts.bindHostEnv} \ {"none"} |-> Value("0.0.0.0")]

-----------------------------------------------------------------------------
(* Planning a Node project *)

Planned(plan, detected) ==
    [planned |-> TRUE, plan |-> plan, detected |-> detected, unrunnable |-> FALSE, choices |-> {}]
Unplanned == [Planned(Plan, "none") EXCEPT !.planned = FALSE]
Unrunnable == [Unplanned EXCEPT !.unrunnable = TRUE]

\* `<manager> run <script>`, with the flags that make it reachable.
runScript(pm, script, flag, port) ==
    Command(<<pm, "run", script>>, flag, IF flag = "none" THEN 0 ELSE port)

NodePlan(facts, dir, port) ==
    [Plan EXCEPT !.version = nodeVersionFor(facts), !.manager = Manager(facts),
                 !.legacyOpenssl = needsLegacyOpenssl(facts.package.deps),
                 !.install = detectNodeInstall(facts), !.dir = dir,
                 !.port = port, !.portEnv = port, !.env = bindHostEnv(facts),
                 !.health = healthPathFor(facts)]

\* A framework without a script for it: its entry file, as a README would have it.
PlanEntry(facts, dir, fw) ==
    LET file == facts.package.entryFiles[1]
        node == IF needsManagerToResolve(facts.package) THEN <<"yarn", "node">> ELSE <<"node">>
    IN  Planned([NodePlan(facts, dir, portFor(fw, facts)) EXCEPT !.start = Cmd(node \o <<file>>)], fw.id)

\* Flags after a script that starts several programs would reach none of them; the page
\* is its dev server, and PORT its API's.
PlanScript(facts, dir, fw, script) ==
    LET several == RunsSeveral(facts.package.scripts[script])
        port == IF several /\ facts.devServerPort # 0 THEN facts.devServerPort ELSE portFor(fw, facts)
        flag == IF several THEN "none" ELSE bindingArgs(fw)
        base == NodePlan(facts, dir, port)
    IN  Planned([base EXCEPT
            !.start = runScript(base.manager, script, flag, port),
            !.portEnv = IF several THEN apiPortBeside(facts, port) ELSE port,
            !.build = prismaSetup(facts), !.binding = fw.binding,
            !.env = IF fw.id = "cra" THEN @ @@ ("BROWSER" :> Value("none")) @@ ("CI" :> Value("true"))
                    ELSE @], fw.id)

\* Declines what needs Bun, and what is there to be imported.
planNode(facts, dir) ==
    LET package == facts.package
        fw == matchNodeFramework(facts)
        picked == pickScript(package, fw.scripts)
        script == IF picked # NoScript /\ runsBun(package.scripts[picked])
                  THEN FirstOf(fw.scripts, LAMBDA s : s \in DOMAIN package.scripts
                                                      /\ ~runsBun(package.scripts[s]), NoScript)
                  ELSE picked
    IN  IF script # NoScript THEN PlanScript(facts, dir, fw, script)
        ELSE IF picked # NoScript THEN Unrunnable
        ELSE IF package.entryFiles = <<>> /\ looksLikeALibrary(package) THEN Unrunnable
        ELSE IF package.entryFiles = <<>> \/ fw = PlainNode THEN Unplanned
        ELSE PlanEntry(facts, dir, fw)

-----------------------------------------------------------------------------
(* Planning a Python project *)

NoEntry == [Entry EXCEPT !.file = "none", !.module = "none"]

\* manage.py, then what an entry file imports, then what is required.
PythonKind(py) ==
    LET imported == FirstOf(py.entries, LAMBDA e : e.framework # "none", NoEntry).framework
    IN  IF py.hasManagePy THEN "django"
        ELSE IF imported # "none" THEN imported
        ELSE FirstOf(PYTHON_FRAMEWORKS,
                     LAMBDA k : k \in py.requirements \cup py.dependencies \cup py.imports, "none")

\* The file that imports the framework, or one named like an entry point.
PythonEntry(py, kind) ==
    FirstOf(py.entries, LAMBDA e : e.framework = kind,
            FirstOf(py.entries, LAMBDA e : e.conventional /\ e.file # "manage.py", NoEntry))

\* Without a manifest, what its source imports and what runs it; with one, what that
\* says.  The packages the source proves it needs are named after it, which no check reads.
PythonInstall(py) ==
    IF py.requirements = {} /\ ~py.hasPyproject THEN Cmd(<<"pip", "install">>) ELSE detectPythonInstall(py)

\* How each framework is started; every port is a fixed part of its command, or of its
\* environment, but those of Flask and uvicorn.
PythonStart(kind, entry) ==
    LET port == DefaultPort[kind]
        file == IF entry = NoEntry THEN "app.py" ELSE entry.file
    IN  IF kind = "django" THEN Command(<<"python", "manage.py", "runserver">>, "fixed", port)
        ELSE IF kind = "flask" THEN Command(<<"flask", "run">>, "--port", port)
        ELSE IF kind = "fastapi"
        THEN Command(<<"uvicorn", entry.module, entry.appVariable>>, "--port", port)
        ELSE IF kind = "streamlit" THEN Command(<<"streamlit", "run", file>>, "fixed", port)
        ELSE Command(<<"python", file>>, "fixed", port)

PythonEnv(kind, entry) ==
    IF kind = "flask" THEN "FLASK_APP" :> Value(entry.module)
    ELSE IF kind = "fastapi" THEN "FASTAPI_ENV" :> Value("development")
    ELSE IF kind = "gradio"
    THEN ("GRADIO_SERVER_NAME" :> Value("0.0.0.0")) @@ ("GRADIO_SERVER_PORT" :> Value("7860"))
    ELSE NoEnv

\* What runs between installing and starting: a schema script the author named, or the
\* framework's own migrations.
PythonBuild(py, kind, entry) ==
    LET script == FirstOf(py.initScripts, LAMBDA f : f # entry.file, NoScript)
    IN  IF script # NoScript THEN <<Cmd(<<"python", script>>)>>
        ELSE IF kind = "django" THEN <<Cmd(<<"python", "manage.py", "migrate">>)>>
        ELSE IF kind = "fastapi" /\ py.hasAlembic /\ "alembic" \in py.requirements \cup py.dependencies \cup py.imports
        THEN <<Cmd(<<"python", "-m", "alembic">>)>>
        ELSE <<>>

\* Settings the example declares without a value, for the gate to see.
Undefaulted(facts) == {v \in Range(facts.envExample) : ~v.hasDefault}

planPython(facts, dir) ==
    LET py == facts.python
        kind == PythonKind(py)
        entry == PythonEntry(py, kind)
        elsewhere == entry.dir # "none"
    IN  IF \/ py.requirements = {} /\ ~py.hasPyproject /\ py.imports = {}
           \/ kind = "none"
           \/ kind \in {"flask", "fastapi"} /\ entry = NoEntry
        THEN Unplanned
        ELSE Planned([Plan EXCEPT
                !.language = "python", !.version = pythonImageVersion(py), !.manager = "pip",
                !.install = PythonInstall(py), !.build = PythonBuild(py, kind, entry),
                !.start = PythonStart(kind, entry),
                !.dir = IF elsewhere THEN Append(dir, entry.dir) ELSE dir,
                !.installDirectory = IF elsewhere THEN dir ELSE Nowhere,
                !.port = DefaultPort[kind], !.binding = "forced",
                !.env = PythonEnv(kind, entry) @@ [k \in {v.key : v \in Undefaulted(facts)} |-> Asked],
                !.health = pythonHealthPath(kind, facts),
                !.https = kind = "fastapi" /\ facts.tls], kind)

-----------------------------------------------------------------------------
(* Planning a directory *)

\* DevLaunch's own file server: a page with nothing to build.
StaticPlan(dir) ==
    [Plan EXCEPT !.language = "python", !.version = 312, !.manager = "pip", !.dir = dir,
                 !.start = Command(<<"python", "static">>, "fixed", 8000), !.port = 8000,
                 !.binding = "forced"]

\* RuleBasedPlanner.plan.
plan(facts, dir) ==
    LET package == facts.package.present
        node == IF package THEN planNode(facts, dir) ELSE Unplanned
        python == IF facts.python.present THEN planPython(facts, dir) ELSE Unplanned
    IN  IF node # Unplanned THEN node
        ELSE IF python # Unplanned THEN python
        ELSE IF facts.staticIndex /\ ~package /\ facts.foreignRuntimes = {}
        THEN Planned(StaticPlan(dir), "static")
        ELSE IF ~package /\ ~facts.python.present /\ facts.foreignRuntimes # {} THEN Unrunnable
        ELSE Unplanned
=============================================================================
