------------------------------- MODULE MCPlanPipeline -------------------------------
(***************************************************************************)
(* Repositories for PlanPipeline: every small package at a root, and one   *)
(* repository for each shape the analysis tells apart.                     *)
(***************************************************************************)
EXTENDS PlanPipeline

Example(key) == [key |-> key, hasDefault |-> FALSE, value |-> "", port |-> 0]
Shipped(key, value) == [key |-> key, hasDefault |-> TRUE, value |-> value, port |-> 0]

Optional(key) == [Example(key) EXCEPT !.hasDefault = TRUE]

Scripts(names, body) == [n \in names |-> body]
Deps(names) == [n \in names |-> 5]

NodeFacts(scripts, deps, example) ==
    [Facts EXCEPT !.package.present = TRUE, !.package.scripts = scripts, !.package.deps = Deps(deps),
                  !.envExample = example]
NodeDir(at, scripts, deps, example) ==
    [Directory EXCEPT !.at = at, !.facts = NodeFacts(scripts, deps, example)]

PyFacts(requirements, example) ==
    [Facts EXCEPT !.python.present = TRUE, !.python.requirements = requirements, !.envExample = example]
Runs(framework) == [Entry EXCEPT !.framework = framework]
PyDir(at, framework, requirements, example) ==
    [Directory EXCEPT !.at = at, !.facts = PyFacts({framework} \cup requirements, example),
                      !.ownEntries = <<Runs(framework)>>]

Folder(at) == [Directory EXCEPT !.at = at]

Dev(tool) == Scripts({"dev"}, {tool})
AtRoot(d) == Root :> d

-----------------------------------------------------------------------------
(* Small packages: which scripts, what they run, what they depend on, who installs *)

SmallPackages ==
    { AtRoot([Directory EXCEPT !.facts =
          [NodeFacts(Scripts(names, body), deps, <<>>) EXCEPT
              !.package.entryFiles = files, !.package.main = main,
              !.package.manager = manager, !.devServerPort = 3000]]) :
        names \in SUBSET {"dev", "start", "build"},
        body \in {{"node"}, {"vite"}, {"concurrently"}, {"bun"}},
        deps \in {{}, {"express"}, {"vite", "express"}},
        files \in {<<>>, <<"server.js">>},
        main \in {"build"},
        manager \in {Package.manager, [name |-> "yarn", major |-> 4]} }

-----------------------------------------------------------------------------
(* One of each shape *)

Frontend(at) == [NodeDir(at, Dev("vite"), {"vite"}, <<Example("VITE_API_URL"), Example("VITE_MAP_KEY")>>)
                    EXCEPT !.facts.declaredPort = 3000, !.envReads = {"VITE_API_URL", "VITE_MAP_KEY"}]
Backend(at) == [PyDir(at, "fastapi", {"psycopg2"},
                      <<Example("DATABASE_URL"), Example("CORS_ORIGIN"), Example("MAIL_KEY"),
                        Shipped("AWS_REGION", "us-east-1"), Shipped("REDIS_URL", Database)>>)
                    EXCEPT !.envReads = {"MAIL_KEY", "SECRET_KEY", "AWS_REGION"},
                           !.crashReads = {"AWS_REGION"}]

\* A page and an API, with a compose file that names both.
FullStack ==
    AtRoot([Folder(0) EXCEPT
        !.compose = <<[Compose EXCEPT !.name = "web", !.dir = <<"frontend">>, !.port = 80,
                                      !.dependsOn = {"api"}],
                      [Compose EXCEPT !.name = "api", !.dir = <<"backend">>, !.port = 8080,
                                      !.keys = {"STRIPE_KEY"}],
                      [Compose EXCEPT !.name = "nginx", !.proxy = TRUE, !.port = 80,
                                      !.dependsOn = {"web"}]>>,
        !.composeBacking = {"postgres"}])
    @@ (<<"backend">> :> Backend(1)) @@ (<<"frontend">> :> Frontend(2))

\* The same without the compose file, wrapped in one folder.
Wrapped ==
    AtRoot(Folder(0)) @@ (<<"project">> :> Folder(1))
    @@ (<<"project", "backend">> :> Backend(2)) @@ (<<"project", "frontend">> :> Frontend(3))
    @@ (<<"docs">> :> Folder(4)) @@ (<<"docs", "demo">> :> NodeDir(5, Dev("vite"), {"vite"}, <<>>))

\* A page and a worker: no API to wire.
PageAndWorker ==
    AtRoot(Folder(0)) @@ (<<"jobs">> :> NodeDir(1, Dev("node"), {}, <<>>))
    @@ (<<"web">> :> NodeDir(2, Dev("vite"), {"vite"}, <<Example("SHOP_NAME")>>))

\* A workspace of two services that need the same database, and its orchestrating root.
Workspace ==
    AtRoot([NodeDir(0, Dev("npm"), {}, <<>>) EXCEPT
               !.facts.pnpmWorkspace = TRUE, !.facts.lockfiles = {"pnpm-lock.yaml"},
               !.members = {<<"apps", "api">>, <<"apps", "web">>, <<"packages", "ui">>}])
    @@ (<<"apps">> :> Folder(1))
    @@ (<<"apps", "api">> :> [NodeDir(2, Dev("node"), {"express", "pg"}, <<Example("JWT_SECRET"), Example("DATABASE_URL")>>)
                                  EXCEPT !.envReads = {"JWT_SECRET", "CONNECTION_STRING"},
                                         !.facts.declaredPort = 5001])
    @@ (<<"apps", "web">> :> [NodeDir(3, Dev("next"), {"next", "prisma"}, <<>>)
                                  EXCEPT !.facts.prisma = "migrations", !.facts.declaredPort = 3001])
    @@ (<<"packages">> :> Folder(4))
    @@ (<<"packages", "ui">> :> NodeDir(5, Scripts({"build"}, {"tsc"}), {}, <<>>))

\* A workspace with packages that run: only the first where discovery looks.
Packages(runnable) ==
    AtRoot([NodeDir(0, Scripts({"build"}, {"turbo"}), {}, <<>>)
               EXCEPT !.facts.package.workspaces = TRUE, !.members = runnable])
    @@ (<<"sites">> :> Folder(3))
    @@ [d \in runnable |-> NodeDir(IF d = <<"docs">> THEN 1 ELSE 2, Scripts({"start"}, {"docusaurus"}),
                                   {"@docusaurus/core"}, <<Example("SITE_KEY")>>)]

\* The application in one folder: of its own, or where the compose file says.
Sole(app) == AtRoot(Folder(0)) @@ (<<"server">> :> app)
Deep(app) ==
    AtRoot([Folder(0) EXCEPT !.compose = <<[Compose EXCEPT !.name = "app", !.dir = <<"code", "app">>, !.port = 8080],
                                           [Compose EXCEPT !.name = "job", !.dir = <<"code", "app">>, !.command = TRUE]>>])
    @@ (<<"code">> :> Folder(1)) @@ (<<"code", "app">> :> app)

\* A Python service whose program is one level down.
Below(at) == [Folder(at) EXCEPT !.facts = PyFacts({"flask"}, <<Example("MAIL_KEY")>>),
                              !.childEntries = <<[Runs("flask") EXCEPT !.dir = "app"]>>]

\* A root that starts its page and its API at once, beside the two.
Concurrent ==
    AtRoot([NodeDir(0, Scripts({"dev"}, {"concurrently"}), {"express"}, <<>>) EXCEPT !.facts.declaredPort = 5000, !.facts.devServerPort = 3000])
    @@ (<<"client">> :> NodeDir(1, Scripts({"start"}, {"react-scripts"}), {"react-scripts"}, <<>>))
    @@ (<<"server">> :> NodeDir(2, Scripts({"start"}, {"node"}), {"express", "mongoose"}, <<Example("ORDERS_MONGO_URI")>>))

\* A page beside something else, with and without a compose file to say what they are.
Pages == {Frontend(1), NodeDir(1, Dev("next"), {"next"}, <<Example("API_URL"), Example("MAIL_KEY")>>),
          [NodeDir(1, Scripts({"start"}, {"react-scripts"}), {"react-scripts"}, <<Shipped("SHOP_NAME", "shop")>>)
              EXCEPT !.crashReads = {"SHOP_NAME"}, !.facts.declaredPort = 3001]}
Others == {Backend(2), Below(2),
           [NodeDir(2, Dev("node"), {"express", "mongoose"}, <<Example("MONGO_URI"), Example("CLIENT_URL"), Example("MAIL_KEY")>>)
               EXCEPT !.facts.declaredPort = 5000, !.crashReads = {"MAIL_KEY", "STRIPE_KEY"}],
           NodeDir(2, Dev("node"), {"bullmq"}, <<Example("MAIL_KEY")>>)}
Composes == {<<>>,
             <<[Compose EXCEPT !.name = "site", !.dir = <<"one">>, !.port = 3000],
               [Compose EXCEPT !.name = "api", !.dir = <<"two">>, !.port = 8080, !.keys = {"STRIPE_KEY"},
                               !.dependsOn = {"db"}]>>,
             <<[Compose EXCEPT !.name = "one", !.dir = <<"one">>, !.port = 8000],
               [Compose EXCEPT !.name = "two", !.dir = <<"two">>]>>}
Pairs == { AtRoot([Folder(0) EXCEPT !.compose = compose])
               @@ (<<"one">> :> page) @@ (<<"two">> :> other) @@ (<<"two", "app">> :> Folder(3)) :
           page \in Pages, other \in Others, compose \in Composes }

\* A page and an API whose examples say a setting twice, one that may stay empty, and the
\* database's address and password.
Repeating ==
    AtRoot(Folder(0))
    @@ (<<"api">> :> PyDir(1, "fastapi", {"psycopg2"}, <<Example("DATABASE_URL"), Example("POSTGRES_PASSWORD")>>))
    @@ (<<"web">> :> [NodeDir(2, Dev("vite"), {"vite"}, <<Shipped("MODE", "demo"), Example("MODE"), Optional("THEME")>>)
                          EXCEPT !.crashReads = {"MODE", "THEME"}])

\* Two packages only Bun runs, and an image that is built for them.
Imaged ==
    AtRoot([NodeDir(0, Dev("bun"), {"express"}, <<Example("MAIL_KEY")>>) EXCEPT !.docker = "setup"])
    @@ (<<"client">> :> NodeDir(1, Dev("bun"), {"vite"}, <<>>))

Lone(d) == AtRoot(d)

Shapes == {
    Repeating, Imaged, FullStack, Wrapped, PageAndWorker, Workspace, Concurrent,
    Packages({}), Packages({<<"docs">>}), Packages({<<"docs">>, <<"sites", "handbook">>}),
    Sole([Backend(1) EXCEPT !.example = FALSE]), Sole(NodeDir(1, Dev("vite"), {"vite"}, <<>>)),
    Deep(Backend(2)),
    AtRoot(Folder(0)) @@ (<<"api">> :> Below(1)) @@ (<<"api", "app">> :> Folder(3)) @@ (<<"web">> :> NodeDir(2, Dev("vite"), {"vite"}, <<>>)),
    Lone(Backend(0)),
    Lone([PyDir(0, "django", {}, <<>>) EXCEPT !.facts.python.hasManagePy = TRUE, !.hardcodedDatabase = "postgres"]),
    Lone(PyDir(0, "streamlit", {}, <<Example("OPENAI_KEY")>>)),
    Lone(PyDir(0, "gradio", {}, <<>>)),
    Lone(PyDir(0, "flask", {}, <<Example("FLASK_APP")>>)),
    Lone([Folder(0) EXCEPT !.facts = PyFacts({}, <<>>), !.ownEntries = <<Entry>>, !.desktopGui = TRUE]),
    Lone([Folder(0) EXCEPT !.invalidManifest = TRUE]),
    Lone([Folder(0) EXCEPT !.unsourcedLinks = TRUE]),
    Lone([Folder(0) EXCEPT !.docker = "refused"]),
    Lone([Folder(0) EXCEPT !.docker = "setup", !.envReads = {"MAIL_KEY"}]),
    Lone([Folder(0) EXCEPT !.facts.staticIndex = TRUE]),
    Lone([Folder(0) EXCEPT !.facts.foreignRuntimes = {"go"}]) }

MCRepos == {Read(dirs) : dirs \in SmallPackages \cup Pairs \cup Shapes}

\* A script that is there, one that is not, a file that is not, a shell, a path that
\* leaves the server.
Guess(words) == [Plan EXCEPT !.start = Cmd(words), !.source = "ai-fallback", !.install = Cmd(<<"npm", "install">>)]
MCModelPlans == {Guess(<<"npm", "run", "build">>), Guess(<<"npm", "run", "serve">>),
                 Guess(<<"node", "index.js">>), Guess(<<"node", Metacharacters>>),
                 [Guess(<<"node", "index.js">>) EXCEPT !.health = OutsideHealthPath]}

MCReplies == {"answer", Blank, MultiLine}
=============================================================================
