-------------------------------- MODULE RunPlans --------------------------------
(***************************************************************************)
(* A run plan, and everything DevLaunch asks of one before it runs: the    *)
(* command allowlist, the names a variable may have, safe paths, approved  *)
(* runtimes, scripts that exist, files that exist.                         *)
(*                                                                         *)
(* A command is the words the checks look at and the port it listens on,   *)
(* with the form that port is written in.  A directory is the sequence of  *)
(* its names, <<>> being the repository's root.  PORT is kept apart from   *)
(* the other variables, whose values are names.                            *)
(***************************************************************************)
EXTENDS Integers, Sequences, FiniteSets, SequencesExt, Functions

Root == <<>>
Nowhere == <<"-">>     \* a path that is not there

\* flag: "--port" and "-p" are the forms bindingArgs writes, which withStartPort can
\* move; a "fixed" port is in the command in some other form.
Command(words, flag, port) == [words |-> words, flag |-> flag, port |-> port]
Cmd(words) == Command(words, "none", 0)
NoCommand == Cmd(<<>>)

Value(v) == [value |-> v, required |-> FALSE]
Asked == [value |-> "", required |-> TRUE]     \* declared, without a value
NoEnv == [k \in {} |-> Value("")]

\* Both environments' entries, the first's where both have one: the community modules'
\* @@, which the provers do not read.
Layered(top, below) ==
    [k \in DOMAIN top \cup DOMAIN below |-> IF k \in DOMAIN top THEN top[k] ELSE below[k]]

Alone == <<"alone", 0>>     \* the name of a plan that is not one of several

\* The fields some step of planning reads or writes.
Plan == [
    language |-> "node", version |-> 20, manager |-> "npm", legacyOpenssl |-> FALSE,
    install |-> NoCommand, installDirectory |-> Nowhere,
    build |-> <<>>, start |-> NoCommand, dir |-> Root,
    port |-> 0, portEnv |-> 0, binding |-> "unknown", env |-> NoEnv,
    health |-> "/", https |-> FALSE, source |-> "rule-based", docker |-> FALSE,
    name |-> Alone, role |-> "web" ]

-----------------------------------------------------------------------------
(* Commands *)

AllowedBinaries == {
    "npm", "yarn", "pnpm", "npx", "node", "python", "python3", "pip", "pip3",
    "flask", "gunicorn", "uvicorn", "django-admin", "streamlit", "next", "vite" }

AllowedScriptNames == {
    "dev", "start", "serve", "preview", "build",
    "develop", "start:dev", "dev:server", "serve:dev" }

ManagerBuiltins == {"run", "install", "ci", "add", "remove", "exec", "dlx", "why", "list"}

\* The word that stands for any with a character a shell would read.
Metacharacters == "$(...)"

\* `npm run <script>`, and the shorthand: a first argument that is no builtin.
validateCommand(c) ==
    LET w == c.words
        manager == w[1] \in {"npm", "pnpm", "yarn"} /\ Len(w) > 1
    IN  /\ w # <<>> /\ Metacharacters \notin Range(w)
        /\ w[1] \in AllowedBinaries
        /\ manager /\ w[2] = "run" => Len(w) > 2 /\ w[3] \in AllowedScriptNames
        /\ manager /\ w[2] \notin ManagerBuiltins => w[2] \in AllowedScriptNames

MaxChainedCommands == 3

validateCommandChain(chain) ==
    Len(chain) <= MaxChainedCommands /\ \A i \in DOMAIN chain : validateCommand(chain[i])

-----------------------------------------------------------------------------
(* Variables, paths and images *)

\* One name of each kind the lists hold: the wrapper's own, resolution and loaders,
\* and what configures a package manager.
ReservedKeys == {"DL_START"}
CodeInjectingKeys == {"PATH", "NODE_OPTIONS", "LD_PRELOAD", "PYTHONPATH", "BASH_ENV"}
DeniedPrefixKeys == {"PIP_INDEX_URL", "YARN_RC_FILENAME", "npm_config_registry"}

validateEnvVarKey(k) == k \notin ReservedKeys \cup CodeInjectingKeys \cup DeniedPrefixKeys

MultiLine == "line\nline"
validateEnvVarValue(v) == v # MultiLine

assertSafeRelativePath(dir) == dir # Root => dir[1] # ".."

\* The health check's, which is compared as a text.
OutsideHealthPath == "/.."

ApprovedImages == {<<"node", 20>>, <<"node", 22>>,
                   <<"python", 312>>, <<"python", 313>>, <<"python", 314>>}

imageForRuntime(p) == <<p.language, p.version>> \in ApprovedImages

SafeEnv(env) == \A k \in DOMAIN env : validateEnvVarKey(k) /\ validateEnvVarValue(env[k].value)

\* A plan that runs an image of the repository's comes from the reader of its Docker
\* setup, and only those do.
DockerPlan(p) == p.docker \/ p.source = "repo-docker" \/ p.language = "container"

validate(p) ==
    IF DockerPlan(p)
    THEN p.docker /\ p.source = "repo-docker" /\ p.language = "container" /\ SafeEnv(p.env)
    ELSE /\ validateCommand(p.start)
         /\ p.install # NoCommand => validateCommand(p.install)
         /\ validateCommandChain(p.build)
         /\ assertSafeRelativePath(p.dir) /\ p.health # OutsideHealthPath
         /\ SafeEnv(p.env)
         /\ imageForRuntime(p)

-----------------------------------------------------------------------------
(* Feasibility: what the repository says of a plan *)

BuiltInVerbs == {
    "install", "add", "remove", "ci", "dlx", "exec", "up", "upgrade",
    "link", "pack", "publish", "init", "why", "start", "test", "build" }

NoScript == "-"

\* The script a command runs, as far as its words tell.
scriptRun(c) ==
    LET w == c.words
    IN  IF Len(w) > 2 /\ w[1] \in {"npm", "yarn", "pnpm"} /\ w[2] = "run" THEN w[3]
        ELSE IF Len(w) > 1 /\ w[1] = "yarn" /\ w[2] # "run" /\ w[2] \notin BuiltInVerbs THEN w[2]
        ELSE NoScript

\* A script the manifest does not define.  A manifest without scripts contradicts
\* nothing.  A chain is read as one command: its first.
impossibleCommand(p, declared) ==
    /\ declared # {}
    /\ \E c \in {p.start, p.install} \cup (IF p.build = <<>> THEN {} ELSE {p.build[1]}) :
          scriptRun(c) \notin declared \cup {NoScript}

FileRunners == {"node", "nodemon", "ts-node", "tsx", "python", "python3"}
GeneratedFiles == {"dist/main.js"}

\* A model's plan that starts a file the repository does not have.  What a build or an
\* install writes is not looked for.
missingEntryFile(p, files) ==
    LET w == p.start.words
    IN  /\ p.source = "ai-fallback" /\ p.build = <<>>
        /\ Len(w) = 2 /\ w[1] \in FileRunners
        /\ w[2] \notin files \cup GeneratedFiles
=============================================================================
