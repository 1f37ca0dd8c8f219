------------------------------ MODULE PlanPipeline_proofs ------------------------------
(***************************************************************************)
(* Proofs about PlanPipeline: what is asked of a person before a run, that *)
(* nothing a service lacks is left unasked, that a value reaches the       *)
(* services it was asked for and no other, and that what the rules plan    *)
(* runs what is there, on the port that is watched.                        *)
(***************************************************************************)
EXTENDS PlanPipeline, FiniteSetTheorems, SequenceTheorems, WellFoundedInduction, TLAPS

(* Environments *)

\* What layers of an environment hold.
LEMMA LayeredHolds ==
    ASSUME NEW top, NEW below
    PROVE  /\ DOMAIN Layered(top, below) = DOMAIN top \cup DOMAIN below
           /\ \A k \in DOMAIN top : Layered(top, below)[k] = top[k]
           /\ \A k \in DOMAIN below \ DOMAIN top : Layered(top, below)[k] = below[k]
    BY DEF Layered

\* Values that are given replace what a plan carries, and the rest stays.
LEMMA MergedHolds ==
    ASSUME NEW env, NEW values
    PROVE  /\ DOMAIN Merged(env, values) = DOMAIN values \cup DOMAIN env
           /\ \A k \in DOMAIN values : Merged(env, values)[k].value = values[k]
           /\ \A k \in DOMAIN env \ DOMAIN values : Merged(env, values)[k] = env[k]
    BY DEF Merged, Layered

\* The part of a map that has certain keys.
LEMMA OnlyKeysHolds ==
    ASSUME NEW f, NEW keys
    PROVE  /\ DOMAIN OnlyKeys(f, keys) = DOMAIN f \cap keys
           /\ \A k \in DOMAIN f \cap keys : OnlyKeys(f, keys)[k] = f[k]
    BY DEF OnlyKeys, Restrict

\* The fields of a plan the proofs look at.
LEMMA PlanFields ==
    {"env", "name", "role", "dir", "docker", "source", "language", "start", "install", "build", "port"}
        \subseteq DOMAIN Plan
    BY DEF Plan

\* The number of an earlier service of the same directory name is lower.
LEMMA EarlierIsLower ==
    ASSUME NEW candidates, NEW i \in Nat \ {0}, NEW j \in Nat \ {0}, i < j
    PROVE  dnsName(candidates, i) # dnsName(candidates, j)
  <1> DEFINE base(c) == IF c.dir = Root THEN "root" ELSE Last(c.dir)
             taken(m) == {n \in 1..(m - 1) : base(candidates[n]) = base(candidates[m])}
  <1>1. \A m \in Nat \ {0} : dnsName(candidates, m) = <<base(candidates[m]), Cardinality(taken(m)) + 1>>
    BY DEF dnsName
  <1>2. \A m \in Nat \ {0} : IsFiniteSet(taken(m)) /\ Cardinality(taken(m)) \in Nat
    <2> SUFFICES ASSUME NEW m \in Nat \ {0}
                 PROVE  IsFiniteSet(taken(m)) /\ Cardinality(taken(m)) \in Nat
        OBVIOUS
    <2>1. IsFiniteSet(1..(m - 1))
        BY FS_Interval
    <2>2. taken(m) \subseteq 1..(m - 1)
        OBVIOUS
    <2> HIDE DEF taken
    <2> QED BY <2>1, <2>2, FS_Subset, FS_CardinalityType
  <1>3. SUFFICES ASSUME base(candidates[i]) = base(candidates[j]), Cardinality(taken(i)) = Cardinality(taken(j))
                 PROVE  FALSE
    <2> HIDE DEF taken, base
    <2> QED BY <1>1, <1>2
  <1>4. taken(i) \subseteq taken(j) /\ i \in taken(j) /\ i \notin taken(i)
    BY <1>3
  <1> HIDE DEF taken, base
  <1>5. taken(i) = taken(j)
    BY <1>2, <1>3, <1>4, FS_Subset
  <1> QED BY <1>4, <1>5

\* A service's name is its own.
LEMMA NamesAreDistinct ==
    ASSUME NEW candidates, NEW i \in Nat \ {0}, NEW j \in Nat \ {0},
           dnsName(candidates, i) = dnsName(candidates, j)
    PROVE  i = j
    BY EarlierIsLower

-----------------------------------------------------------------------------
(* What the rules plan *)

\* A set of numbers has a least one.
LEMMA LeastExists ==
    ASSUME NEW T, T \subseteq Nat, T # {}
    PROVE  Min(T) \in T
  <1> DEFINE R == {ss \in Nat \X Nat : ss[1] < ss[2]}
  <1>1. IsWellFoundedOn(R, Nat)
    BY NatLessThanWellFounded DEF OpToRel
  <1>2. \A x, y \in Nat : x < y => <<x, y>> \in R
    OBVIOUS
  <1>3. PICK x \in T : \A y \in T : ~ (<<y, x>> \in R)
    <2> HIDE DEF R
    <2> QED BY <1>1, WFMin
  <1>4. ASSUME NEW y \in T PROVE x =< y
    <2>1. ~ (y < x)
        BY <1>2, <1>3
    <2> QED BY <2>1
  <1> HIDE DEF R
  <1> QED BY <1>4 DEF Min

\* The scripts a framework is started by are a list.
LEMMA FrameworkScripts ==
    ASSUME NEW facts
    PROVE  DOMAIN matchNodeFramework(facts).scripts \subseteq Nat
  <1> DEFINE Known(fw) == DOMAIN fw.scripts \subseteq Nat
  <1>1. \A i \in DOMAIN NODE_FRAMEWORKS : Known(NODE_FRAMEWORKS[i])
    <2>1. \A i \in 1..17 : NODE_FRAMEWORKS[i].scripts \in
              {<<"dev">>, <<"start">>, <<"dev", "start">>, <<"start", "dev">>, <<"develop", "start">>,
               <<"serve", "dev">>, <<"dev", "start", "serve">>, <<"start:dev", "start", "dev">>}
        BY DEF NODE_FRAMEWORKS, Framework
    <2>2. DOMAIN NODE_FRAMEWORKS = 1..17
        BY DEF NODE_FRAMEWORKS
    <2>3. \A a, b, c : DOMAIN <<a>> \subseteq Nat /\ DOMAIN <<a, b>> \subseteq Nat /\ DOMAIN <<a, b, c>> \subseteq Nat
        OBVIOUS
    <2> QED BY <2>1, <2>2, <2>3
  <1>2. Known(PlainNode)
    BY DEF PlainNode, Framework
  <1>3. DOMAIN NODE_FRAMEWORKS \subseteq Nat
    BY DEF NODE_FRAMEWORKS
  <1> HIDE DEF Known
  <1> QED BY <1>1, <1>2, <1>3, LeastExists DEF matchNodeFramework, FirstOf, Known


\* What a command runs is a script of the manifest, or none.
RunsScripts(p, scripts) ==
    \A c \in {p.start, p.install} \cup (IF p.build = <<>> THEN {} ELSE {p.build[1]}) :
        scriptRun(c) \in scripts \cup {NoScript}

\* A plan of a rule, for a directory with such scripts: it runs those, or is refused for
\* what it starts.
MadeByRule(p, dir, scripts) ==
    /\ DOMAIN p = DOMAIN Plan /\ p.name = Alone /\ p.role = "web"
    /\ p.source = "rule-based" /\ ~p.docker /\ p.language # "container"
    /\ FollowsItsPort(p) /\ DOMAIN p.start = DOMAIN NoCommand
    /\ \/ RunsScripts(p, {})
       \/ p.dir = dir /\ (RunsScripts(p, scripts) \/ ~validateCommand(p.start))

\* Whichever manager installs, its install runs no script of the manifest.
LEMMA ManagerInstalls ==
    ASSUME NEW facts
    PROVE  /\ Manager(facts) \in {"npm", "yarn", "pnpm"}
           /\ scriptRun(detectNodeInstall(facts)) = NoScript
  <1>1. Manager(facts) \in {"npm", "yarn", "pnpm"}
    BY DEF Manager
  <1>2. \A m, w : scriptRun(Cmd(<<m, "install">> \o <<w>>)) = NoScript
    BY DEF scriptRun, Cmd, Command, BuiltInVerbs
  <1>3. \A m : scriptRun(Cmd(<<m, "install">>)) = NoScript /\ scriptRun(Cmd(<<m, "ci">>)) = NoScript
    BY DEF scriptRun, Cmd, Command, BuiltInVerbs
  <1>4. \A m : <<m, "install">> \o <<>> = <<m, "install">>
    OBVIOUS
  <1> QED BY <1>1, <1>2, <1>3, <1>4 DEF detectNodeInstall

\* The fields a Node plan begins with.
LEMMA NodePlanHolds ==
    ASSUME NEW facts, NEW dir, NEW port
    PROVE  LET p == NodePlan(facts, dir, port)
           IN  /\ DOMAIN p = DOMAIN Plan /\ p.name = Alone /\ p.role = "web"
               /\ p.source = "rule-based" /\ ~p.docker /\ p.language # "container"
               /\ p.install = detectNodeInstall(facts) /\ p.build = <<>> /\ p.dir = dir /\ p.port = port
               /\ p.manager = Manager(facts) /\ p.start = NoCommand
  BY DEF NodePlan, Plan

\* A Prisma setup, when there is one, runs no script of the manifest.
LEMMA PrismaSetupHolds ==
    ASSUME NEW facts
    PROVE  LET setup == prismaSetup(facts) IN setup = <<>> \/ scriptRun(setup[1]) = NoScript
  <1>1. scriptRun(Cmd(<<"npx", "prisma">>)) = NoScript
    BY DEF scriptRun, Cmd, Command
  <1> QED BY <1>1 DEF prismaSetup

\* A plan that runs a script of the manifest is made by rule.
LEMMA ScriptPlan ==
    ASSUME NEW facts, NEW dir, NEW fw, NEW script \in DOMAIN facts.package.scripts
    PROVE  MadeByRule(PlanScript(facts, dir, fw, script).plan, dir, DOMAIN facts.package.scripts)
  <1> DEFINE several == RunsSeveral(facts.package.scripts[script])
             port == IF several /\ facts.devServerPort # 0 THEN facts.devServerPort ELSE portFor(fw, facts)
             flag == IF several THEN "none" ELSE bindingArgs(fw)
             base == NodePlan(facts, dir, port)
             p == PlanScript(facts, dir, fw, script).plan
  <1>1. /\ DOMAIN p = DOMAIN base /\ p.name = base.name /\ p.role = base.role
        /\ p.source = base.source /\ p.docker = base.docker /\ p.language = base.language
        /\ p.install = base.install /\ p.dir = base.dir /\ p.port = base.port
        /\ p.build = prismaSetup(facts) /\ p.start = runScript(base.manager, script, flag, port)
    <2> DEFINE env == IF fw.id = "cra" THEN base.env @@ ("BROWSER" :> Value("none")) @@ ("CI" :> Value("true"))
                      ELSE base.env
               portEnv == IF several THEN apiPortBeside(facts, port) ELSE port
               start == runScript(base.manager, script, flag, port)
    <2>1. DOMAIN base = DOMAIN Plan
        BY NodePlanHolds
    <2>2. p = [base EXCEPT !.start = start, !.portEnv = portEnv, !.build = prismaSetup(facts),
                           !.binding = fw.binding, !.env = env]
        BY DEF PlanScript, Planned
    <2> HIDE DEF env, portEnv, start, base, p
    <2>3. /\ DOMAIN p = DOMAIN base /\ p.name = base.name /\ p.role = base.role
          /\ p.source = base.source /\ p.docker = base.docker /\ p.language = base.language
          /\ p.install = base.install /\ p.dir = base.dir /\ p.port = base.port
          /\ p.build = prismaSetup(facts) /\ p.start = start
        BY <2>1, <2>2 DEF Plan
    <2> QED BY <2>3 DEF start
  <1> HIDE DEF base, port, flag, p
  <1>2. /\ DOMAIN base = DOMAIN Plan /\ base.name = Alone /\ base.role = "web"
        /\ base.source = "rule-based" /\ ~base.docker /\ base.language # "container"
        /\ base.install = detectNodeInstall(facts) /\ base.dir = dir /\ base.port = port
        /\ base.manager \in {"npm", "yarn", "pnpm"}
    BY NodePlanHolds, ManagerInstalls DEF base
  <1>3. \A pm \in {"npm", "yarn", "pnpm"} : scriptRun(runScript(pm, script, flag, port)) = script
    BY DEF scriptRun, runScript, Command
  <1>4. RunsScripts(p, DOMAIN facts.package.scripts)
    BY <1>1, <1>2, <1>3, PrismaSetupHolds, ManagerInstalls DEF RunsScripts
  <1>5. FollowsItsPort(p) /\ DOMAIN p.start = DOMAIN NoCommand
    BY <1>1, <1>2 DEF FollowsItsPort, runScript, Command, NoCommand, Cmd
  <1> QED BY <1>1, <1>2, <1>4, <1>5 DEF MadeByRule, p

\* So is one that runs an entry file; it runs no script.
LEMMA EntryPlan ==
    ASSUME NEW facts, NEW dir, NEW fw, NEW scripts
    PROVE  MadeByRule(PlanEntry(facts, dir, fw).plan, dir, scripts)
  <1> DEFINE file == facts.package.entryFiles[1]
             node == IF needsManagerToResolve(facts.package) THEN <<"yarn", "node">> ELSE <<"node">>
             base == NodePlan(facts, dir, portFor(fw, facts))
             p == PlanEntry(facts, dir, fw).plan
  <1>1. /\ DOMAIN p = DOMAIN base /\ p.name = base.name /\ p.role = base.role
        /\ p.source = base.source /\ p.docker = base.docker /\ p.language = base.language
        /\ p.install = base.install /\ p.dir = base.dir /\ p.port = base.port
        /\ p.build = base.build /\ p.start = Cmd(node \o <<file>>)
    BY NodePlanHolds DEF PlanEntry, Planned, Plan
  <1>2. p.start \in {Cmd(<<"yarn", "node">> \o <<file>>), Cmd(<<"node">> \o <<file>>)}
    BY <1>1
  <1> HIDE DEF base, node, p, file
  <1>3. LET w == <<"yarn", "node">> \o <<file>> IN Len(w) = 3 /\ w[1] = "yarn" /\ w[2] = "node"
    OBVIOUS
  <1>4. ~validateCommand(Cmd(<<"yarn", "node">> \o <<file>>))
    BY <1>3 DEF validateCommand, Cmd, Command, ManagerBuiltins, AllowedScriptNames
  <1>5. scriptRun(Cmd(<<"node">> \o <<file>>)) = NoScript
    BY DEF scriptRun, Cmd, Command
  <1>6. /\ DOMAIN base = DOMAIN Plan /\ base.name = Alone /\ base.role = "web"
        /\ base.source = "rule-based" /\ ~base.docker /\ base.language # "container"
        /\ base.install = detectNodeInstall(facts) /\ base.dir = dir /\ base.build = <<>>
    BY NodePlanHolds DEF base
  <1>7. RunsScripts(p, {}) \/ ~validateCommand(p.start)
    BY <1>1, <1>2, <1>4, <1>5, <1>6, ManagerInstalls DEF RunsScripts
  <1>8. FollowsItsPort(p) /\ DOMAIN p.start = DOMAIN NoCommand
    BY <1>2 DEF FollowsItsPort, Cmd, Command, NoCommand
  <1> QED BY <1>1, <1>6, <1>7, <1>8 DEF MadeByRule, p

\* Whatever the Node rules plan, they plan by one of the two, from the scripts there are.
LEMMA NodeIsMadeByRule ==
    ASSUME NEW facts, NEW dir, planNode(facts, dir).planned
    PROVE  MadeByRule(planNode(facts, dir).plan, dir, DOMAIN facts.package.scripts)
  <1> DEFINE fw == matchNodeFramework(facts)
             picked == pickScript(facts.package, fw.scripts)
             script == IF picked # NoScript /\ runsBun(facts.package.scripts[picked])
                       THEN FirstOf(fw.scripts, LAMBDA s : s \in DOMAIN facts.package.scripts
                                                           /\ ~runsBun(facts.package.scripts[s]), NoScript)
                       ELSE picked
  <1>1. script # NoScript => script \in DOMAIN facts.package.scripts
    <2> DEFINE other == FirstOf(fw.scripts, LAMBDA s : s \in DOMAIN facts.package.scripts
                                                       /\ ~runsBun(facts.package.scripts[s]), NoScript)
    <2>1. \A T : T \subseteq DOMAIN fw.scripts /\ T # {} => Min(T) \in T
        BY FrameworkScripts, LeastExists
    <2> HIDE DEF fw
    <2>2. picked \in DOMAIN facts.package.scripts \cup {NoScript}
        BY <2>1 DEF pickScript, FirstOf
    <2>3. other \in DOMAIN facts.package.scripts \cup {NoScript}
        BY <2>1 DEF FirstOf
    <2>4. script \in {picked, other}
        OBVIOUS
    <2> HIDE DEF picked, other, script
    <2> QED BY <2>2, <2>3, <2>4
  <1>2. /\ \/ script # NoScript /\ planNode(facts, dir) = PlanScript(facts, dir, fw, script)
           \/ planNode(facts, dir) = PlanEntry(facts, dir, fw)
           \/ planNode(facts, dir) \in {Unrunnable, Unplanned}
    BY DEF planNode
  <1>3. ~Unrunnable.planned /\ ~Unplanned.planned
    BY DEF Unrunnable, Unplanned, Planned
  <1> HIDE DEF script, fw
  <1>4. script # NoScript => MadeByRule(PlanScript(facts, dir, fw, script).plan, dir, DOMAIN facts.package.scripts)
    BY <1>1, ScriptPlan
  <1>5. MadeByRule(PlanEntry(facts, dir, fw).plan, dir, DOMAIN facts.package.scripts)
    BY EntryPlan
  <1> QED BY <1>2, <1>3, <1>4, <1>5

\* Nothing a Python plan runs is a script, and a start that is told a port is told its kind's.
LEMMA PythonRunsNoScript ==
    /\ \A py : scriptRun(PythonInstall(py)) = NoScript
    /\ \A fw, entry : LET start == PythonStart(fw, entry)
                     IN  /\ scriptRun(start) = NoScript /\ DOMAIN start = DOMAIN NoCommand
                         /\ start.flag \in {"--port", "-p"} => start.port = DefaultPort[fw]
    /\ \A py, fw, entry : LET build == PythonBuild(py, fw, entry)
                         IN  build # <<>> => scriptRun(build[1]) = NoScript
  <1>1. \A words, flag, port : words[1] \notin {"npm", "yarn", "pnpm"} => scriptRun(Command(words, flag, port)) = NoScript
    BY DEF scriptRun, Command
  <1>2. ASSUME NEW py PROVE scriptRun(PythonInstall(py)) = NoScript
    BY DEF PythonInstall, detectPythonInstall, NoCommand, Cmd, Command, scriptRun
  <1>3. ASSUME NEW fw, NEW entry
        PROVE  LET start == PythonStart(fw, entry)
               IN  /\ scriptRun(start) = NoScript /\ DOMAIN start = DOMAIN NoCommand
                   /\ start.flag \in {"--port", "-p"} => start.port = DefaultPort[fw]
    BY DEF PythonStart, Command, scriptRun, NoCommand, Cmd
  <1>4. ASSUME NEW py, NEW fw, NEW entry
        PROVE  LET build == PythonBuild(py, fw, entry) IN build # <<>> => scriptRun(build[1]) = NoScript
    BY DEF PythonBuild, Cmd, Command, scriptRun
  <1> QED BY <1>2, <1>3, <1>4

\* What the Python rules plan runs no script and is watched where it listens.
LEMMA PythonIsMadeByRule ==
    ASSUME NEW facts, NEW dir, NEW scripts, planPython(facts, dir).planned
    PROVE  MadeByRule(planPython(facts, dir).plan, dir, scripts)
  <1> DEFINE py == facts.python
             fw == PythonKind(py)
             entry == PythonEntry(py, fw)
             p == planPython(facts, dir).plan
  <1>1. /\ DOMAIN p = DOMAIN Plan /\ p.name = Alone /\ p.role = "web"
        /\ p.source = "rule-based" /\ ~p.docker /\ p.language # "container"
        /\ p.install = PythonInstall(py) /\ p.build = PythonBuild(py, fw, entry)
        /\ p.start = PythonStart(fw, entry) /\ p.port = DefaultPort[fw]
    <2> DEFINE elsewhere == entry.dir # "none"
               env == PythonEnv(fw, entry) @@ [k \in {v.key : v \in Undefaulted(facts)} |-> Asked]
               install == PythonInstall(py)
               build == PythonBuild(py, fw, entry)
               start == PythonStart(fw, entry)
               version == pythonImageVersion(py)
               health == pythonHealthPath(fw, facts)
               port == DefaultPort[fw]
               https == fw = "fastapi" /\ facts.tls
    <2>1. p = [Plan EXCEPT
                !.language = "python", !.version = version, !.manager = "pip",
                !.install = install, !.build = build, !.start = start,
                !.dir = IF elsewhere THEN Append(dir, entry.dir) ELSE dir,
                !.installDirectory = IF elsewhere THEN dir ELSE Nowhere,
                !.port = port, !.binding = "forced", !.env = env, !.health = health, !.https = https]
        BY DEF planPython, Unplanned, Planned
    <2> HIDE DEF env, install, build, start, version, health, port, https, p, fw, entry, py
    <2>2. /\ DOMAIN p = DOMAIN Plan /\ p.name = Alone /\ p.role = "web"
          /\ p.source = "rule-based" /\ ~p.docker /\ p.language # "container"
          /\ p.install = install /\ p.build = build /\ p.start = start /\ p.port = port
        BY <2>1 DEF Plan
    <2> QED BY <2>2 DEF install, build, start, port
  <1> HIDE DEF p, fw, entry, py
  <1>2. RunsScripts(p, {})
    BY <1>1, PythonRunsNoScript DEF RunsScripts
  <1>3. FollowsItsPort(p) /\ DOMAIN p.start = DOMAIN NoCommand
    BY <1>1, PythonRunsNoScript DEF FollowsItsPort
  <1> QED BY <1>1, <1>2, <1>3 DEF MadeByRule, p

\* Neither does the server of static files.
LEMMA StaticIsMadeByRule ==
    ASSUME NEW dir, NEW scripts
    PROVE  MadeByRule(StaticPlan(dir), dir, scripts)
  <1> DEFINE p == StaticPlan(dir)
  <1>1. /\ DOMAIN p = DOMAIN Plan /\ p.name = Alone /\ p.role = "web"
        /\ p.source = "rule-based" /\ ~p.docker /\ p.language # "container"
        /\ p.install = NoCommand /\ p.build = <<>>
        /\ p.start = Command(<<"python", "static">>, "fixed", 8000)
    BY DEF StaticPlan, Plan
  <1> HIDE DEF p
  <1>2. scriptRun(NoCommand) = NoScript /\ scriptRun(Command(<<"python", "static">>, "fixed", 8000)) = NoScript
    BY DEF scriptRun, NoCommand, Cmd, Command
  <1>3. RunsScripts(p, {}) /\ FollowsItsPort(p) /\ DOMAIN p.start = DOMAIN NoCommand
    BY <1>1, <1>2 DEF RunsScripts, FollowsItsPort, Command, NoCommand, Cmd
  <1> QED BY <1>1, <1>3 DEF MadeByRule, p

\* What a planner answers: a plan, or that it has none.
Answers(o) == (\E p, d : o = Planned(p, d)) \/ o = Unplanned \/ o = Unrunnable

\* An answer of a planner offers no choice of packages.
LEMMA AnswersAre ==
    ASSUME NEW o, Answers(o)
    PROVE  o.choices = {} /\ o.planned \in BOOLEAN /\ DOMAIN o = DOMAIN Unplanned
  <1>1. \A p, d : /\ Planned(p, d).choices = {} /\ Planned(p, d).planned = TRUE
                 /\ DOMAIN Planned(p, d) = DOMAIN Unplanned
    BY DEF Planned, Unplanned
  <1>2. /\ Unplanned.choices = {} /\ Unplanned.planned = FALSE
        /\ Unrunnable.choices = {} /\ Unrunnable.planned = FALSE /\ DOMAIN Unrunnable = DOMAIN Unplanned
    BY DEF Unplanned, Unrunnable, Planned
  <1> QED BY <1>1, <1>2 DEF Answers

\* Both planners answer so.
LEMMA PlannersAnswer ==
    ASSUME NEW facts, NEW dir
    PROVE  Answers(planNode(facts, dir)) /\ Answers(planPython(facts, dir))
  <1>1. \A p, d : Answers(Planned(p, d))
    BY DEF Answers
  <1>2. Answers(Unplanned) /\ Answers(Unrunnable)
    BY DEF Answers
  <1>3. \A fw, script : Answers(PlanScript(facts, dir, fw, script)) /\ Answers(PlanEntry(facts, dir, fw))
    BY <1>1 DEF PlanScript, PlanEntry
  <1>4. Answers(planNode(facts, dir))
    BY <1>2, <1>3 DEF planNode
  <1>5. Answers(planPython(facts, dir))
    BY <1>1, <1>2 DEF planPython
  <1> QED BY <1>4, <1>5

\* What the rules answer for a directory is a plan made by rule, or none.
LEMMA PlannedIsMadeByRule ==
    ASSUME NEW facts, NEW dir
    PROVE  LET o == plan(facts, dir)
           IN  /\ o.choices = {} /\ o.planned \in BOOLEAN /\ DOMAIN o = DOMAIN Unplanned
               /\ o.planned => MadeByRule(o.plan, dir, DOMAIN facts.package.scripts)
  <1> DEFINE node == planNode(facts, dir)
             python == planPython(facts, dir)
             static == Planned(StaticPlan(dir), "static")
             o == plan(facts, dir)
             Good(a) == Answers(a) /\ (a.planned => MadeByRule(a.plan, dir, DOMAIN facts.package.scripts))
  <1>1. Good(node)
    BY PlannersAnswer, NodeIsMadeByRule
  <1>2. Good(python)
    BY PlannersAnswer, PythonIsMadeByRule
  <1>3. Good(static)
    <2>1. static.plan = StaticPlan(dir) /\ Answers(static)
        BY DEF Planned, Answers
    <2> HIDE DEF static
    <2> QED BY <2>1, StaticIsMadeByRule
  <1>4. Good(Unplanned) /\ Good(Unrunnable)
    <2>1. ~Unplanned.planned /\ ~Unrunnable.planned
        BY DEF Unplanned, Unrunnable, Planned
    <2> QED BY <2>1 DEF Answers
  <1>5. o \in {node, python, static, Unrunnable, Unplanned}
    BY DEF plan
  <1> HIDE DEF node, python, static, o, Good
  <1>6. Good(o)
    BY <1>1, <1>2, <1>3, <1>4, <1>5
  <1> QED BY <1>6, AnswersAre DEF Good, o

-----------------------------------------------------------------------------
(* A repository, as it is read *)

Meta(r) == r.analysis[Root]
PlansOf(r) == planProject(r.dirs, Meta(r), r.planned)
CandidateIn(r, s) == CandidateOf(Meta(r).services, s)

\* The scripts of a directory's manifest.
ScriptsIn(dirs, d) == DOMAIN ReadDir(dirs, d).facts.package.scripts

\* What a repository is read as, field by field.
LEMMA ReadIs ==
    ASSUME NEW r \in Repos
    PROVE  /\ DOMAIN r.analysis = DOMAIN r.dirs /\ \A d \in DOMAIN r.dirs : r.analysis[d] = analyze(r.dirs, d)
           /\ DOMAIN r.planned = DOMAIN r.dirs /\ \A d \in DOMAIN r.dirs : r.planned[d] = planAt(r.dirs, d)
           /\ r.outcome = planRepository(r.dirs, r.analysis[Root], r.planned)
           /\ r.project = draftProject(r.dirs, r.analysis[Root], r.planned)
  <1> DEFINE analysis == [d \in DOMAIN r.dirs |-> analyze(r.dirs, d)]
             planned == [d \in DOMAIN r.dirs |-> planAt(r.dirs, d)]
  <1>1. r = PlannedAs(r.dirs, analysis, planned)
    BY ReposAreRead DEF Read
  <1> HIDE DEF analysis, planned
  <1>2. r.analysis = analysis /\ r.planned = planned
    BY <1>1 DEF PlannedAs
  <1>3. /\ r.outcome = planRepository(r.dirs, analysis[Root], planned)
        /\ r.project = draftProject(r.dirs, analysis[Root], planned)
    BY <1>1 DEF PlannedAs
  <1> QED BY <1>2, <1>3 DEF analysis, planned

\* A directory as the repository it would be holds at its root what the directory does.
LEMMA WithinHolds ==
    ASSUME NEW dirs, NEW d \in DOMAIN dirs, NEW X, d \in Seq(X)
    PROVE  ReadDir(Within(dirs, d), Root) = dirs[d]
  <1>1. Len(d) \in Nat /\ SubSeq(d, Len(d) + 1, Len(d)) = <<>>
    BY SubSeqEmpty, LenProperties
  <1>2. IsPrefix(d, d)
    BY <1>1 DEF IsPrefix
  <1>3. d \o <<>> = d
    BY ConcatEmptySeq
  <1>4. Root \in DOMAIN Within(dirs, d)
    BY <1>1, <1>2 DEF Within, Root
  <1>5. Within(dirs, d)[Root] = dirs[d]
    BY <1>3, <1>4 DEF Within, Root
  <1> QED BY <1>4, <1>5 DEF ReadDir

\* The root as the repository it would be is the repository.
LEMMA WithinRoot ==
    ASSUME NEW dirs, NEW X, \A d \in DOMAIN dirs : d \in Seq(X)
    PROVE  DOMAIN Within(dirs, Root) = DOMAIN dirs /\ \A d \in DOMAIN dirs : Within(dirs, Root)[d] = dirs[d]
  <1>1. ASSUME NEW d \in DOMAIN dirs
        PROVE  IsPrefix(Root, d) /\ SubSeq(d, Len(Root) + 1, Len(d)) = d /\ Root \o d = d
    <2>1. Len(Root) = 0 /\ Len(d) \in Nat /\ SubSeq(d, 1, Len(d)) = d
        BY SubSeqFull, LenProperties DEF Root
    <2>2. SubSeq(Root, 1, 0) = <<>> /\ SubSeq(d, 1, 0) = <<>>
        BY SubSeqEmpty
    <2>3. Root \o d = d
        BY ConcatEmptySeq DEF Root
    <2> QED BY <2>1, <2>2, <2>3 DEF IsPrefix
  <1> DEFINE below == {d \in DOMAIN dirs : IsPrefix(Root, d)}
  <1>2. below = DOMAIN dirs
    BY <1>1
  <1>3. {SubSeq(d, Len(Root) + 1, Len(d)) : d \in below} = DOMAIN dirs
    BY <1>1, <1>2
  <1> HIDE DEF below
  <1>4. Within(dirs, Root) = [d \in DOMAIN dirs |-> dirs[Root \o d]]
    BY <1>3 DEF Within, below
  <1> QED BY <1>1, <1>4

\* Reading the facts of a directory leaves its manifest as it is.
LEMMA FactsKeepPackage ==
    ASSUME NEW d, DOMAIN d.facts = DOMAIN Facts
    PROVE  readFacts(d).package = d.facts.package
  <1>1. "package" \in DOMAIN d.facts
    BY DEF Facts
  <1> QED BY <1>1 DEF readFacts

\* What an analysis keeps of the directory it begins at.
LEMMA AnalyzeHolds ==
    ASSUME NEW dirs, NEW d
    PROVE  LET here == Within(dirs, d)
           IN  /\ analyze(dirs, d).facts = readFacts(ReadDir(here, Root))
               /\ analyze(dirs, d).runnable = runnablePackages(here)
  <1>1. ASSUME NEW here, NEW candidates
        PROVE  /\ Metadata(here, d, candidates).facts = readFacts(ReadDir(here, Root))
               /\ Metadata(here, d, candidates).runnable = runnablePackages(here)
    <2> DEFINE root == ReadDir(here, Root)
               overlaid(cs) == [i \in DOMAIN cs |-> composeOverlay(root.compose, cs[i])]
               listed == IF Len(candidates) > 1 THEN overlaid(sortByRole(candidates)) ELSE <<>>
               sole == IF Len(candidates) = 1 /\ candidates[1].dir # Root THEN overlaid(candidates) ELSE <<>>
               facts == readFacts(root)
               runnable == runnablePackages(here)
               backing == mergedBacking(here, candidates)
               unsourced == d = Root /\ root.unsourcedLinks
               m == Metadata(here, d, candidates)
    <2>1. m = [facts |-> facts, invalidManifest |-> root.invalidManifest, services |-> listed, sole |-> sole,
               backing |-> backing, runnable |-> runnable, unsourcedLinks |-> unsourced,
               desktopGui |-> root.desktopGui]
        BY DEF Metadata
    <2> HIDE DEF m, listed, sole, facts, runnable, backing, unsourced, root
    <2>2. m.facts = facts /\ m.runnable = runnable
        BY <2>1
    <2> QED BY <2>2 DEF m, facts, runnable, root
  <1> QED BY <1>1 DEF analyze

\* The analysis of a directory has the scripts that the directory has.
LEMMA AnalysedScripts ==
    ASSUME NEW r \in Repos, NEW d \in DOMAIN r.dirs
    PROVE  DOMAIN r.analysis[d].facts.package.scripts = ScriptsIn(r.dirs, d)
  <1>1. ReadDir(Within(r.dirs, d), Root) = r.dirs[d]
    BY ReposAreRead, WithinHolds
  <1>4. ReadDir(r.dirs, d) = r.dirs[d]
    BY DEF ReadDir
  <1>2. r.analysis[d].facts = readFacts(ReadDir(Within(r.dirs, d), Root))
    BY ReadIs, AnalyzeHolds
  <1>3. readFacts(r.dirs[d]).package = r.dirs[d].facts.package
    BY ReposAreRead, FactsKeepPackage
  <1> QED BY <1>1, <1>2, <1>3, <1>4 DEF ScriptsIn

\* What a planner says of a directory.
MadeAt(o, dirs, d) ==
    /\ o.choices = {} /\ o.planned \in BOOLEAN /\ DOMAIN o = DOMAIN Unplanned
    /\ o.planned => MadeByRule(o.plan, d, ScriptsIn(dirs, d))

\* What is planned at a directory is made for it.
LEMMA PlannedAtIs ==
    ASSUME NEW r \in Repos, NEW d \in DOMAIN r.dirs
    PROVE  MadeAt(r.planned[d], r.dirs, d)
  <1> DEFINE facts == readFacts(ReadDir(r.dirs, d))
  <1>1. r.planned[d] = plan(facts, d)
    BY ReadIs DEF planAt
  <1>2. DOMAIN facts.package.scripts = ScriptsIn(r.dirs, d)
    BY ReposAreRead, FactsKeepPackage DEF ReadDir, ScriptsIn
  <1> HIDE DEF facts
  <1> QED BY <1>1, <1>2, PlannedIsMadeByRule DEF MadeAt

\* Packages that can be run are directories of the clone.
LEMMA RunnableAreThere ==
    ASSUME NEW r \in Repos
    PROVE  Meta(r).runnable \subseteq DOMAIN r.dirs
  <1>1. Meta(r).runnable = runnablePackages(Within(r.dirs, Root))
    BY ReposAreRead, ReadIs, AnalyzeHolds DEF Meta
  <1>2. DOMAIN Within(r.dirs, Root) = DOMAIN r.dirs
    BY ReposAreRead, WithinRoot
  <1>3. DOMAIN Directory.facts.package.scripts = {}
    BY DEF Directory, Facts, Package
  <1> QED BY <1>1, <1>2, <1>3 DEF runnablePackages, ReadDir

\* The manager of a workspace's root installs, and the plan runs what it ran.
LEMMA InstalledIsMade ==
    ASSUME NEW dirs, NEW p, NEW d, NEW scripts, MadeByRule(p, d, scripts)
    PROVE  LET t == InstalledAtRoot(dirs, p)
           IN  MadeByRule(t, d, scripts) /\ t.port = p.port /\ t.start = p.start
  <1> DEFINE t == InstalledAtRoot(dirs, p)
             install == detectNodeInstall(ReadDir(dirs, Root).facts)
             manager == Manager(ReadDir(dirs, Root).facts)
  <1>1. t = [p EXCEPT !.install = install, !.installDirectory = Root, !.manager = manager]
    BY DEF InstalledAtRoot
  <1>2. DOMAIN p = DOMAIN Plan
    BY DEF MadeByRule
  <1>3. scriptRun(install) = NoScript
    BY ManagerInstalls
  <1> HIDE DEF install, manager, t
  <1>4. /\ DOMAIN t = DOMAIN Plan /\ t.name = p.name /\ t.role = p.role /\ t.source = p.source
        /\ t.docker = p.docker /\ t.language = p.language /\ t.dir = p.dir /\ t.port = p.port
        /\ t.start = p.start /\ t.build = p.build /\ t.install = install
    BY <1>1, <1>2 DEF Plan
  <1>5. FollowsItsPort(p) => FollowsItsPort(t)
    BY <1>4 DEF FollowsItsPort
  <1>6. \A those : RunsScripts(p, those) => RunsScripts(t, those)
    BY <1>3, <1>4 DEF RunsScripts
  <1> QED BY <1>4, <1>5, <1>6 DEF MadeByRule, t

\* What the planner says of a repository is of one of its directories, or asks which.
LEMMA OutcomeIs ==
    ASSUME NEW r \in Repos
    PROVE  LET o == r.outcome
           IN  /\ o.choices \subseteq DOMAIN r.dirs /\ o.planned \in BOOLEAN
               /\ o.planned => \E d \in DOMAIN r.dirs : MadeByRule(o.plan, d, ScriptsIn(r.dirs, d))
  <1> DEFINE meta == Meta(r)
             o == r.outcome
             atRoot == r.planned[Root]
             only == r.planned[CHOOSE d \in meta.runnable : TRUE]
             sole == r.planned[meta.sole[1].dir]
             Good(a) == /\ a.choices \subseteq DOMAIN r.dirs /\ a.planned \in BOOLEAN
                        /\ a.planned => \E d \in DOMAIN r.dirs : MadeByRule(a.plan, d, ScriptsIn(r.dirs, d))
  <1>1. \A d \in DOMAIN r.dirs : Good(r.planned[d])
    BY PlannedAtIs DEF MadeAt
  <1>2. Root \in DOMAIN r.dirs
    BY ReposAreRead
  <1>3. o = planRepository(r.dirs, meta, r.planned)
    BY ReadIs DEF Meta
  <1>4. CASE Cardinality(meta.runnable) > 1
    <2>1. o = [Unplanned EXCEPT !.choices = meta.runnable]
        BY <1>3, <1>4 DEF planRepository
    <2>2. o.choices = meta.runnable /\ ~o.planned /\ o.planned \in BOOLEAN
        BY <2>1 DEF Unplanned, Planned
    <2> QED BY <2>2, RunnableAreThere
  <1>5. CASE ~(Cardinality(meta.runnable) > 1) /\ meta.runnable # {}
    <2>1. PICK d \in DOMAIN r.dirs : only = r.planned[d]
        BY <1>5, RunnableAreThere
    <2>2. MadeAt(only, r.dirs, d)
        BY <2>1, PlannedAtIs
    <2>3. o = IF only.planned /\ isWorkspaceRoot(r.dirs)
              THEN [only EXCEPT !.plan = InstalledAtRoot(r.dirs, @)] ELSE only
        BY <1>3, <1>5 DEF planRepository
    <2> HIDE DEF o, only
    <2>4. CASE o = only
        BY <2>2, <2>4 DEF MadeAt, o
    <2>5. CASE only.planned /\ o = [only EXCEPT !.plan = InstalledAtRoot(r.dirs, @)]
      <3>1. DOMAIN only = {"planned", "plan", "detected", "unrunnable", "choices"}
          BY <2>2 DEF MadeAt, Unplanned, Planned
      <3>2. o.choices = only.choices /\ o.planned = only.planned /\ o.plan = InstalledAtRoot(r.dirs, only.plan)
          BY <2>5, <3>1
      <3>3. MadeByRule(o.plan, d, ScriptsIn(r.dirs, d))
          BY <2>2, <2>5, <3>2, InstalledIsMade DEF MadeAt
      <3> QED BY <2>2, <3>2, <3>3 DEF MadeAt, o
    <2> QED BY <2>3, <2>4, <2>5
  <1>6. CASE meta.runnable = {} /\ ~(Cardinality(meta.runnable) > 1)
    <2>1. o = IF atRoot.planned \/ atRoot.unrunnable \/ meta.sole = <<>> THEN atRoot
              ELSE IF sole.planned THEN sole ELSE atRoot
        BY <1>3, <1>6 DEF planRepository
    <2>2. meta.sole # <<>> => meta.sole[1].dir \in DOMAIN r.dirs
      <3>1. meta.sole \in Seq(Range(meta.sole)) /\ \A c \in Range(meta.sole) : IsCandidate(r.dirs, c)
          BY ListsHoldCandidates DEF Meta
      <3>2. meta.sole # <<>> => Head(meta.sole) \in Range(meta.sole) /\ Head(meta.sole) = meta.sole[1]
          BY <3>1, HeadTailProperties
      <3> QED BY <3>1, <3>2 DEF IsCandidate
    <2>3. Good(atRoot) /\ (meta.sole # <<>> => Good(sole))
        BY <1>1, <1>2, <2>2
    <2>4. o = atRoot \/ (meta.sole # <<>> /\ o = sole)
        BY <2>1
    <2> HIDE DEF o, atRoot, sole, Good
    <2>5. Good(o)
        BY <2>3, <2>4
    <2> QED BY <2>5 DEF o, Good
  <1> QED BY <1>4, <1>5, <1>6

-----------------------------------------------------------------------------
(* What may be started *)

\* A service the program would not refuse for what it runs, where these scripts are
\* declared: a model's, one of scripts that are there, one refused for its command before.
Runnable(s, declared) ==
    /\ FollowsItsPort(s)
    /\ \/ s.source = "ai-fallback"
       \/ ~impossibleCommand(s, declared)
       \/ ~DockerPlan(s) /\ ~validateCommand(s.start)

\* A plan made by rule can run where its directory's scripts, or none, are declared.
LEMMA MadeIsRunnable ==
    ASSUME NEW p, NEW d, NEW scripts, NEW declared, MadeByRule(p, d, scripts),
           p.dir = d => declared \in {scripts, {}}
    PROVE  Runnable(p, declared)
  <1>1. ASSUME NEW those, RunsScripts(p, those), declared \in {those, {}} \/ those = {}
        PROVE  ~impossibleCommand(p, declared)
    BY <1>1 DEF RunsScripts, impossibleCommand
  <1>2. ~DockerPlan(p) /\ FollowsItsPort(p)
    BY DEF MadeByRule, DockerPlan
  <1>3. CASE RunsScripts(p, {})
    BY <1>1, <1>2, <1>3 DEF Runnable
  <1>4. CASE p.dir = d /\ (RunsScripts(p, scripts) \/ ~validateCommand(p.start))
    BY <1>1, <1>2, <1>4 DEF Runnable
  <1> QED BY <1>3, <1>4 DEF MadeByRule

\* A command told another port runs what it ran.
LEMMA MovedStart ==
    ASSUME NEW start, NEW from, NEW to, DOMAIN start = DOMAIN NoCommand
    PROVE  LET moved == withStartPort(start, from, to)
           IN  /\ moved.words = start.words /\ moved.flag = start.flag
               /\ moved.flag \in {"--port", "-p"} /\ start.port = from => moved.port = to
    BY DEF withStartPort, NoCommand, Cmd, Command

\* A service is planned where its directory is, and told the port it is watched on.
LEMMA ServiceIsRunnable ==
    ASSUME NEW dirs, NEW c, NEW name, NEW p, NEW d, NEW scripts, MadeByRule(p, d, scripts)
    PROVE  LET s == ServicePlan(dirs, c, name, p)
           IN  /\ DOMAIN s = DOMAIN Plan /\ s.dir = p.dir /\ s.name = name
               /\ \A declared : (p.dir = d => declared \in {scripts, {}}) => Runnable(s, declared)
  <1> DEFINE port == IF c.port # 0 THEN c.port ELSE p.port
             installed == IF isWorkspaceRoot(dirs) /\ p.language = "node" THEN InstalledAtRoot(dirs, p) ELSE p
             s == ServicePlan(dirs, c, name, p)
             start == withStartPort(p.start, p.port, port)
             role == c.role
  <1>1. MadeByRule(installed, d, scripts) /\ installed.port = p.port /\ installed.start = p.start
        /\ installed.dir = p.dir
    <2>1. "dir" \in DOMAIN p /\ DOMAIN p = DOMAIN Plan
        BY DEF MadeByRule, Plan
    <2>2. InstalledAtRoot(dirs, p).dir = p.dir
        BY <2>1 DEF InstalledAtRoot
    <2> QED BY <2>2, InstalledIsMade
  <1> HIDE DEF installed
  <1>2. s = [installed EXCEPT !.port = port, !.portEnv = port, !.start = start, !.name = name, !.role = role]
    <2>1. s = [installed EXCEPT !.port = port, !.portEnv = port, !.start = withStartPort(@, p.port, port),
                                !.name = name, !.role = c.role]
        BY DEF ServicePlan, installed
    <2>2. "start" \in DOMAIN installed
        BY <1>1 DEF MadeByRule, Plan
    <2> HIDE DEF s, port
    <2> QED BY <1>1, <2>1, <2>2
  <1>3. DOMAIN installed = DOMAIN Plan /\ DOMAIN p.start = DOMAIN NoCommand
    BY <1>1 DEF MadeByRule
  <1>4. /\ start.words = p.start.words /\ start.flag = p.start.flag
        /\ start.flag \in {"--port", "-p"} /\ p.start.port = p.port => start.port = port
    BY <1>3, MovedStart
  <1> HIDE DEF s, start, port, role
  <1>5. /\ DOMAIN s = DOMAIN Plan /\ s.dir = installed.dir /\ s.name = name /\ s.source = installed.source
        /\ s.docker = installed.docker /\ s.language = installed.language /\ s.install = installed.install
        /\ s.build = installed.build /\ s.start = start /\ s.port = port
    BY <1>2, <1>3 DEF Plan
  <1>6. FollowsItsPort(installed) => FollowsItsPort(s)
    BY <1>1, <1>4, <1>5 DEF FollowsItsPort
  <1>7. scriptRun(s.start) = scriptRun(installed.start)
        /\ validateCommand(s.start) = validateCommand(installed.start)
    BY <1>1, <1>4, <1>5 DEF scriptRun, validateCommand
  <1>8. ASSUME NEW declared, Runnable(installed, declared) PROVE Runnable(s, declared)
    <2>1. impossibleCommand(s, declared) => impossibleCommand(installed, declared)
        BY <1>5, <1>7 DEF impossibleCommand
    <2> QED BY <1>5, <1>6, <1>7, <1>8, <2>1 DEF Runnable, DockerPlan
  <1>9. ASSUME NEW declared, p.dir = d => declared \in {scripts, {}} PROVE Runnable(s, declared)
    BY <1>1, <1>8, <1>9, MadeIsRunnable
  <1> QED BY <1>1, <1>5, <1>9 DEF s

\* The candidates that have a plan, each with one made by rule for its directory.
LEMMA ReadyHolds ==
    ASSUME NEW r \in Repos
    PROVE  LET ready == Ready(Meta(r), r.planned)
           IN  /\ Len(ready) \in Nat /\ DOMAIN ready = 1..Len(ready)
               /\ \A n \in DOMAIN ready :
                     LET d == ready[n].dir
                     IN  d \in DOMAIN r.dirs /\ MadeByRule(r.planned[d].plan, d, ScriptsIn(r.dirs, d))
  <1> DEFINE ready == Ready(Meta(r), r.planned)
             those == {c \in Range(Meta(r).services) : r.planned[c.dir].planned}
  <1>1. ready \in Seq(those) /\ \A c \in those : IsCandidate(r.dirs, c)
    BY ListsHoldCandidates DEF Meta
  <1>2. \A c \in those : MadeByRule(r.planned[c.dir].plan, c.dir, ScriptsIn(r.dirs, c.dir))
    BY <1>1, PlannedAtIs DEF IsCandidate, MadeAt
  <1>3. \A c \in those : c.dir \in DOMAIN r.dirs
    BY <1>1 DEF IsCandidate
  <1> HIDE DEF ready, those
  <1>4. Len(ready) \in Nat /\ DOMAIN ready = 1..Len(ready) /\ \A n \in DOMAIN ready : ready[n] \in those
    BY <1>1, LenProperties, ElementOfSeq
  <1> QED BY <1>2, <1>3, <1>4 DEF ready

\* The scripts declared beside a service are those of its directory.
LEMMA CandidateScripts ==
    ASSUME NEW r \in Repos, NEW d \in DOMAIN r.dirs
    PROVE  CandidateAt(Meta(r).services, d).scripts \in {ScriptsIn(r.dirs, d), {}}
  <1> DEFINE listed == Meta(r).services
             those == {i \in DOMAIN listed : listed[i].dir = d}
  <1>1. listed \in Seq(Range(listed)) /\ \A c \in Range(listed) : IsCandidate(r.dirs, c)
    BY ListsHoldCandidates DEF Meta
  <1>2. DOMAIN listed \subseteq Nat /\ \A i \in DOMAIN listed : IsCandidate(r.dirs, listed[i])
    <2>1. DOMAIN listed = 1..Len(listed) /\ Len(listed) \in Nat
        BY <1>1, LenProperties
    <2>2. \A i \in DOMAIN listed : listed[i] \in Range(listed)
        BY DEF Range
    <2> HIDE DEF listed
    <2> QED BY <1>1, <2>1, <2>2
  <1>3. CandidateAt(listed, d) = IF those = {} THEN NoCandidate ELSE listed[Min(those)]
    BY DEF CandidateAt, FirstOf
  <1>4. those # {} => Min(those) \in those
    BY <1>2, LeastExists
  <1>5. ASSUME NEW i \in those PROVE listed[i].scripts = ScriptsIn(r.dirs, d)
    BY <1>2 DEF IsCandidate, ScriptsIn, ReadDir
  <1>6. NoCandidate.scripts = {}
    BY DEF NoCandidate
  <1> HIDE DEF those, listed
  <1> QED BY <1>3, <1>4, <1>5, <1>6 DEF listed

\* The plans of a project's services, each of which can run beside its candidate.
LEMMA PlansAre ==
    ASSUME NEW r \in Repos
    PROVE  /\ \E n \in Nat : DOMAIN PlansOf(r) = 1..n
           /\ \A i \in DOMAIN PlansOf(r) :
                 LET p == PlansOf(r)[i]
                 IN  DOMAIN p = DOMAIN Plan /\ Runnable(p, CandidateIn(r, p).scripts)
  <1> DEFINE ready == Ready(Meta(r), r.planned)
             plans == PlansOf(r)
             made(n) == r.planned[ready[n].dir].plan
  <1>1. plans = IF Len(ready) < 2 THEN <<>>
                ELSE [i \in DOMAIN ready |-> ServicePlan(r.dirs, ready[i], dnsName(ready, i), made(i))]
    BY DEF PlansOf, planProject
  <1>2. /\ Len(ready) \in Nat /\ DOMAIN ready = 1..Len(ready)
        /\ \A n \in DOMAIN ready :
              /\ ready[n].dir \in DOMAIN r.dirs
              /\ MadeByRule(made(n), ready[n].dir, ScriptsIn(r.dirs, ready[n].dir))
    BY ReadyHolds
  <1> HIDE DEF plans, ready, made
  <1>3. \E n \in Nat : DOMAIN plans = 1..n
    <2>1. DOMAIN <<>> = 1..0
        OBVIOUS
    <2> QED BY <1>1, <1>2, <2>1
  <1>4. ASSUME NEW i \in DOMAIN plans
        PROVE  DOMAIN plans[i] = DOMAIN Plan /\ Runnable(plans[i], CandidateIn(r, plans[i]).scripts)
    <2> DEFINE d == ready[i].dir
               p == plans[i]
               declared == CandidateIn(r, p).scripts
    <2>1. i \in DOMAIN ready /\ p = ServicePlan(r.dirs, ready[i], dnsName(ready, i), made(i))
        BY <1>1
    <2>2. d \in DOMAIN r.dirs /\ MadeByRule(made(i), d, ScriptsIn(r.dirs, d))
        BY <1>2, <2>1
    <2>3. /\ DOMAIN p = DOMAIN Plan /\ p.dir = made(i).dir
          /\ \A those : (made(i).dir = d => those \in {ScriptsIn(r.dirs, d), {}}) => Runnable(p, those)
        BY <2>1, <2>2, ServiceIsRunnable
    <2>4. declared = CandidateAt(Meta(r).services, p.dir).scripts
        BY DEF CandidateIn, CandidateOf
    <2>5. p.dir = d => declared \in {ScriptsIn(r.dirs, d), {}}
        BY <2>2, <2>4, CandidateScripts
    <2> HIDE DEF d, p, declared
    <2> QED BY <2>3, <2>5 DEF p, declared
  <1> QED BY <1>3, <1>4 DEF plans

-----------------------------------------------------------------------------
(* Services on their way through the layers *)

\* A service that only its environment was changed of.
SameService(s, t) ==
    /\ DOMAIN t = DOMAIN s
    /\ t.name = s.name /\ t.dir = s.dir /\ t.role = s.role /\ t.docker = s.docker
    /\ t.source = s.source /\ t.language = s.language /\ t.start = s.start
    /\ t.install = s.install /\ t.build = s.build /\ t.port = s.port

Declares(c) == NamesOf(c.envExample) \cup c.envKeys

\* Values, and none of them empty.
HaveValues(values) == \A k \in DOMAIN values : values[k] # ""

\* Nothing a service had a value for has none afterwards.
LEMMA MergedKeeps ==
    ASSUME NEW s, NEW t, NEW values, t.env = Merged(s.env, values), HaveValues(values)
    PROVE  /\ Given(s) \subseteq Given(t)
           /\ Given(t) \subseteq Given(s) \cup DOMAIN values
           /\ DOMAIN values \subseteq Given(t)
  <1>1. DOMAIN t.env = DOMAIN values \cup DOMAIN s.env
    BY MergedHolds
  <1>2. \A k \in DOMAIN values : t.env[k].value = values[k]
    BY DEF Merged, Layered
  <1>3. \A k \in DOMAIN s.env \ DOMAIN values : t.env[k] = s.env[k]
    BY DEF Merged, Layered
  <1> QED BY <1>1, <1>2, <1>3 DEF Given, HaveValues

\* A service with another environment.
LEMMA EnvReplaced ==
    ASSUME NEW s, NEW e, DOMAIN s = DOMAIN Plan
    PROVE  SameService(s, [s EXCEPT !.env = e]) /\ [s EXCEPT !.env = e].env = e
    BY PlanFields DEF SameService

\* What applying values does to one service: those it declares are merged.
LEMMA Applied ==
    ASSUME NEW project, NEW candidates, NEW values, NEW i \in DOMAIN project,
           DOMAIN project[i] = DOMAIN Plan
    PROVE  LET applied == applyConfiguration(project, candidates, values)
               c == CandidateOf(candidates, project[i])
           IN  /\ DOMAIN applied = DOMAIN project
               /\ SameService(project[i], applied[i])
               /\ applied[i].env = Merged(project[i].env, OnlyKeys(values, Declares(c)))
    BY EnvReplaced DEF applyConfiguration, Declares

\* The answers to a crash: those a service was asked for are merged.
LEMMA CrashAnswered ==
    ASSUME NEW project, NEW questioned, NEW values, NEW i \in DOMAIN project,
           DOMAIN project[i] = DOMAIN Plan
    PROVE  LET answered == withCrashAnswers(project, questioned, values)
               names == {q.key : q \in {q \in questioned : q.service = project[i].name}}
           IN  /\ DOMAIN answered = DOMAIN project
               /\ SameService(project[i], answered[i])
               /\ answered[i].env = Merged(project[i].env, OnlyKeys(values, names))
    BY EnvReplaced DEF withCrashAnswers

\* An example's values are the lowest layer, and have values.
LEMMA Defaulted ==
    ASSUME NEW p, NEW declared, NEW supplied, NEW required, DOMAIN p = DOMAIN Plan
    PROVE  LET t == withExampleDefaults(p, declared, supplied, required)
           IN  /\ SameService(p, t)
               /\ Given(p) \subseteq Given(t)
               /\ Given(t) \subseteq Given(p) \cup {v.key : v \in {v \in Range(declared) : v.value # ""}}
  <1> DEFINE copied == {v \in Range(declared) :
                          /\ v.value # "" /\ v.key \in required
                          /\ v.key \notin DOMAIN p.env \cup supplied \cup ALWAYS_SUPPLIED
                          /\ v.value \notin {Loopback, Database}
                          /\ validateEnvVarKey(v.key) /\ validateEnvVarValue(v.value)}
             layer == [k \in {v.key : v \in copied} |-> Value((CHOOSE v \in copied : v.key = k).value)]
             t == withExampleDefaults(p, declared, supplied, required)
  <1>1. t = [p EXCEPT !.env = Layered(p.env, layer)]
    BY PlanFields DEF withExampleDefaults
  <1>2. SameService(p, t) /\ t.env = Layered(p.env, layer)
    BY <1>1, EnvReplaced
  <1>3. DOMAIN layer \subseteq {v.key : v \in {v \in Range(declared) : v.value # ""}}
    OBVIOUS
  <1> HIDE DEF layer, t
  <1>4. DOMAIN t.env = DOMAIN p.env \cup DOMAIN layer
    BY <1>2, LayeredHolds
  <1>5. \A k \in DOMAIN p.env : t.env[k] = p.env[k]
    BY <1>2 DEF Layered
  <1> QED BY <1>2, <1>3, <1>4, <1>5 DEF t, Given

-----------------------------------------------------------------------------
(* A project, from its plans to what SessionManager keeps *)

Drafted(r) == r.project.services
WithExamples(r) == projectWithExampleDefaults(r.dirs, PlansOf(r), Meta(r).services, Meta(r).backing)
DeclaredOf(r) == requiredConfiguration(PlansOf(r), Meta(r).services, Meta(r).backing)

\* What a project is drafted from.
LEMMA DraftIs ==
    ASSUME NEW r \in Repos
    PROVE  /\ Drafted(r) = projectWithGenerated(WithExamples(r), Meta(r).services, r.project.missing)
           /\ r.project.missing = DeclaredOf(r) \cup
                  selfSigningMissing(r.dirs, Range(PlansOf(r)), DeclaredOf(r))
  <1>1. r.project = draftProject(r.dirs, r.analysis[Root], r.planned)
    BY ReadIs
  <1>2. r.project.missing = DeclaredOf(r) \cup
                selfSigningMissing(r.dirs, Range(PlansOf(r)), DeclaredOf(r))
    BY <1>1 DEF DeclaredOf, PlansOf, Meta, draftProject
  <1>3. r.project.services = projectWithGenerated(WithExamples(r), Meta(r).services,
                DeclaredOf(r) \cup selfSigningMissing(r.dirs, Range(PlansOf(r)), DeclaredOf(r)))
    BY <1>1 DEF WithExamples, DeclaredOf, PlansOf, Meta, draftProject
  <1> QED BY <1>2, <1>3 DEF Drafted

\* What is generated has a value, and only secrets of the application's own are.
LEMMA GeneratedHolds ==
    ASSUME NEW missing, NEW keys
    PROVE  /\ HaveValues(generated(missing))
           /\ HaveValues(OnlyKeys(generated(missing), keys))
           /\ DOMAIN generated(missing) = {q.key : q \in missing} \cap SelfSigning
           /\ DOMAIN OnlyKeys(generated(missing), keys) = {q.key : q \in missing} \cap SelfSigning \cap keys
    BY DEF generated, HaveValues, OnlyKeys, Restrict

\* The secrets a project is given, service by service.
LEMMA GeneratedFor ==
    ASSUME NEW project, NEW candidates, NEW missing, NEW i \in DOMAIN project,
           DOMAIN project[i] = DOMAIN Plan
    PROVE  LET t == projectWithGenerated(project, candidates, missing)
               c == CandidateOf(candidates, project[i])
           IN  /\ DOMAIN t = DOMAIN project
               /\ SameService(project[i], t[i])
               /\ Given(project[i]) \subseteq Given(t[i])
               /\ Given(t[i]) \subseteq Given(project[i]) \cup SelfSigning
               /\ {q.key : q \in missing} \cap SelfSigning \cap Declares(c) \subseteq Given(t[i])
  <1> DEFINE values == generated(missing)
             applied == applyConfiguration(project, candidates, values)
             c == CandidateOf(candidates, project[i])
             t == projectWithGenerated(project, candidates, missing)
             own == {q \in missing : q.service = applied[i].name
                                     /\ q.key \in SelfSigning \ DOMAIN applied[i].env}
             keys == {q.key : q \in own}
  <1>1. /\ DOMAIN applied = DOMAIN project
        /\ SameService(project[i], applied[i])
        /\ applied[i].env = Merged(project[i].env, OnlyKeys(values, Declares(c)))
    <2> HIDE DEF values
    <2> QED BY Applied
  <1>2. /\ DOMAIN t = DOMAIN applied
        /\ t[i] = [applied[i] EXCEPT !.env = Merged(applied[i].env, OnlyKeys(values, keys))]
    <2> DEFINE of(s) == {q \in missing : q.service = s.name /\ q.key \in SelfSigning \ DOMAIN s.env}
    <2>1. t = [n \in DOMAIN applied |->
                  [applied[n] EXCEPT !.env = Merged(@, OnlyKeys(values, {q.key : q \in of(applied[n])}))]]
        BY DEF projectWithGenerated
    <2>2. i \in DOMAIN applied /\ "env" \in DOMAIN applied[i]
        BY <1>1, PlanFields DEF SameService
    <2> HIDE DEF t, applied, values
    <2>3. t[i] = [applied[i] EXCEPT !.env = Merged(@, OnlyKeys(values, {q.key : q \in of(applied[i])}))]
        BY <2>1, <2>2
    <2> QED BY <2>1, <2>2, <2>3
  <1> HIDE DEF applied, t, keys
  <1>3. SameService(applied[i], t[i]) /\ t[i].env = Merged(applied[i].env, OnlyKeys(values, keys))
    BY <1>1, <1>2, EnvReplaced DEF SameService
  <1>4. /\ Given(project[i]) \subseteq Given(applied[i])
        /\ Given(applied[i]) \subseteq Given(project[i]) \cup SelfSigning
        /\ {q.key : q \in missing} \cap SelfSigning \cap Declares(c) \subseteq Given(applied[i])
    <2> DEFINE mine == OnlyKeys(values, Declares(c))
    <2>1. HaveValues(mine) /\ DOMAIN mine = {q.key : q \in missing} \cap SelfSigning \cap Declares(c)
        BY GeneratedHolds
    <2> HIDE DEF mine
    <2> QED BY <1>1, <2>1, MergedKeeps DEF mine
  <1>5. Given(applied[i]) \subseteq Given(t[i]) /\ Given(t[i]) \subseteq Given(applied[i]) \cup SelfSigning
    <2> DEFINE mine == OnlyKeys(values, keys)
    <2>1. HaveValues(mine) /\ DOMAIN mine = {q.key : q \in missing} \cap SelfSigning \cap keys
        BY GeneratedHolds
    <2> HIDE DEF mine
    <2> QED BY <1>3, <2>1, MergedKeeps DEF mine
  <1> QED BY <1>1, <1>2, <1>3, <1>4, <1>5 DEF t, SameService

\* No layer adds or removes a service, or a field of one.
LEMMA FieldsStay ==
    ASSUME NEW r \in Repos
    PROVE  /\ DOMAIN PlansOf(r) = DOMAIN Drafted(r) /\ DOMAIN WithExamples(r) = DOMAIN Drafted(r)
           /\ \E n \in Nat : DOMAIN Drafted(r) = 1..n
           /\ \A i \in DOMAIN Drafted(r) :
                 /\ DOMAIN Drafted(r)[i] = DOMAIN Plan
                 /\ DOMAIN PlansOf(r)[i] = DOMAIN Plan /\ DOMAIN WithExamples(r)[i] = DOMAIN Plan
  <1> DEFINE values == generated(r.project.missing)
             applied == applyConfiguration(WithExamples(r), Meta(r).services, values)
  <1>1. \E n \in Nat : DOMAIN PlansOf(r) = 1..n
    BY PlansAre
  <1>2. \A i \in DOMAIN PlansOf(r) : DOMAIN PlansOf(r)[i] = DOMAIN Plan
    BY PlansAre
  <1>3. DOMAIN Drafted(r) = DOMAIN applied /\ \A i \in DOMAIN applied : DOMAIN Drafted(r)[i] = DOMAIN applied[i]
    <2>1. Drafted(r) = projectWithGenerated(WithExamples(r), Meta(r).services, r.project.missing)
        BY DraftIs
    <2> QED BY <2>1 DEF projectWithGenerated
  <1>4. DOMAIN applied = DOMAIN WithExamples(r)
        /\ \A i \in DOMAIN WithExamples(r) : DOMAIN applied[i] = DOMAIN WithExamples(r)[i]
    BY DEF applyConfiguration
  <1>5. DOMAIN WithExamples(r) = DOMAIN PlansOf(r)
        /\ \A i \in DOMAIN PlansOf(r) : DOMAIN WithExamples(r)[i] = DOMAIN PlansOf(r)[i]
    BY DEF WithExamples, projectWithExampleDefaults, withExampleDefaults
  <1> HIDE DEF applied
  <1> QED BY <1>1, <1>2, <1>3, <1>4, <1>5

\* What a service of the project has, beside what the planner gave it.
LEMMA DraftLayers ==
    ASSUME NEW r \in Repos, NEW i \in DOMAIN Drafted(r)
    PROVE  LET p == PlansOf(r)[i]
               t == Drafted(r)[i]
               c == CandidateIn(r, p)
           IN  /\ SameService(p, t)
               /\ Given(p) \subseteq Given(t)
               /\ Given(t) \subseteq Given(p) \cup ShippedBy(c) \cup SelfSigning
               /\ {q.key : q \in r.project.missing} \cap SelfSigning \cap Declares(c) \subseteq Given(t)
  <1> DEFINE p == PlansOf(r)[i]
             e == WithExamples(r)[i]
             t == Drafted(r)[i]
             c == CandidateIn(r, p)
  <1>1. SameService(p, e) /\ Given(p) \subseteq Given(e) /\ Given(e) \subseteq Given(p) \cup ShippedBy(c)
    <2> DEFINE supplied == suppliedKeys(p, c, Meta(r).backing)
               required == ReadDir(r.dirs, p.dir).crashReads
    <2>1. e = withExampleDefaults(p, c.envExample, supplied, required)
        BY FieldsStay DEF WithExamples, projectWithExampleDefaults, CandidateIn
    <2>2. DOMAIN p = DOMAIN Plan
        BY FieldsStay
    <2> HIDE DEF p, e, c, supplied, required
    <2> QED BY <2>1, <2>2, Defaulted DEF ShippedBy
  <1>2. CandidateIn(r, e) = c
    BY <1>1 DEF SameService, CandidateIn, CandidateOf
  <1>3. /\ SameService(e, t)
        /\ Given(e) \subseteq Given(t)
        /\ Given(t) \subseteq Given(e) \cup SelfSigning
        /\ {q.key : q \in r.project.missing} \cap SelfSigning \cap Declares(CandidateIn(r, e)) \subseteq Given(t)
    <2>1. Drafted(r) = projectWithGenerated(WithExamples(r), Meta(r).services, r.project.missing)
        BY DraftIs
    <2>2. i \in DOMAIN WithExamples(r) /\ DOMAIN WithExamples(r)[i] = DOMAIN Plan
        BY FieldsStay
    <2> QED BY <2>1, <2>2, GeneratedFor DEF CandidateIn
  <1> HIDE DEF p, e, t, c
  <1>4. SameService(p, t)
    BY <1>1, <1>3 DEF SameService
  <1>5. Given(p) \subseteq Given(t) /\ Given(t) \subseteq Given(p) \cup ShippedBy(c) \cup SelfSigning
    BY <1>1, <1>3
  <1>6. {q.key : q \in r.project.missing} \cap SelfSigning \cap Declares(c) \subseteq Given(t)
    BY <1>2, <1>3
  <1> QED BY <1>4, <1>5, <1>6 DEF p, e, t, c

\* Every service of a project has a name of its own.
LEMMA ServicesHaveNames ==
    ASSUME NEW r \in Repos, NEW i \in DOMAIN Drafted(r), NEW j \in DOMAIN Drafted(r),
           PlansOf(r)[i].name = PlansOf(r)[j].name
    PROVE  i = j
  <1> DEFINE ready == Ready(Meta(r), r.planned)
  <1>1. i \in DOMAIN PlansOf(r) /\ j \in DOMAIN PlansOf(r)
    BY FieldsStay
  <1>2. PlansOf(r) = [n \in DOMAIN ready |->
            ServicePlan(r.dirs, ready[n], dnsName(ready, n), r.planned[ready[n].dir].plan)]
    BY <1>1 DEF PlansOf, planProject
  <1>3. \A n \in DOMAIN PlansOf(r) : PlansOf(r)[n].name = dnsName(ready, n)
    <2> TAKE n \in DOMAIN PlansOf(r)
    <2>1. "name" \in DOMAIN PlansOf(r)[n]
        BY FieldsStay, PlanFields
    <2>2. PlansOf(r)[n] = ServicePlan(r.dirs, ready[n], dnsName(ready, n), r.planned[ready[n].dir].plan)
        BY <1>2
    <2> HIDE DEF ready
    <2> QED BY <2>1, <2>2 DEF ServicePlan
  <1>4. i \in Nat \ {0} /\ j \in Nat \ {0}
    BY FieldsStay
  <1> HIDE DEF ready
  <1> QED BY <1>1, <1>3, <1>4, NamesAreDistinct

-----------------------------------------------------------------------------
(* What is asked before a project runs *)

\* What a project's gate asks: all that is missing but the secrets that were generated.
AskedBefore(r) == {q \in r.project.missing : q.key \notin SelfSigning}

WantedBy(c) == {v.key : v \in {v \in Range(c.envExample) : ~v.hasDefault}}

\* It asks a service for what its example declares without a value, and for nothing
\* DevLaunch decides or the plan carries.
LEMMA DraftAsks ==
    ASSUME NEW r \in Repos, NEW q \in AskedBefore(r), NEW i \in DOMAIN Drafted(r),
           q.service = Drafted(r)[i].name
    PROVE  LET t == Drafted(r)[i]
               c == CandidateIn(r, t)
           IN  /\ q.key \in WantedBy(c)
               /\ q.key \notin provisionedNames(Meta(r).backing)
               /\ q.key \notin wirableKeys(t.role, c.envKeys)
               /\ q.key \notin Given(t) \ ShippedBy(c)
  <1> DEFINE p == PlansOf(r)[i]
             t == Drafted(r)[i]
             c == CandidateIn(r, p)
  <1>1. q \in DeclaredOf(r) /\ q.key \notin SelfSigning
    BY DraftIs DEF AskedBefore, selfSigningMissing
  <1>2. PICK s \in Range(PlansOf(r)) : q \in missingFor(s, CandidateIn(r, s), Meta(r).backing)
    BY <1>1 DEF DeclaredOf, requiredConfiguration, CandidateIn
  <1>3. PICK j \in DOMAIN Drafted(r) : s = PlansOf(r)[j]
    BY <1>2, FieldsStay DEF Range
  <1>4. q.service = s.name
        /\ q.key \in WantedBy(CandidateIn(r, s)) \ suppliedKeys(s, CandidateIn(r, s), Meta(r).backing)
    BY <1>2 DEF missingFor, WantedBy
  <1>5. SameService(p, t) /\ Given(t) \subseteq Given(p) \cup ShippedBy(c) \cup SelfSigning
    BY DraftLayers
  <1>6. s = p
    BY <1>3, <1>4, <1>5, ServicesHaveNames DEF SameService
  <1>7. CandidateIn(r, t) = c /\ t.role = p.role
    BY <1>5 DEF SameService, CandidateIn, CandidateOf
  <1> HIDE DEF p, t, c
  <1>8. q.key \in WantedBy(c) \ suppliedKeys(p, c, Meta(r).backing)
    BY <1>4, <1>6 DEF c
  <1> QED BY <1>1, <1>5, <1>7, <1>8 DEF suppliedKeys, t

\* It leaves nothing out: what an example declares without a value is there, is asked for,
\* or is DevLaunch's to supply.
LEMMA DraftCovers ==
    ASSUME NEW r \in Repos, NEW i \in DOMAIN Drafted(r)
    PROVE  LET t == Drafted(r)[i]
               c == CandidateIn(r, t)
           IN  WantedBy(c) \subseteq
                   Given(t) \cup {q.key : q \in {q \in AskedBefore(r) : q.service = t.name}}
                       \cup ALWAYS_SUPPLIED \cup provisionedNames(Meta(r).backing)
                       \cup wirableKeys(t.role, c.envKeys)
  <1> DEFINE p == PlansOf(r)[i]
             t == Drafted(r)[i]
             c == CandidateIn(r, p)
  <1>1. /\ SameService(p, t)
        /\ Given(p) \subseteq Given(t)
        /\ {q.key : q \in r.project.missing} \cap SelfSigning \cap Declares(c) \subseteq Given(t)
    BY DraftLayers
  <1>2. CandidateIn(r, t) = c /\ t.role = p.role /\ t.name = p.name
    BY <1>1 DEF SameService, CandidateIn, CandidateOf
  <1>3. p \in Range(PlansOf(r))
    BY FieldsStay DEF Range
  <1>4. missingFor(p, c, Meta(r).backing) \subseteq r.project.missing
    BY <1>3, DraftIs DEF DeclaredOf, requiredConfiguration, CandidateIn
  <1>5. WantedBy(c) \subseteq Declares(c)
    BY DEF WantedBy, Declares, NamesOf
  <1> HIDE DEF p, t, c
  <1>6. SUFFICES ASSUME NEW k \in WantedBy(c), k \notin suppliedKeys(p, c, Meta(r).backing), k \notin Given(t)
                 PROVE  k \in {q.key : q \in {q \in AskedBefore(r) : q.service = t.name}}
    BY <1>1, <1>2 DEF t, suppliedKeys
  <1>7. [service |-> p.name, key |-> k] \in missingFor(p, c, Meta(r).backing)
    BY <1>6 DEF missingFor, WantedBy
  <1>8. [service |-> p.name, key |-> k] \in r.project.missing
    BY <1>4, <1>7
  <1>9. k \notin SelfSigning
    <2> DEFINE q == [service |-> p.name, key |-> k]
    <2>1. q \in r.project.missing /\ q.key = k
        BY <1>8
    <2> HIDE DEF q
    <2> QED BY <1>1, <1>5, <1>6, <2>1
  <1>10. [service |-> p.name, key |-> k] \in {q \in AskedBefore(r) : q.service = t.name}
    BY <1>2, <1>8, <1>9 DEF AskedBefore
  <1> QED BY <1>10

-----------------------------------------------------------------------------
(* Where values go *)

\* Merging values into a service: it stays what it was, its other settings stay, and the
\* values are there.
LEMMA MergedService ==
    ASSUME NEW s, NEW t, NEW values, NEW keys,
           SameService(s, t), t.env = Merged(s.env, OnlyKeys(values, keys)), HaveValues(values)
    PROVE  /\ Given(s) \subseteq Given(t)
           /\ \A k \in DOMAIN t.env : k \in keys \/ (k \in DOMAIN s.env /\ t.env[k] = s.env[k])
           /\ \A k \in DOMAIN values \cap keys : k \in DOMAIN t.env /\ t.env[k].value = values[k]
           /\ \A k \in DOMAIN s.env \ keys : k \in DOMAIN t.env /\ t.env[k] = s.env[k]
  <1> DEFINE mine == OnlyKeys(values, keys)
  <1>1. DOMAIN mine = DOMAIN values \cap keys /\ \A k \in DOMAIN values \cap keys : mine[k] = values[k]
    BY OnlyKeysHolds
  <1>2. HaveValues(mine)
    BY <1>1 DEF HaveValues
  <1> HIDE DEF mine
  <1>3. DOMAIN t.env = DOMAIN mine \cup DOMAIN s.env
    BY MergedHolds DEF mine
  <1>4. \A k \in DOMAIN mine : t.env[k].value = mine[k]
    BY DEF Merged, Layered, mine
  <1>5. \A k \in DOMAIN s.env \ DOMAIN mine : t.env[k] = s.env[k]
    BY DEF Merged, Layered, mine
  <1>6. Given(s) \subseteq Given(t)
    BY <1>2, MergedKeeps DEF mine
  <1> QED BY <1>1, <1>3, <1>4, <1>5, <1>6

\* Values for a project: each service that declares one has it, and no other.
LEMMA AppliedService ==
    ASSUME NEW project, NEW candidates, NEW values, NEW i \in DOMAIN project,
           DOMAIN project[i] = DOMAIN Plan, HaveValues(values)
    PROVE  LET s == project[i]
               t == applyConfiguration(project, candidates, values)[i]
               keys == Declares(CandidateOf(candidates, s))
           IN  /\ SameService(s, t) /\ Given(s) \subseteq Given(t)
               /\ \A k \in DOMAIN t.env : k \in keys \/ (k \in DOMAIN s.env /\ t.env[k] = s.env[k])
               /\ \A k \in DOMAIN values \cap keys : k \in DOMAIN t.env /\ t.env[k].value = values[k]
  <1> DEFINE s == project[i]
             t == applyConfiguration(project, candidates, values)[i]
             keys == Declares(CandidateOf(candidates, s))
  <1>1. SameService(s, t) /\ t.env = Merged(s.env, OnlyKeys(values, keys))
    BY Applied
  <1> HIDE DEF s, t, keys
  <1>2. /\ Given(s) \subseteq Given(t)
        /\ \A k \in DOMAIN t.env : k \in keys \/ (k \in DOMAIN s.env /\ t.env[k] = s.env[k])
        /\ \A k \in DOMAIN values \cap keys : k \in DOMAIN t.env /\ t.env[k].value = values[k]
    BY <1>1, MergedService
  <1> QED BY <1>1, <1>2 DEF s, t, keys

\* Answers to a crash, after they were applied: each service has what it was asked for.
LEMMA CrashedService ==
    ASSUME NEW project, NEW questioned, NEW values, NEW i \in DOMAIN project,
           DOMAIN project[i] = DOMAIN Plan, HaveValues(values)
    PROVE  LET s == project[i]
               t == withCrashAnswers(project, questioned, values)[i]
               keys == {q.key : q \in {q \in questioned : q.service = s.name}}
           IN  /\ SameService(s, t) /\ Given(s) \subseteq Given(t)
               /\ \A k \in DOMAIN t.env : k \in keys \/ (k \in DOMAIN s.env /\ t.env[k] = s.env[k])
               /\ \A k \in DOMAIN values \cap keys : k \in DOMAIN t.env /\ t.env[k].value = values[k]
  <1> DEFINE s == project[i]
             t == withCrashAnswers(project, questioned, values)[i]
             keys == {q.key : q \in {q \in questioned : q.service = s.name}}
  <1>1. SameService(s, t) /\ t.env = Merged(s.env, OnlyKeys(values, keys))
    BY CrashAnswered
  <1> HIDE DEF s, t, keys
  <1>2. /\ Given(s) \subseteq Given(t)
        /\ \A k \in DOMAIN t.env : k \in keys \/ (k \in DOMAIN s.env /\ t.env[k] = s.env[k])
        /\ \A k \in DOMAIN values \cap keys : k \in DOMAIN t.env /\ t.env[k].value = values[k]
    BY <1>1, MergedService
  <1> QED BY <1>1, <1>2 DEF s, t, keys

-----------------------------------------------------------------------------
(* The invariant *)

Early == {"QUEUED", "CLONING", "ANALYZING", "PLANNING"}
SingleAsks == requiredConfigurationForSingle(metadata)

\* Where the run is: a directory of the repository once it is cloned, no plan while it is
\* being planned, and a plan is of something.
Places ==
    /\ TypeOK
    /\ analysed \in DOMAIN repo.dirs \cup {Nowhere}
    /\ state \in {"ANALYZING", "PLANNING"} => analysed \in DOMAIN repo.dirs
    /\ state \in Early => kind = "none"
    /\ kind = "none" => reply = NoReply
    /\ kind # "none" => 1 \in DOMAIN services
    /\ \A k \in DOMAIN reply.values : reply.values[k] \in Replies

\* A single plan is the planner's, with more settings, and its gate left nothing out.
SingleKept ==
    /\ DOMAIN services = {1} /\ DOMAIN services[1] = DOMAIN Plan
    /\ services[1].name = Alone /\ services[1].role = "web"
    /\ {v.key : v \in Undefaulted(metadata.facts)} \subseteq
           Given(services[1]) \cup AskedOf(services[1]) \cup ALWAYS_SUPPLIED \cup provisionedKeys(metadata.backing)

\* So is each service of a project, whose gate asked what it asks.
ProjectKept ==
    /\ analysed = Root /\ DOMAIN services = DOMAIN Drafted(repo)
    /\ \A i \in DOMAIN services :
          SameService(Drafted(repo)[i], services[i]) /\ Given(Drafted(repo)[i]) \subseteq Given(services[i])
    /\ AskedBefore(repo) \subseteq questions

DockerKept ==
    DOMAIN services = {1} /\ DOMAIN services[1] = DOMAIN Plan /\ services[1].docker

Kept ==
    /\ kind = "single" => SingleKept
    /\ kind = "docker" => DockerKept
    /\ kind = "project" => ProjectKept \/ DockerKept

\* What a service holds of a person's is at home there.
HomeIn(s) ==
    \A k \in DOMAIN s.env : s.env[k].value \in Replies \ {Blank} =>
        k \in Declares(CandidateOf(metadata.services, s)) \cup AskedOf(s)

\* And the last answer is where it was asked for.
AnsweredIn(s) ==
    \A q \in reply.asked :
        q.service = s.name /\ q.key \in DOMAIN reply.values /\ reply.values[q.key] # Blank
            => q.key \in DOMAIN s.env /\ s.env[q.key].value = reply.values[q.key]

Homes == kind \in {"project", "docker"} => \A i \in DOMAIN services : HomeIn(services[i]) /\ AnsweredIn(services[i])

\* What is being asked.
Asks ==
    state = "AWAITING_INPUT" =>
        /\ pending.env \subseteq questions
        /\ pending.choices # {} => kind = "none"
        /\ ~pending.crash =>
              /\ kind # "docker"
              /\ kind = "single" => pending.env \subseteq SingleAsks
              /\ kind = "project" => /\ analysed = Root /\ services = Drafted(repo)
                                     /\ pending.env \subseteq AskedBefore(repo)

\* What runs is what was planned, with more settings; what was given stays.
Running ==
    Launched =>
        /\ DOMAIN ran = DOMAIN services
        /\ \A i \in DOMAIN services :
              /\ SameService(services[i], ran[i]) /\ Given(services[i]) \subseteq Given(ran[i])
              /\ kind # "single" => HomeIn(ran[i]) /\ AnsweredIn(ran[i])

PInv == Places /\ Kept /\ Homes /\ Asks /\ Running

-----------------------------------------------------------------------------
(* Steps that leave the plans alone *)

\* Nothing is planned, asked or run at first.
LEMMA PInvInit == Init => PInv
  <1> SUFFICES ASSUME Init PROVE PInv
      OBVIOUS
  <1> USE DEF Init
  <1>1. Places
    BY DEF Places, TypeOK, ExecutionState, NoQuestion, NoReply, Early
  <1>2. Kept /\ Homes /\ Asks /\ Running
    BY DEF Kept, Homes, Asks, Running, Launched
  <1> QED BY <1>1, <1>2 DEF PInv

Passes ==
    UNCHANGED <<repo, analysed, kind, services, pending, asked, questions, reply>>

\* Plans that stay are still what they were.
LEMMA PlansStay ==
    ASSUME Kept, Homes, UNCHANGED <<repo, analysed, kind, services, reply>>, questions \subseteq questions'
    PROVE  Kept' /\ Homes'
  <1>1. ASSUME NEW s PROVE AskedOf(s) \subseteq {q.key : q \in {q \in questions' : q.service = s.name}}
    BY DEF AskedOf
  <1>2. SingleKept => SingleKept'
    BY <1>1 DEF SingleKept, metadata, AskedOf
  <1>3. ProjectKept => ProjectKept'
    BY DEF ProjectKept
  <1>4. DockerKept => DockerKept'
    BY DEF DockerKept
  <1>5. Kept'
    BY <1>2, <1>3, <1>4 DEF Kept
  <1>6. Homes'
    <2> SUFFICES ASSUME kind' \in {"project", "docker"}, NEW i \in DOMAIN services'
                 PROVE  HomeIn(services[i])' /\ AnsweredIn(services[i])'
        BY DEF Homes
    <2>1. HomeIn(services[i]) /\ AnsweredIn(services[i])
        BY DEF Homes
    <2>2. HomeIn(services[i])'
        BY <1>1, <2>1 DEF HomeIn, metadata, AskedOf
    <2>3. AnsweredIn(services[i])'
        BY <2>1 DEF AnsweredIn
    <2> QED BY <2>2, <2>3
  <1> QED BY <1>5, <1>6

\* Neither asking, running nor cloning begins, and the plans stay.
LEMMA StatePasses ==
    ASSUME PInv, Passes, state' \in ExecutionState \ {"AWAITING_INPUT", "WAITING_FOR_READY"},
           state' \in Early => state \in Early,
           state' \in {"ANALYZING", "PLANNING"} => analysed \in DOMAIN repo.dirs
    PROVE  PInv'
  <1>1. Places'
    BY DEF PInv, Places, TypeOK, Passes, Early
  <1>2. Kept' /\ Homes'
    BY PlansStay DEF PInv, Passes
  <1>3. Asks' /\ Running'
    BY DEF Asks, Running, Launched
  <1> QED BY <1>1, <1>2, <1>3 DEF PInv

\* What passes by: everything before a plan but the clone, what declines one, the
\* validator, an ending.
LEMMA PassingSteps ==
    ASSUME PInv,
           EnsureDocker \/ Analyse \/ DeclinePlan \/ Validate \/ Finish \/ ResumeWithoutPlan \/ CancelUnanswered
    PROVE  PInv'
  <1>1. CASE EnsureDocker
    <2>1. Passes /\ state' \in {"CLONING", "FAILED"} /\ state \in Early
        BY <1>1 DEF EnsureDocker, Passes, fail, Early
    <2> QED BY <2>1, StatePasses DEF ExecutionState
  <1>2. CASE Analyse
    <2>1. Passes /\ state' \in {"PLANNING", "FAILED"} /\ state \in Early /\ analysed \in DOMAIN repo.dirs
        BY <1>2 DEF Analyse, Passes, fail, Early, PInv, Places
    <2> QED BY <2>1, StatePasses DEF ExecutionState
  <1>3. CASE DeclinePlan
    <2>1. Passes /\ state' = "FAILED"
        BY <1>3 DEF DeclinePlan, Passes, fail
    <2> QED BY <2>1, StatePasses DEF ExecutionState, Early
  <1>4. CASE Validate
    <2>1. Passes /\ state' \in {"STARTING", "FAILED"}
        BY <1>4 DEF Validate, Passes, fail, refuseImpossiblePlan
    <2> QED BY <2>1, StatePasses DEF ExecutionState, Early
  <1>5. CASE Finish
    <2>1. Passes /\ state' \in {"READY", "FAILED"}
        BY <1>5 DEF Finish, Passes, fail
    <2> QED BY <2>1, StatePasses DEF ExecutionState, Early
  <1>6. CASE ResumeWithoutPlan
    <2>1. Passes /\ state' = "FAILED"
        BY <1>6 DEF ResumeWithoutPlan, Passes, fail
    <2> QED BY <2>1, StatePasses DEF ExecutionState, Early
  <1>7. CASE CancelUnanswered
    <2>1. Passes /\ state' = "CANCELLED"
        BY <1>7 DEF CancelUnanswered, Passes
    <2> QED BY <2>1, StatePasses DEF ExecutionState, Early
  <1> QED BY <1>1, <1>2, <1>3, <1>4, <1>5, <1>6, <1>7

\* A clone, and a package a person chose: what is analysed changes, before there is a plan.
LEMMA AnalysedSteps ==
    ASSUME PInv, Clone \/ \E dir \in pending.choices : ChoosePackage(dir)
    PROVE  PInv'
  <1>1. /\ UNCHANGED <<repo, kind, services, pending, asked, questions, reply>>
        /\ kind = "none"
        /\ \/ state' = "ANALYZING" /\ analysed' \in DOMAIN repo.dirs
           \/ state' = "FAILED" /\ analysed' = analysed
    <2>1. CASE Clone
      <3>1. Root \in DOMAIN repo.dirs
          BY ReposAreRead DEF PInv, Places, TypeOK
      <3> QED BY <2>1, <3>1 DEF Clone, fail, PInv, Places, Early
    <2>2. CASE \E dir \in pending.choices : ChoosePackage(dir)
      BY <2>2 DEF ChoosePackage, PInv, Places, TypeOK, Asks
    <2> QED BY <2>1, <2>2
  <1>2. Places'
    BY <1>1 DEF PInv, Places, TypeOK, ExecutionState, Early
  <1>3. Kept' /\ Homes' /\ Asks' /\ Running'
    BY <1>1 DEF Kept, Homes, Asks, Running, Launched
  <1> QED BY <1>2, <1>3 DEF PInv

-----------------------------------------------------------------------------
(* Steps that plan *)

\* A gate asks what is missing, and what it does not ask was generated.
LEMMA Gated ==
    ASSUME NEW missing, Gate(missing)
    PROVE  LET left == {q \in missing : q.key \notin SelfSigning}
           IN  /\ left \subseteq questions' /\ questions \subseteq questions'
               /\ \/ state' = "VALIDATING" /\ pending' = pending
                  \/ /\ state' = "AWAITING_INPUT" /\ pending' = [env |-> left, choices |-> {}, crash |-> FALSE]
    BY DEF Gate, awaitInput

\* What a gate does to where the run is.
LEMMA GatedPlaces ==
    ASSUME PInv, state = "PLANNING", NEW missing, Gate(missing),
           UNCHANGED <<repo, analysed, asked, reply>>,
           kind' \in {"single", "project"}, 1 \in DOMAIN services'
    PROVE  Places'
  <1>1. /\ questions \subseteq questions'
        /\ state' \in {"VALIDATING", "AWAITING_INPUT"}
        /\ pending'.choices \subseteq DOMAIN repo.dirs
    BY Gated DEF PInv, Places, TypeOK
  <1>2. services' # <<>>
    OBVIOUS
  <1> QED BY <1>1, <1>2 DEF PInv, Places, TypeOK, ExecutionState, Early

\* A project has a first service.
LEMMA ProjectsHaveServices ==
    ASSUME NEW r \in Repos, Drafted(r) # <<>>
    PROVE  1 \in DOMAIN Drafted(r)
  <1>1. Drafted(r) = projectWithGenerated(WithExamples(r), Meta(r).services, r.project.missing)
    BY DraftIs
  <1>2. Drafted(r) = [i \in DOMAIN Drafted(r) |-> Drafted(r)[i]]
    BY <1>1 DEF projectWithGenerated
  <1>3. PICK n \in Nat : DOMAIN Drafted(r) = 1..n
    BY FieldsStay
  <1>4. CASE n = 0
    <2>1. DOMAIN Drafted(r) = {}
        BY <1>3, <1>4
    <2> QED BY <1>2, <2>1
  <1>5. CASE n > 0
    BY <1>3, <1>5
  <1> QED BY <1>3, <1>4, <1>5

\* A project is planned, and asked for what its services lack.
LEMMA ProjectStep ==
    ASSUME PInv, PlanTheProject
    PROVE  PInv'
  <1> USE DEF PInv
  <1>1. /\ repo \in Repos /\ state = "PLANNING" /\ analysed = Root /\ reply = NoReply
        /\ services' = Drafted(repo) /\ services' # <<>> /\ kind' = "project"
        /\ Gate(repo.project.missing)
        /\ UNCHANGED <<repo, analysed, asked, reply>>
    BY DEF PlanTheProject, IsProject, SubdirChosen, Places, TypeOK, Drafted, Early
  <1>2. 1 \in DOMAIN services'
    BY <1>1, ProjectsHaveServices
  <1>3. Places'
    BY <1>1, <1>2, GatedPlaces
  <1>4. /\ AskedBefore(repo) \subseteq questions'
        /\ \/ state' = "VALIDATING"
           \/ /\ state' = "AWAITING_INPUT"
              /\ pending' = [env |-> AskedBefore(repo), choices |-> {}, crash |-> FALSE]
    BY <1>1, Gated DEF AskedBefore
  <1>5. ProjectKept'
    <2>1. \A i \in DOMAIN services' : SameService(Drafted(repo)[i], services'[i])
        BY <1>1 DEF SameService
    <2> QED BY <1>1, <1>4, <2>1 DEF ProjectKept
  <1>6. Kept'
    BY <1>1, <1>5 DEF Kept
  <1>7. Homes'
    <2>1. \A s \in Range(Drafted(repo)) : \A k \in DOMAIN s.env : s.env[k].value \notin Replies
        BY <1>1, RepliesAreTold DEF Drafted
    <2>2. \A i \in DOMAIN services' : services'[i] \in Range(Drafted(repo))
        BY <1>1 DEF Range
    <2>3. \A i \in DOMAIN services' : HomeIn(services[i])'
        BY <1>1, <2>1, <2>2 DEF HomeIn
    <2>4. \A i \in DOMAIN services' : AnsweredIn(services[i])'
        BY <1>1 DEF AnsweredIn, NoReply
    <2> QED BY <2>3, <2>4 DEF Homes
  <1>8. Asks' /\ Running'
    BY <1>1, <1>4 DEF Asks, Running, Launched
  <1> QED BY <1>3, <1>6, <1>7, <1>8

\* A person is asked which package to run.
LEMMA PackageStep ==
    ASSUME PInv, AskForPackage
    PROVE  PInv'
  <1> USE DEF PInv
  <1>1. /\ state = "PLANNING" /\ kind = "none" /\ services = <<>> /\ reply = NoReply
        /\ UNCHANGED <<repo, analysed, kind, services, asked, questions, reply>>
        /\ state' = "AWAITING_INPUT"
        /\ pending' = [env |-> {}, choices |-> outcome.choices, crash |-> FALSE]
    BY DEF AskForPackage, PlanningOne, awaitInput, Places, TypeOK, Early
  <1>2. outcome.choices \subseteq DOMAIN repo.dirs
    <2>1. repo \in Repos /\ analysed \in DOMAIN repo.dirs
        BY <1>1 DEF Places, TypeOK
    <2>2. repo.planned[analysed].choices = {}
        BY <2>1, PlannedAtIs DEF MadeAt
    <2>3. repo.outcome.choices \subseteq DOMAIN repo.dirs
        BY <2>1, OutcomeIs
    <2> QED BY <2>2, <2>3 DEF outcome
  <1>3. Places'
    BY <1>1, <1>2 DEF Places, TypeOK, ExecutionState, Early
  <1>4. Kept' /\ Homes' /\ Asks' /\ Running'
    BY <1>1 DEF Kept, Homes, Asks, Running, Launched
  <1> QED BY <1>3, <1>4

\* The repository's own setup is planned.
LEMMA DockerStep ==
    ASSUME PInv, PlanDockerSetup
    PROVE  PInv'
  <1> USE DEF PInv
  <1>1. /\ reply = NoReply
        /\ UNCHANGED <<repo, analysed, pending, asked, questions, reply>>
        /\ state' = "VALIDATING" /\ kind' = "docker" /\ services' = <<dockerProjectPlan>>
    BY DEF PlanDockerSetup, Undecided, PlanningOne, Places, Early
  <1>2. /\ DOMAIN dockerProjectPlan = DOMAIN Plan
        /\ dockerProjectPlan.docker /\ DOMAIN dockerProjectPlan.env = {}
    <2>1. Plan.env = NoEnv
        BY DEF Plan
    <2> QED BY <2>1, PlanFields DEF dockerProjectPlan, NoEnv
  <1> HIDE DEF dockerProjectPlan
  <1>3. DOMAIN services' = {1} /\ services'[1] = dockerProjectPlan
    BY <1>1
  <1>4. Places'
    <2>1. services' # <<>>
        BY <1>3
    <2> QED BY <1>1, <1>3, <2>1 DEF Places, TypeOK, ExecutionState, Early
  <1>5. Kept'
    BY <1>1, <1>2, <1>3 DEF Kept, DockerKept
  <1>6. Homes'
    <2>1. HomeIn(services[1])'
        BY <1>2, <1>3 DEF HomeIn
    <2>2. AnsweredIn(services[1])'
        BY <1>1 DEF AnsweredIn, NoReply
    <2> QED BY <1>3, <2>1, <2>2 DEF Homes
  <1>7. Asks' /\ Running'
    BY <1>1 DEF Asks, Running, Launched
  <1> QED BY <1>4, <1>5, <1>6, <1>7

\* A single plan that is accepted.
LEMMA AcceptStep ==
    ASSUME PInv, state = "PLANNING", NEW p, IsPlan(p), AcceptPlan(p)
    PROVE  PInv'
  <1> USE DEF PInv
  <1> DEFINE meta == metadata
             sub == IF p.dir = Root THEN meta ELSE repo.analysis[p.dir]
             supplied == provisionedKeys(meta.backing) \cup provisionedKeys(sub.backing)
             filled == withExampleDefaults(p, sub.facts.envExample, supplied, ReadDir(repo.dirs, p.dir).crashReads)
             declared == SingleAsks
             missing == declared \cup selfSigningMissing(repo.dirs, {filled}, declared)
             s == [filled EXCEPT !.env = Merged(filled.env, generated(missing))]
  <1>1. /\ kind' = "single" /\ services' = <<s>> /\ Gate(missing)
        /\ UNCHANGED <<repo, analysed, asked, reply>>
    <2>1. SameService(p, filled)
        BY Defaulted DEF IsPlan
    <2>2. "env" \in DOMAIN filled
        BY <2>1, PlanFields DEF IsPlan, SameService
    <2> QED BY <2>2 DEF AcceptPlan, SingleAsks
  <1>2. SameService(p, filled)
    BY Defaulted DEF IsPlan
  <1> HIDE DEF filled
  <1>3. SameService(filled, s) /\ s.env = Merged(filled.env, generated(missing))
    BY <1>2, EnvReplaced DEF SameService, IsPlan
  <1>4. {q.key : q \in missing} \cap SelfSigning \subseteq Given(s)
    <2> DEFINE values == generated(missing)
    <2>1. HaveValues(values) /\ DOMAIN values = {q.key : q \in missing} \cap SelfSigning
        BY GeneratedHolds
    <2> HIDE DEF values, missing, s
    <2> QED BY <1>3, <2>1, MergedKeeps DEF values
  <1>5. DOMAIN services' = {1} /\ services'[1] = s
    BY <1>1
  <1>6. DOMAIN s = DOMAIN Plan /\ s.name = Alone /\ s.role = "web"
    BY <1>2, <1>3 DEF SameService, IsPlan
  <1>7. {q \in missing : q.key \notin SelfSigning} \subseteq SingleAsks
    BY DEF selfSigningMissing
  <1>8. \A k \in {v.key : v \in Undefaulted(metadata.facts)} :
            \/ k \in ALWAYS_SUPPLIED \cup provisionedKeys(metadata.backing)
            \/ [service |-> Alone, key |-> k] \in missing
    BY DEF SingleAsks, requiredConfigurationForSingle
  <1> HIDE DEF missing, s
  <1>9. /\ {q \in missing : q.key \notin SelfSigning} \subseteq questions'
        /\ \/ state' = "VALIDATING"
           \/ /\ state' = "AWAITING_INPUT"
              /\ pending' = [env |-> {q \in missing : q.key \notin SelfSigning}, choices |-> {}, crash |-> FALSE]
    BY <1>1, Gated
  <1>10. Places'
    BY <1>1, <1>5, GatedPlaces
  <1>11. SingleKept'
    <2> SUFFICES ASSUME NEW k \in {v.key : v \in Undefaulted(metadata.facts)},
                        k \notin ALWAYS_SUPPLIED \cup provisionedKeys(metadata.backing)
                 PROVE  k \in Given(s) \/ k \in {q.key : q \in {q \in questions' : q.service = Alone}}
        BY <1>1, <1>5, <1>6 DEF SingleKept, AskedOf, metadata
    <2>1. [service |-> Alone, key |-> k] \in missing
        BY <1>8
    <2>2. CASE k \in SelfSigning
        BY <1>4, <2>1, <2>2
    <2>3. CASE k \notin SelfSigning
        <3>1. [service |-> Alone, key |-> k] \in {q \in questions' : q.service = Alone}
            BY <1>9, <2>1, <2>3
        <3> QED BY <3>1
    <2> QED BY <2>2, <2>3
  <1>12. Kept' /\ Homes'
    BY <1>1, <1>11 DEF Kept, Homes
  <1>13. Asks' /\ Running'
    BY <1>1, <1>7, <1>9 DEF Asks, Running, Launched, SingleAsks, metadata
  <1> QED BY <1>10, <1>12, <1>13

\* The plan the rules make is of the package that was chosen, or of one of a repository's
\* directories.
LEMMA OutcomePlanIs ==
    ASSUME repo \in Repos, analysed \in DOMAIN repo.dirs, outcome.planned
    PROVE  \E d \in DOMAIN repo.dirs :
              /\ MadeByRule(outcome.plan, d, ScriptsIn(repo.dirs, d))
              /\ analysed = Root \/ d = analysed
  <1>1. CASE analysed = Root
    <2>1. outcome = repo.outcome
        BY <1>1 DEF outcome, SubdirChosen
    <2> QED BY <1>1, <2>1, OutcomeIs
  <1>2. CASE analysed # Root
    <2>1. outcome = repo.planned[analysed]
        BY <1>2 DEF outcome, SubdirChosen
    <2> QED BY <2>1, PlannedAtIs DEF MadeAt
  <1> QED BY <1>1, <1>2

\* The rules' plan, and the model's once it is validated.
LEMMA PlanningSteps ==
    ASSUME PInv, PlanByRules \/ PlanByModel
    PROVE  PInv'
  <1>1. repo \in Repos
    BY DEF PInv, Places, TypeOK
  <1>2. CASE PlanByRules
    <2>1. state = "PLANNING" /\ AcceptPlan(outcome.plan) /\ analysed \in DOMAIN repo.dirs /\ outcome.planned
        BY <1>2 DEF PlanByRules, PlanningOne, PInv, Places
    <2>2. IsPlan(outcome.plan)
        BY <1>1, <2>1, OutcomePlanIs DEF IsPlan, MadeByRule
    <2> QED BY <2>1, <2>2, AcceptStep
  <1>3. CASE PlanByModel
    <2>1. state = "PLANNING"
        BY <1>3 DEF PlanByModel, Undecided, PlanningOne
    <2>2. CASE \E p \in ModelPlans : AcceptPlan(p)
        BY <2>1, <2>2, AcceptStep, ModelPlansArePlans
    <2>3. CASE Passes /\ state' = "FAILED"
        BY <2>3, StatePasses DEF ExecutionState, Early
    <2> QED BY <1>3, <2>2, <2>3 DEF PlanByModel, Passes, fail
  <1> QED BY <1>2, <1>3

-----------------------------------------------------------------------------
(* Steps that launch *)

\* What a database gives is nobody's answer.
LEMMA InjectedHolds ==
    ASSUME NEW keys
    PROVE  DOMAIN Injected(keys) = keys /\ \A k \in keys : Injected(keys)[k].value = "injected"
    BY DEF Injected, Value

\* A lone plan runs with what is injected.
LEMMA LaunchedAlone ==
    ASSUME PInv, LaunchOne
    PROVE  PInv'
  <1> USE DEF PInv
  <1>1. PICK keys \in {{}, provisionedKeys(metadata.backing)} :
            services' = <<[services[1] EXCEPT !.env = Layered(Injected(keys), @)]>>
    BY DEF LaunchOne
  <1>2. /\ state' = "WAITING_FOR_READY" /\ kind = "single" /\ ran' = services' /\ SingleKept
        /\ UNCHANGED <<repo, analysed, kind, pending, asked, questions, reply>>
    BY DEF LaunchOne, Kept
  <1> DEFINE s == services[1]
             t == services'[1]
  <1>3. DOMAIN services' = {1} /\ t = [s EXCEPT !.env = Layered(Injected(keys), s.env)]
    BY <1>1, <1>2, PlanFields DEF SingleKept
  <1>4. SameService(s, t) /\ t.env = Layered(Injected(keys), s.env)
    <2>1. DOMAIN s = DOMAIN Plan
        BY <1>2 DEF SingleKept
    <2> HIDE DEF s, t
    <2> QED BY <1>3, <2>1, EnvReplaced
  <1> HIDE DEF s, t
  <1>5. Given(s) \subseteq Given(t)
    <2>1. DOMAIN t.env = keys \cup DOMAIN s.env
        BY <1>4, InjectedHolds DEF Layered
    <2>2. \A k \in keys : t.env[k].value = "injected"
        BY <1>4, InjectedHolds DEF Layered
    <2>3. \A k \in DOMAIN s.env \ keys : t.env[k] = s.env[k]
        BY <1>4, InjectedHolds DEF Layered
    <2> QED BY <2>1, <2>2, <2>3 DEF Given
  <1>6. Places'
    <2>1. services' # <<>>
        BY <1>1
    <2> QED BY <1>2, <1>3, <2>1 DEF Places, TypeOK, ExecutionState, Early
  <1>7. SingleKept'
    BY <1>2, <1>3, <1>4, <1>5 DEF SingleKept, SameService, AskedOf, metadata, s, t
  <1>8. Kept' /\ Homes' /\ Asks'
    BY <1>2, <1>7 DEF Kept, Homes, Asks
  <1>9. Running'
    BY <1>2, <1>3, <1>7 DEF Running, SingleKept, SameService
  <1> QED BY <1>6, <1>8, <1>9

\* What a service of a project carries wins, and what is injected is nobody's.
Carries(t, s) ==
    /\ SameService(s, t) /\ Given(s) \subseteq Given(t)
    /\ \A k \in Given(s) : k \in DOMAIN t.env /\ t.env[k] = s.env[k]
    /\ \A k \in DOMAIN t.env : t.env[k].value \in Replies => k \in DOMAIN s.env /\ t.env[k] = s.env[k]

LaunchedAs(s, keys) ==
    [s EXCEPT !.env = Layered(Restrict(s.env, Given(s)), Layered(Injected(keys), s.env))]

\* A service runs with all it was planned with.
LEMMA LaunchedService ==
    ASSUME NEW s, NEW keys, DOMAIN s = DOMAIN Plan
    PROVE  Carries(LaunchedAs(s, keys), s)
  <1> DEFINE e == Layered(Restrict(s.env, Given(s)), Layered(Injected(keys), s.env))
             t == LaunchedAs(s, keys)
  <1>1. SameService(s, t) /\ t.env = e
    BY EnvReplaced DEF LaunchedAs
  <1>2. Given(s) \subseteq DOMAIN s.env
    BY DEF Given
  <1>3. DOMAIN e = keys \cup DOMAIN s.env
    BY <1>2, InjectedHolds DEF Layered, Restrict
  <1>4. \A k \in Given(s) : e[k] = s.env[k]
    BY <1>2, InjectedHolds DEF Layered, Restrict
  <1>5. \A k \in keys \ Given(s) : e[k].value = "injected"
    BY <1>2, InjectedHolds DEF Layered, Restrict
  <1>6. \A k \in DOMAIN s.env \ (keys \cup Given(s)) : e[k] = s.env[k]
    BY <1>2, InjectedHolds DEF Layered, Restrict
  <1> HIDE DEF e, t
  <1>7. Given(s) \subseteq Given(t)
    BY <1>1, <1>2, <1>3, <1>4 DEF Given
  <1>8. \A k \in Given(s) : k \in DOMAIN t.env /\ t.env[k] = s.env[k]
    BY <1>1, <1>2, <1>3, <1>4
  <1>9. \A k \in DOMAIN t.env : t.env[k].value \in Replies => k \in DOMAIN s.env /\ t.env[k] = s.env[k]
    BY <1>1, <1>2, <1>3, <1>4, <1>5, <1>6, RepliesAreTold
  <1> QED BY <1>1, <1>7, <1>8, <1>9 DEF t, Carries

\* The services of a project run, each with what is wired to it.
LEMMA LaunchedTogether ==
    ASSUME PInv, LaunchProject
    PROVE  PInv'
  <1> USE DEF PInv
  <1>1. CASE Passes /\ state' = "FAILED"
    BY <1>1, StatePasses DEF ExecutionState, Early
  <1>2. CASE ~(Passes /\ state' = "FAILED")
    <2> DEFINE added(s) == IF kind = "docker" THEN {}
                           ELSE provisionedKeys(metadata.backing)
                                    \cup wireService(services, s, CandidateOf(metadata.services, s).envKeys)
               env(s) == Layered(Restrict(s.env, Given(s)), Layered(Injected(added(s)), s.env))
    <2>1. /\ state = "STARTING" /\ state' = "WAITING_FOR_READY" /\ kind # "single"
          /\ UNCHANGED <<repo, analysed, kind, services, pending, asked, questions, reply>>
          /\ ran' = [i \in DOMAIN services |->
                        [services[i] EXCEPT !.env = Layered(Restrict(@, Given(services[i])),
                                                            Layered(Injected(added(services[i])), @))]]
        BY <1>2 DEF LaunchProject, fail, Passes
    <2>2. Places'
        BY <2>1 DEF Places, TypeOK, ExecutionState, Early
    <2>3. Kept' /\ Homes'
        BY <2>1, PlansStay
    <2>4. Asks'
        BY <2>1 DEF Asks
    <2>5. ASSUME NEW i \in DOMAIN services
          PROVE  /\ SameService(services[i], ran'[i]) /\ Given(services[i]) \subseteq Given(ran'[i])
                 /\ HomeIn(ran[i])' /\ AnsweredIn(ran[i])'
      <3> DEFINE s == services[i]
                 t == ran'[i]
                 keys == added(s)
      <3>1. kind \in {"project", "docker"}
          BY <2>1, <2>5 DEF Places, TypeOK
      <3>2. DOMAIN s = DOMAIN Plan
        <4>1. CASE ProjectKept
            BY <4>1, FieldsStay DEF ProjectKept, SameService, Places, TypeOK
        <4>2. CASE DockerKept
            BY <4>2 DEF DockerKept
        <4> QED BY <3>1, <4>1, <4>2 DEF Kept
      <3>3. t = [s EXCEPT !.env = Layered(Restrict(s.env, Given(s)), Layered(Injected(keys), s.env))]
          BY <2>1, <3>2, PlanFields
      <3>4. HomeIn(s) /\ AnsweredIn(s)
          BY <3>1 DEF Homes
      <3> HIDE DEF s, t, keys
      <3>5. Carries(t, s)
          BY <3>2, <3>3, LaunchedService DEF LaunchedAs
      <3>6. CandidateOf(metadata.services, t) = CandidateOf(metadata.services, s) /\ AskedOf(t) = AskedOf(s)
          BY <3>5 DEF Carries, SameService, CandidateOf, AskedOf
      <3>7. HomeIn(t)
          BY <3>4, <3>5, <3>6 DEF Carries, HomeIn
      <3>8. AnsweredIn(t)
        <4>1. \A q \in reply.asked : q.key \in DOMAIN reply.values => reply.values[q.key] # ""
            BY RepliesAreTold DEF Places
        <4> QED BY <3>4, <3>5, <4>1 DEF Carries, AnsweredIn, SameService, Given
      <3>9. HomeIn(ran[i])'
          BY <2>1, <3>7 DEF HomeIn, metadata, AskedOf, t
      <3>10. AnsweredIn(ran[i])'
          BY <2>1, <3>8 DEF AnsweredIn, t
      <3> QED BY <3>5, <3>9, <3>10 DEF Carries, s, t
    <2>6. Running'
        BY <2>1, <2>5 DEF Running
    <2> QED BY <2>2, <2>3, <2>4, <2>6
  <1> QED BY <1>1, <1>2

\* A start that crashed asks for what was never set.
LEMMA CrashStep ==
    ASSUME PInv, CrashOnSettings
    PROVE  PInv'
  <1> USE DEF PInv
  <1>1. PICK i \in DOMAIN ran : \E keys \in SUBSET Unasked(ran[i]) \ {{}} :
            /\ awaitInput({[service |-> ran[i].name, key |-> k] : k \in keys}, {}, TRUE)
            /\ asked' = asked \cup keys
    BY DEF CrashOnSettings
  <1>2. PICK keys : /\ awaitInput({[service |-> ran[i].name, key |-> k] : k \in keys}, {}, TRUE)
                    /\ asked' = asked \cup keys
    BY <1>1
  <1> DEFINE env == {[service |-> ran[i].name, key |-> k] : k \in keys}
  <1>3. /\ state = "WAITING_FOR_READY" /\ state' = "AWAITING_INPUT"
        /\ pending' = [env |-> env, choices |-> {}, crash |-> TRUE]
        /\ questions' = questions \cup env
        /\ UNCHANGED <<repo, analysed, kind, services, reply>>
    BY <1>2 DEF CrashOnSettings, awaitInput
  <1>4. keys \subseteq {q.key : q \in env}
    <2> SUFFICES ASSUME NEW k \in keys PROVE k \in {q.key : q \in env}
        OBVIOUS
    <2>1. [service |-> ran[i].name, key |-> k] \in env
        OBVIOUS
    <2> QED BY <2>1
  <1> HIDE DEF env
  <1>5. Places'
    BY <1>2, <1>3, <1>4 DEF Places, TypeOK, ExecutionState, Early
  <1>6. Kept' /\ Homes'
    BY <1>3, PlansStay
  <1>7. Asks' /\ Running'
    BY <1>3 DEF Asks, Running, Launched
  <1> QED BY <1>5, <1>6, <1>7

-----------------------------------------------------------------------------
(* Answers *)

NonBlank(values) == [k \in {k \in DOMAIN values : values[k] # Blank} |-> values[k]]

\* Answers for a project: first to the services that declare them, then, after a crash, to
\* those that were asked.
Answered(project, candidates, questioned, crash, values) ==
    LET applied == applyConfiguration(project, candidates, values)
    IN  IF crash THEN withCrashAnswers(applied, questioned, NonBlank(values)) ELSE applied

\* What an answer changes of one service: its environment, where it was asked or declares.
LEMMA AnsweredService ==
    ASSUME NEW project, NEW candidates, NEW questioned, NEW crash, NEW values,
           NEW i \in DOMAIN project, DOMAIN project[i] = DOMAIN Plan,
           HaveValues(values), HaveValues(NonBlank(values))
    PROVE  LET s == project[i]
               t == Answered(project, candidates, questioned, crash, values)[i]
               keys == Declares(CandidateOf(candidates, s))
               names == {q.key : q \in {q \in questioned : q.service = s.name}}
           IN  /\ SameService(s, t) /\ Given(s) \subseteq Given(t)
               /\ \A k \in DOMAIN t.env :
                     k \in keys \/ (crash /\ k \in names) \/ (k \in DOMAIN s.env /\ t.env[k] = s.env[k])
               /\ ~crash => \A k \in DOMAIN values \cap keys : k \in DOMAIN t.env /\ t.env[k].value = values[k]
               /\ crash => \A k \in DOMAIN values \cap names : values[k] # Blank
                               => k \in DOMAIN t.env /\ t.env[k].value = values[k]
  <1> DEFINE applied == applyConfiguration(project, candidates, values)
             s == project[i]
             a == applied[i]
             t == Answered(project, candidates, questioned, crash, values)[i]
             keys == Declares(CandidateOf(candidates, s))
             names == {q.key : q \in {q \in questioned : q.service = s.name}}
  <1>1. /\ SameService(s, a) /\ Given(s) \subseteq Given(a)
        /\ \A k \in DOMAIN a.env : k \in keys \/ (k \in DOMAIN s.env /\ a.env[k] = s.env[k])
        /\ \A k \in DOMAIN values \cap keys : k \in DOMAIN a.env /\ a.env[k].value = values[k]
    BY AppliedService
  <1>2. CASE ~crash
    <2>1. t = a
        BY <1>2 DEF Answered
    <2> HIDE DEF t, a, s, keys, names
    <2>2. /\ SameService(s, t) /\ Given(s) \subseteq Given(t)
          /\ \A k \in DOMAIN t.env : k \in keys \/ (k \in DOMAIN s.env /\ t.env[k] = s.env[k])
          /\ \A k \in DOMAIN values \cap keys : k \in DOMAIN t.env /\ t.env[k].value = values[k]
        BY <1>1, <2>1
    <2> QED BY <1>2, <2>2 DEF t, s, keys, names
  <1>3. CASE crash
    <2>1. i \in DOMAIN applied /\ DOMAIN applied[i] = DOMAIN Plan
        BY <1>1 DEF SameService, applyConfiguration
    <2>2. t = withCrashAnswers(applied, questioned, NonBlank(values))[i]
        BY <1>3 DEF Answered
    <2> HIDE DEF applied
    <2>3. LET u == withCrashAnswers(applied, questioned, NonBlank(values))[i]
              asks == {q.key : q \in {q \in questioned : q.service = applied[i].name}}
          IN  /\ SameService(applied[i], u) /\ Given(applied[i]) \subseteq Given(u)
              /\ \A k \in DOMAIN u.env : k \in asks \/ (k \in DOMAIN applied[i].env /\ u.env[k] = applied[i].env[k])
              /\ \A k \in DOMAIN NonBlank(values) \cap asks : k \in DOMAIN u.env /\ u.env[k].value = NonBlank(values)[k]
        BY <2>1, CrashedService
    <2>4. {q.key : q \in {q \in questioned : q.service = applied[i].name}} = names
        BY <1>1 DEF SameService
    <2> HIDE DEF t, s, keys, names
    <2>5. /\ SameService(a, t) /\ Given(a) \subseteq Given(t)
          /\ \A k \in DOMAIN t.env : k \in names \/ (k \in DOMAIN a.env /\ t.env[k] = a.env[k])
          /\ \A k \in DOMAIN NonBlank(values) \cap names : k \in DOMAIN t.env /\ t.env[k].value = NonBlank(values)[k]
        BY <2>2, <2>3, <2>4
    <2> HIDE DEF a
    <2>6. SameService(s, t) /\ Given(s) \subseteq Given(t)
        BY <1>1, <2>5 DEF SameService
    <2>7. \A k \in DOMAIN t.env : k \in keys \/ k \in names \/ (k \in DOMAIN s.env /\ t.env[k] = s.env[k])
        BY <1>1, <2>5
    <2>8. \A k \in DOMAIN values \cap names : values[k] # Blank => k \in DOMAIN t.env /\ t.env[k].value = values[k]
        <3> SUFFICES ASSUME NEW k \in DOMAIN values \cap names, values[k] # Blank
                     PROVE  k \in DOMAIN t.env /\ t.env[k].value = values[k]
            OBVIOUS
        <3>1. k \in DOMAIN NonBlank(values) /\ NonBlank(values)[k] = values[k]
            BY DEF NonBlank
        <3> QED BY <2>5, <3>1
    <2> QED BY <1>3, <2>6, <2>7, <2>8 DEF t, s, keys, names
  <1> QED BY <1>2, <1>3

\* An answer comes, and what was planned goes on with it.
LEMMA ResumeStep ==
    ASSUME PInv, NEW keys, NEW v \in Replies, ResumeWith([k \in keys |-> v])
    PROVE  PInv'
  <1> USE DEF PInv
  <1> DEFINE values == [k \in keys |-> v]
  <1>1. HaveValues(values) /\ HaveValues(NonBlank(values)) /\ \A k \in DOMAIN values : values[k] \in Replies
    BY RepliesAreTold DEF HaveValues, NonBlank
  <1> HIDE DEF values
  <1>2. /\ state = "AWAITING_INPUT" /\ kind # "none" /\ state' = "VALIDATING"
        /\ pending' = NoQuestion /\ reply' = [asked |-> pending.env, values |-> values]
        /\ UNCHANGED <<repo, analysed, asked, questions>>
    BY DEF ResumeWith, values
  <1>3. Asks' /\ Running'
    BY <1>2 DEF Asks, Running, Launched
  <1>4. CASE kind = "single"
    <2> DEFINE s == services[1]
               t == services'[1]
    <2>1. kind' = "single" /\ services' = <<[services[1] EXCEPT !.env = Merged(@, values)]>>
        BY <1>4 DEF ResumeWith, values
    <2>2. SingleKept
        BY <1>4 DEF Kept
    <2>3. DOMAIN services' = {1} /\ t = [s EXCEPT !.env = Merged(s.env, values)] /\ DOMAIN s = DOMAIN Plan
        BY <2>1, <2>2, PlanFields DEF SingleKept
    <2> HIDE DEF s, t
    <2>4. SameService(s, t) /\ t.env = Merged(s.env, values)
        BY <2>3, EnvReplaced
    <2>5. Given(s) \subseteq Given(t)
        BY <1>1, <2>4, MergedKeeps
    <2>6. SingleKept'
        BY <1>2, <2>2, <2>3, <2>4, <2>5 DEF SingleKept, SameService, AskedOf, metadata, s, t
    <2>7. Places'
      <3>1. services' # <<>>
          BY <2>1
      <3> QED BY <1>1, <1>2, <2>1, <2>3, <3>1 DEF Places, TypeOK, ExecutionState, Early, NoQuestion
    <2> QED BY <1>3, <2>1, <2>6, <2>7 DEF Kept, Homes
  <1>5. CASE kind # "single"
    <2>1. /\ kind' = "project" /\ kind \in {"project", "docker"}
          /\ services' = Answered(services, metadata.services, pending.env, pending.crash, values)
        BY <1>2, <1>5 DEF ResumeWith, Answered, NonBlank, values, Places, TypeOK
    <2>2. DOMAIN services' = DOMAIN services
        BY <2>1 DEF Answered, applyConfiguration, withCrashAnswers
    <2>3. ProjectKept \/ DockerKept
        BY <2>1 DEF Kept
    <2>4. ASSUME NEW i \in DOMAIN services
          PROVE  /\ SameService(services[i], services'[i]) /\ Given(services[i]) \subseteq Given(services'[i])
                 /\ HomeIn(services[i])' /\ AnsweredIn(services[i])'
      <3> DEFINE s == services[i]
                 t == services'[i]
                 homes == Declares(CandidateOf(metadata.services, s))
                 names == {q.key : q \in {q \in pending.env : q.service = s.name}}
      <3>1. DOMAIN s = DOMAIN Plan
        <4>1. CASE ProjectKept
            BY <4>1, FieldsStay DEF ProjectKept, SameService, Places, TypeOK
        <4>2. CASE DockerKept
            BY <4>2 DEF DockerKept
        <4> QED BY <2>3, <4>1, <4>2
      <3>2. LET u == Answered(services, metadata.services, pending.env, pending.crash, values)[i]
            IN  /\ SameService(s, u) /\ Given(s) \subseteq Given(u)
                /\ \A k \in DOMAIN u.env :
                      k \in homes \/ (pending.crash /\ k \in names) \/ (k \in DOMAIN s.env /\ u.env[k] = s.env[k])
                /\ ~pending.crash => \A k \in DOMAIN values \cap homes : k \in DOMAIN u.env /\ u.env[k].value = values[k]
                /\ pending.crash => \A k \in DOMAIN values \cap names : values[k] # Blank
                                        => k \in DOMAIN u.env /\ u.env[k].value = values[k]
          BY <1>1, <3>1, AnsweredService
      <3> HIDE DEF s, t, homes, names
      <3>3. SameService(s, t) /\ Given(s) \subseteq Given(t)
          BY <2>1, <3>2 DEF t
      <3>4. \A k \in DOMAIN t.env : k \in homes \/ k \in names \/ (k \in DOMAIN s.env /\ t.env[k] = s.env[k])
          BY <2>1, <3>2 DEF t
      <3>5. ~pending.crash => \A k \in DOMAIN values \cap homes : k \in DOMAIN t.env /\ t.env[k].value = values[k]
          BY <2>1, <3>2 DEF t
      <3>6. pending.crash => \A k \in DOMAIN values \cap names : values[k] # Blank
                                => k \in DOMAIN t.env /\ t.env[k].value = values[k]
          BY <2>1, <3>2 DEF t
      <3>7. HomeIn(s)
          BY <2>1 DEF Homes, s
      <3>8. CandidateOf(metadata.services, t) = CandidateOf(metadata.services, s) /\ AskedOf(t) = AskedOf(s)
          BY <3>3 DEF SameService, CandidateOf, AskedOf
      <3>9. names \subseteq AskedOf(s)
          BY <1>2 DEF Asks, AskedOf, names
      <3>10. HomeIn(t)
          BY <3>4, <3>7, <3>8, <3>9 DEF HomeIn, homes
      <3>11. HomeIn(services[i])'
          BY <1>2, <3>10 DEF HomeIn, metadata, AskedOf, t
      <3>12. ASSUME NEW q \in pending.env, q.service = t.name, q.key \in DOMAIN values, values[q.key] # Blank
             PROVE  q.key \in DOMAIN t.env /\ t.env[q.key].value = values[q.key]
        <4>1. q.key \in names
            BY <3>3, <3>12 DEF SameService, names
        <4>2. CASE pending.crash
            BY <3>6, <3>12, <4>1, <4>2
        <4>3. CASE ~pending.crash
          <5>1. services = Drafted(repo) /\ analysed = Root /\ q \in AskedBefore(repo) /\ repo \in Repos
              BY <1>2, <2>1, <3>12, <4>3 DEF Asks, Places, TypeOK
          <5>2. i \in DOMAIN Drafted(repo) /\ q.service = Drafted(repo)[i].name
              BY <3>3, <3>12, <5>1 DEF SameService, s
          <5>3. q.key \in WantedBy(CandidateIn(repo, Drafted(repo)[i]))
              BY <5>1, <5>2, DraftAsks
          <5>4. CandidateIn(repo, Drafted(repo)[i]) = CandidateOf(metadata.services, s)
              BY <5>1 DEF CandidateIn, Meta, metadata, s
          <5>5. q.key \in homes
              BY <5>3, <5>4 DEF WantedBy, Declares, NamesOf, homes
          <5> QED BY <3>5, <3>12, <4>3, <5>5
        <4> QED BY <4>2, <4>3
      <3>13. AnsweredIn(services[i])'
          BY <1>2, <3>12 DEF AnsweredIn, t
      <3> QED BY <3>3, <3>11, <3>13 DEF s, t
    <2>5. Homes'
        BY <2>2, <2>4 DEF Homes
    <2>6. ProjectKept => ProjectKept'
      <3> SUFFICES ASSUME ProjectKept PROVE ProjectKept'
          OBVIOUS
      <3>1. \A i \in DOMAIN services :
                SameService(Drafted(repo)[i], services'[i]) /\ Given(Drafted(repo)[i]) \subseteq Given(services'[i])
          BY <2>4 DEF ProjectKept, SameService
      <3> QED BY <1>2, <2>2, <3>1 DEF ProjectKept
    <2>7. DockerKept => DockerKept'
        BY <2>2, <2>4 DEF DockerKept, SameService
    <2>8. Kept'
        BY <2>1, <2>3, <2>6, <2>7 DEF Kept
    <2>9. Places'
      <3>1. 1 \in DOMAIN services
          BY <1>2 DEF Places
      <3>2. services' # <<>>
          BY <2>2, <3>1
      <3> QED BY <1>1, <1>2, <2>1, <2>2, <3>1, <3>2 DEF Places, TypeOK, ExecutionState, Early, NoQuestion
    <2> QED BY <1>3, <2>5, <2>8, <2>9
  <1> QED BY <1>4, <1>5

-----------------------------------------------------------------------------
(* What the validator meets *)

\* Of whatever waits to be started, nothing will be refused as a plan DevLaunch should not
\* have made, and the port it is watched on is the one it was told.
Feasible == \A i \in DOMAIN services : Runnable(services[i], declaredScripts(services[i]))

\* Another environment changes neither what a service runs nor what is declared beside it.
LEMMA SameRunnable ==
    ASSUME NEW s, NEW t, NEW declared, SameService(s, t), Runnable(s, declared)
    PROVE  Runnable(t, declared)
  <1>1. FollowsItsPort(t)
    BY DEF SameService, Runnable, FollowsItsPort
  <1>2. impossibleCommand(t, declared) => impossibleCommand(s, declared)
    BY DEF SameService, impossibleCommand
  <1>3. DockerPlan(t) = DockerPlan(s) /\ t.source = s.source /\ t.start = s.start
    BY DEF SameService, DockerPlan
  <1> QED BY <1>1, <1>2, <1>3 DEF Runnable

\* Another environment leaves the scripts that are declared beside a service.
LEMMA SameDeclared ==
    ASSUME NEW s, NEW t, SameService(s, t)
    PROVE  declaredScripts(t) = declaredScripts(s)
    BY DEF SameService, declaredScripts, CandidateOf

\* What waits to be started is a list.
LEMMA ServicesAreNumbered ==
    ASSUME PInv
    PROVE  DOMAIN services \subseteq Nat
  <1>1. CASE kind = "none"
    <2>1. services = <<>>
        BY <1>1 DEF PInv, Places, TypeOK
    <2> QED BY <2>1
  <1>2. CASE kind = "project" /\ ProjectKept
    <2>1. \E n \in Nat : DOMAIN services = 1..n
        BY <1>2, FieldsStay DEF ProjectKept, PInv, Places, TypeOK
    <2> QED BY <2>1
  <1>3. CASE kind \in {"single", "docker"} \/ DockerKept
    BY <1>3 DEF PInv, Kept, SingleKept, DockerKept
  <1> QED BY <1>1, <1>2, <1>3 DEF PInv, Places, TypeOK, Kept

\* Services that only their environment was changed of are as feasible as they were.
LEMMA FeasibleStays ==
    ASSUME Feasible, UNCHANGED <<repo, analysed, readFor>>, kind' = kind \/ "single" \notin {kind, kind'},
           DOMAIN services' = DOMAIN services,
           \A i \in DOMAIN services : SameService(services[i], services'[i])
    PROVE  Feasible'
  <1> SUFFICES ASSUME NEW i \in DOMAIN services'
               PROVE  Runnable(services[i], declaredScripts(services[i]))'
      BY DEF Feasible
  <1> DEFINE s == services[i]
             t == services'[i]
             declared == declaredScripts(s)
             declaredNow == declaredScripts(services[i])'
  <1>1. Runnable(s, declared) /\ SameService(s, t)
    BY DEF Feasible
  <1>2. declaredNow = declaredScripts(t)
    BY DEF declaredScripts, metadata
  <1>3. declaredScripts(t) = declared
    BY <1>1, SameDeclared
  <1> HIDE DEF s, t, declared, declaredNow
  <1>4. Runnable(t, declaredNow)
    BY <1>1, <1>2, <1>3, SameRunnable
  <1> QED BY <1>4 DEF t, declaredNow, Runnable, FollowsItsPort

\* Steps that leave the plans leave them fit to run.
LEMMA FeasiblePasses ==
    ASSUME Feasible, UNCHANGED <<repo, analysed, readFor, kind, services>>
    PROVE  Feasible'
    BY DEF Feasible, declaredScripts, metadata, Runnable, FollowsItsPort

\* Nothing is planned yet.
LEMMA FeasibleBefore ==
    ASSUME PInv, UNCHANGED services, Clone \/ \E dir \in pending.choices : ChoosePackage(dir)
    PROVE  Feasible'
  <1>1. kind = "none"
    BY DEF Clone, ChoosePackage, PInv, Places, Asks, Early
  <1>2. services' = <<>>
    BY <1>1 DEF PInv, Places, TypeOK
  <1> QED BY <1>2 DEF Feasible

\* A project is planned of services that can run.
LEMMA FeasibleProject ==
    ASSUME PInv, PlanTheProject
    PROVE  Feasible'
  <1>1. /\ repo \in Repos /\ analysed = Root /\ services' = Drafted(repo) /\ kind' = "project"
        /\ UNCHANGED <<repo, analysed>>
    BY DEF PlanTheProject, IsProject, SubdirChosen, PInv, Places, TypeOK, Drafted
  <1>2. SUFFICES ASSUME NEW i \in DOMAIN Drafted(repo)
                 PROVE  Runnable(services[i], declaredScripts(services[i]))'
    BY <1>1 DEF Feasible
  <1> DEFINE p == PlansOf(repo)[i]
             s == Drafted(repo)[i]
             declared == CandidateIn(repo, s).scripts
  <1>3. SameService(p, s) /\ i \in DOMAIN PlansOf(repo)
    BY <1>1, DraftLayers, FieldsStay
  <1>4. CandidateIn(repo, p) = CandidateIn(repo, s)
    BY <1>3 DEF SameService, CandidateIn, CandidateOf
  <1>5. Runnable(p, declared)
    BY <1>1, <1>3, <1>4, PlansAre
  <1> HIDE DEF p, s, declared
  <1>6. Runnable(s, declared)
    BY <1>3, <1>5, SameRunnable
  <1>7. declaredScripts(services[i])' = declared
    BY <1>1 DEF declaredScripts, metadata, CandidateIn, Meta, declared, s
  <1> QED BY <1>1, <1>6, <1>7 DEF s, Runnable, FollowsItsPort

\* A repository's own setup runs no script.
LEMMA FeasibleDocker ==
    ASSUME PlanDockerSetup
    PROVE  Feasible'
  <1>1. services' = <<dockerProjectPlan>>
    BY DEF PlanDockerSetup
  <1> DEFINE p == dockerProjectPlan
  <1>2. p.source = "repo-docker" /\ p.start = NoCommand /\ p.install = NoCommand /\ p.build = <<>>
    BY DEF dockerProjectPlan, Plan
  <1>3. scriptRun(NoCommand) = NoScript
    BY DEF scriptRun, NoCommand, Cmd, Command
  <1> HIDE DEF p
  <1>4. ASSUME NEW declared PROVE Runnable(p, declared)
    BY <1>2, <1>3 DEF Runnable, impossibleCommand, FollowsItsPort
  <1>5. DOMAIN services' = {1} /\ services'[1] = p
    BY <1>1 DEF p
  <1> QED BY <1>4, <1>5 DEF Feasible, Runnable, FollowsItsPort

\* A single plan is the planner's, and the scripts declared are those of where it runs.
LEMMA FeasibleSingle ==
    ASSUME PInv, state = "PLANNING", NEW p, IsPlan(p), AcceptPlan(p),
           \/ p.source = "ai-fallback"
           \/ \E d \in DOMAIN repo.dirs : /\ MadeByRule(p, d, ScriptsIn(repo.dirs, d))
                                          /\ analysed = Root \/ d = analysed
    PROVE  Feasible'
  <1> DEFINE meta == metadata
             sub == IF p.dir = Root THEN meta ELSE repo.analysis[p.dir]
             supplied == provisionedKeys(meta.backing) \cup provisionedKeys(sub.backing)
             filled == withExampleDefaults(p, sub.facts.envExample, supplied, ReadDir(repo.dirs, p.dir).crashReads)
             declared == SingleAsks
             missing == declared \cup selfSigningMissing(repo.dirs, {filled}, declared)
             s == [filled EXCEPT !.env = Merged(filled.env, generated(missing))]
  <1>1. SameService(p, filled)
    BY Defaulted DEF IsPlan
  <1>2. /\ kind' = "single" /\ services' = <<s>> /\ UNCHANGED <<repo, analysed>>
        /\ readFor' = IF p.dir = Root THEN Nowhere ELSE p.dir
    <2>1. "env" \in DOMAIN filled
        BY <1>1, PlanFields DEF IsPlan, SameService
    <2> QED BY <2>1 DEF AcceptPlan, SingleAsks
  <1>3. SameService(p, s)
    <2>1. DOMAIN filled = DOMAIN Plan
        BY <1>1 DEF IsPlan, SameService
    <2> HIDE DEF filled, missing
    <2>2. SameService(filled, s)
        BY <2>1, EnvReplaced
    <2> HIDE DEF s
    <2> QED BY <1>1, <2>2 DEF SameService
  <1>4. DOMAIN services' = {1} /\ services'[1] = s
    BY <1>2
  <1> HIDE DEF s
  <1>5. ASSUME NEW scripts, Runnable(p, scripts) PROVE Runnable(s, scripts)
    BY <1>3, <1>5, SameRunnable
  <1>6. CASE p.source = "ai-fallback"
    <2>1. \A scripts : Runnable(p, scripts)
        BY <1>6 DEF Runnable, FollowsItsPort
    <2> QED BY <1>4, <1>5, <2>1 DEF Feasible, Runnable, FollowsItsPort
  <1>7. ASSUME NEW d \in DOMAIN repo.dirs, MadeByRule(p, d, ScriptsIn(repo.dirs, d)), analysed = Root \/ d = analysed
        PROVE  Feasible'
    <2> DEFINE declaredNow == declaredScripts(services[1])'
    <2>1. p.dir = d => declaredNow = ScriptsIn(repo.dirs, d)
      <3> SUFFICES ASSUME p.dir = d PROVE declaredNow = ScriptsIn(repo.dirs, d)
          OBVIOUS
      <3>1. repo \in Repos /\ d # Nowhere
          BY ReposAreRead DEF PInv, Places, TypeOK
      <3>2. (IF readFor' = Nowhere THEN analysed ELSE readFor') = d
          BY <1>2, <1>7, <3>1
      <3>3. declaredNow = DOMAIN repo.analysis[d].facts.package.scripts
          BY <1>2, <3>2 DEF declaredScripts
      <3> QED BY <3>1, <3>3, AnalysedScripts
    <2> HIDE DEF declaredNow
    <2>2. Runnable(s, declaredNow)
        BY <1>5, <1>7, <2>1, MadeIsRunnable
    <2> QED BY <1>4, <2>2 DEF declaredNow, Feasible, Runnable, FollowsItsPort
  <1> QED BY <1>6, <1>7

\* A plan of the rules can run; of a model's nothing is said.
LEMMA FeasiblePlanned ==
    ASSUME PInv, PlanByRules \/ PlanByModel, Feasible
    PROVE  Feasible'
  <1>1. CASE PlanByRules
    <2>1. /\ state = "PLANNING" /\ AcceptPlan(outcome.plan) /\ outcome.planned
          /\ repo \in Repos /\ analysed \in DOMAIN repo.dirs
        BY <1>1 DEF PlanByRules, PlanningOne, PInv, Places, TypeOK
    <2>2. \E d \in DOMAIN repo.dirs : /\ MadeByRule(outcome.plan, d, ScriptsIn(repo.dirs, d))
                                      /\ analysed = Root \/ d = analysed
        BY <2>1, OutcomePlanIs
    <2>3. IsPlan(outcome.plan)
        BY <2>2 DEF IsPlan, MadeByRule
    <2> QED BY <2>1, <2>2, <2>3, FeasibleSingle
  <1>2. CASE PlanByModel
    <2>1. state = "PLANNING"
        BY <1>2 DEF PlanByModel, Undecided, PlanningOne
    <2>2. CASE \E p \in ModelPlans : AcceptPlan(p)
        BY <2>1, <2>2, FeasibleSingle, ModelPlansArePlans
    <2>3. CASE UNCHANGED <<repo, analysed, readFor, kind, services>>
        BY <2>3, FeasiblePasses
    <2> QED BY <1>2, <2>2, <2>3 DEF PlanByModel
  <1> QED BY <1>1, <1>2

\* A lone plan with what is injected runs what it ran.
LEMMA FeasibleAlone ==
    ASSUME PInv, LaunchOne, Feasible
    PROVE  Feasible'
  <1>1. PICK keys \in {{}, provisionedKeys(metadata.backing)} :
            services' = <<[services[1] EXCEPT !.env = Layered(Injected(keys), @)]>>
    BY DEF LaunchOne
  <1>2. SingleKept /\ UNCHANGED <<repo, analysed, readFor, kind>>
    BY DEF LaunchOne, PInv, Kept
  <1> DEFINE e == Layered(Injected(keys), services[1].env)
  <1>3. DOMAIN services[1] = DOMAIN Plan /\ DOMAIN services = {1}
    BY <1>2 DEF SingleKept
  <1>4. services' = <<[services[1] EXCEPT !.env = e]>>
    BY <1>1, <1>3, PlanFields
  <1> HIDE DEF e
  <1>5. SameService(services[1], [services[1] EXCEPT !.env = e])
    BY <1>3, EnvReplaced
  <1>6. DOMAIN services' = {1} /\ SameService(services[1], services'[1])
    BY <1>4, <1>5
  <1> QED BY <1>2, <1>3, <1>6, FeasibleStays

\* So does one with what a person gave.
LEMMA FeasibleAnswered ==
    ASSUME PInv, NEW values, ResumeWith(values), Feasible
    PROVE  Feasible'
  <1>1. UNCHANGED <<repo, analysed, readFor>> /\ kind \in {"single", "project", "docker"}
        /\ kind' = IF kind = "single" THEN "single" ELSE "project"
    BY DEF ResumeWith, PInv, Places, TypeOK
  <1>2. CASE kind = "single"
    <2> DEFINE e == Merged(services[1].env, values)
    <2>1. DOMAIN services[1] = DOMAIN Plan /\ DOMAIN services = {1}
        BY <1>2 DEF PInv, Kept, SingleKept
    <2>2. services' = <<[services[1] EXCEPT !.env = e]>>
        BY <1>2, <2>1, PlanFields DEF ResumeWith
    <2> HIDE DEF e
    <2>3. SameService(services[1], [services[1] EXCEPT !.env = e])
        BY <2>1, EnvReplaced
    <2>4. DOMAIN services' = {1} /\ SameService(services[1], services'[1])
        BY <2>2, <2>3
    <2> QED BY <1>1, <1>2, <2>1, <2>4, FeasibleStays
  <1>3. CASE kind # "single"
    <2> DEFINE applied == applyConfiguration(services, metadata.services, values)
    <2>1. services' = applied \/ services' = withCrashAnswers(applied, pending.env, NonBlank(values))
        BY <1>3 DEF ResumeWith, NonBlank
    <2>2. ASSUME NEW i \in DOMAIN services PROVE DOMAIN services[i] = DOMAIN Plan
      <3>1. CASE ProjectKept
          BY <3>1, FieldsStay DEF ProjectKept, SameService, PInv, Places, TypeOK
      <3>2. CASE DockerKept
          BY <3>2 DEF DockerKept
      <3> QED BY <1>1, <1>3, <3>1, <3>2 DEF PInv, Kept
    <2>3. DOMAIN applied = DOMAIN services /\ \A i \in DOMAIN services : SameService(services[i], applied[i])
      <3>1. DOMAIN applied = DOMAIN services
          BY DEF applyConfiguration
      <3> QED BY <2>2, <3>1, Applied
    <2> HIDE DEF applied
    <2>4. DOMAIN services' = DOMAIN services /\ \A i \in DOMAIN services : SameService(services[i], services'[i])
      <3>1. CASE services' = applied
          BY <2>3, <3>1
      <3>2. CASE services' = withCrashAnswers(applied, pending.env, NonBlank(values))
        <4>1. DOMAIN services' = DOMAIN applied
            BY <3>2 DEF withCrashAnswers
        <4>2. \A i \in DOMAIN applied : DOMAIN applied[i] = DOMAIN Plan
            BY <2>2, <2>3 DEF SameService
        <4>3. \A i \in DOMAIN applied : SameService(applied[i], services'[i])
            BY <3>2, <4>2, CrashAnswered
        <4> QED BY <2>3, <4>1, <4>3 DEF SameService
      <3> QED BY <2>1, <3>1, <3>2
    <2> QED BY <1>1, <1>3, <2>4, FeasibleStays
  <1> QED BY <1>2, <1>3

\* Every step leaves what waits to be started fit to run.
LEMMA FeasibleNext ==
    ASSUME PInv, Feasible, [Next]_vars
    PROVE  Feasible'
  <1>1. CASE EnsureDocker \/ Analyse \/ DeclinePlan \/ Validate \/ Finish \/ ResumeWithoutPlan \/ CancelUnanswered
             \/ AskForPackage \/ LaunchProject \/ CrashOnSettings \/ UNCHANGED vars
    <2>1. UNCHANGED <<repo, analysed, readFor, kind, services>>
        BY <1>1 DEF EnsureDocker, Analyse, DeclinePlan, Validate, Finish, ResumeWithoutPlan, CancelUnanswered,
                    AskForPackage, LaunchProject, CrashOnSettings, vars
    <2> QED BY <2>1, FeasiblePasses
  <1>2. CASE Clone \/ \E dir \in pending.choices : ChoosePackage(dir)
    BY <1>2, FeasibleBefore DEF Clone, ChoosePackage
  <1>3. CASE PlanTheProject
    BY <1>3, FeasibleProject
  <1>4. CASE PlanDockerSetup
    BY <1>4, FeasibleDocker
  <1>5. CASE PlanByRules \/ PlanByModel
    BY <1>5, FeasiblePlanned
  <1>6. CASE LaunchOne
    BY <1>6, FeasibleAlone
  <1>7. CASE Resume
    BY <1>7, FeasibleAnswered DEF Resume
  <1> QED BY <1>1, <1>2, <1>3, <1>4, <1>5, <1>6, <1>7 DEF Next, Work, Person

\* The first that is refused is one of those that are.
LEMMA ValidatorKnows ==
    ASSUME PInv, Feasible, RulePlansCanRun, Validate
    PROVE  RulePlansCanRun'
  <1> DEFINE refused == {i \in DOMAIN services : Rejected(services[i]) \/ Impossible(services[i])}
             first == services[Min(refused)]
  <1>1. \/ UNCHANGED failure
        \/ failure' = "rejected"
        \/ refused # {} /\ ~Rejected(first) /\ refuseImpossiblePlan(first)
    BY DEF Validate, fail
  <1>2. refused # {} => Min(refused) \in refused
    BY ServicesAreNumbered, LeastExists
  <1>3. ASSUME NEW i \in refused, ~Rejected(services[i]), refuseImpossiblePlan(services[i])
        PROVE  failure' = "invalid AI plan"
    <2> DEFINE s == services[i]
    <2>1. Runnable(s, declaredScripts(s)) /\ Impossible(s)
        BY <1>3 DEF Feasible
    <2> HIDE DEF s
    <2>2. ~DockerPlan(s) => validateCommand(s.start)
        BY <1>3 DEF Rejected, validate, s
    <2>3. s.source = "ai-fallback"
        BY <2>1, <2>2 DEF Runnable, Impossible, missingEntryFile
    <2> QED BY <1>3, <2>3 DEF refuseImpossiblePlan, fail, s
  <1> HIDE DEF refused
  <1>4. \/ UNCHANGED failure
        \/ failure' \in {"rejected", "invalid AI plan"}
    BY <1>1, <1>2, <1>3
  <1> QED BY <1>4 DEF RulePlansCanRun

\* The validator alone could blame DevLaunch, and it knows better.
LEMMA FailuresAreOthers ==
    ASSUME PInv, Feasible, RulePlansCanRun, [Next]_vars
    PROVE  RulePlansCanRun'
  <1>1. CASE Validate
    BY <1>1, ValidatorKnows
  <1>2. CASE EnsureDocker \/ Clone \/ Analyse \/ DeclinePlan \/ Finish \/ CrashOnSettings \/ LaunchProject
    BY <1>2 DEF EnsureDocker, Clone, Analyse, DeclinePlan, Finish, CrashOnSettings, LaunchProject, fail, RulePlansCanRun
  <1>3. CASE PlanTheProject \/ AskForPackage \/ PlanByRules \/ PlanDockerSetup \/ LaunchOne
    BY <1>3 DEF PlanTheProject, AskForPackage, PlanByRules, AcceptPlan, PlanDockerSetup, LaunchOne, RulePlansCanRun
  <1>4. CASE PlanByModel
    BY <1>4 DEF PlanByModel, AcceptPlan, fail, RulePlansCanRun
  <1>5. CASE (\E dir \in pending.choices : ChoosePackage(dir)) \/ ResumeWithoutPlan \/ CancelUnanswered
    BY <1>5 DEF ChoosePackage, ResumeWithoutPlan, CancelUnanswered, fail, RulePlansCanRun
  <1>6. CASE Resume
    <2>1. PICK values : ResumeWith(values)
        BY <1>6 DEF Resume
    <2> QED BY <2>1 DEF ResumeWith, RulePlansCanRun
  <1>7. CASE UNCHANGED vars
    BY <1>7 DEF vars, RulePlansCanRun
  <1> QED BY <1>1, <1>2, <1>3, <1>4, <1>5, <1>6, <1>7 DEF Next, Work, Person

-----------------------------------------------------------------------------
(* The theorems *)

\* Every step keeps the invariant.
LEMMA PInvNext == PInv /\ [Next]_vars => PInv'
  <1> SUFFICES ASSUME PInv, [Next]_vars PROVE PInv'
      OBVIOUS
  <1>1. CASE EnsureDocker \/ Analyse \/ DeclinePlan \/ Validate \/ Finish \/ ResumeWithoutPlan \/ CancelUnanswered
    BY <1>1, PassingSteps
  <1>2. CASE Clone \/ \E dir \in pending.choices : ChoosePackage(dir)
    BY <1>2, AnalysedSteps
  <1>3. CASE PlanTheProject
    BY <1>3, ProjectStep
  <1>4. CASE AskForPackage
    BY <1>4, PackageStep
  <1>5. CASE PlanDockerSetup
    BY <1>5, DockerStep
  <1>6. CASE PlanByRules \/ PlanByModel
    BY <1>6, PlanningSteps
  <1>7. CASE LaunchOne
    BY <1>7, LaunchedAlone
  <1>8. CASE LaunchProject
    BY <1>8, LaunchedTogether
  <1>9. CASE CrashOnSettings
    BY <1>9, CrashStep
  <1>10. CASE Resume
    BY <1>10, ResumeStep DEF Resume
  <1>11. CASE UNCHANGED vars
    <2>1. Places'
        BY <1>11 DEF vars, PInv, Places, TypeOK
    <2>2. Kept' /\ Homes'
        BY <1>11, PlansStay DEF vars, PInv
    <2>3. Asks'
        BY <1>11 DEF vars, PInv, Asks, SingleAsks, metadata
    <2>4. Running'
        BY <1>11 DEF vars, PInv, Running, Launched, HomeIn, AnsweredIn, AskedOf, metadata
    <2> QED BY <2>1, <2>2, <2>3, <2>4 DEF PInv
  <1> QED BY <1>1, <1>2, <1>3, <1>4, <1>5, <1>6, <1>7, <1>8, <1>9, <1>10, <1>11 DEF Next, Work, Person

\* PInv is what each property follows from.
LEMMA PInvAlways == Spec => []PInv
  <1> QED BY PInvInit, PInvNext, PTL DEF Spec

\* Values that are at home are where they were asked for, and nowhere else.
LEMMA HomesMeanHome == PInv => AnswersGoHome
  <1> SUFFICES ASSUME PInv, Launched, kind = "project", NEW s \in Range(ran)
               PROVE  LET c == CandidateOf(metadata.services, s)
                          given == {k \in DOMAIN s.env : s.env[k].value \in Replies \ {Blank}}
                      IN  /\ given \subseteq NamesOf(c.envExample) \cup c.envKeys \cup AskedOf(s)
                          /\ \A q \in reply.asked :
                                q.service = s.name /\ q.key \in DOMAIN reply.values /\ reply.values[q.key] # Blank
                                    => s.env[q.key].value = reply.values[q.key]
      BY DEF AnswersGoHome
  <1>1. HomeIn(s) /\ AnsweredIn(s)
    BY DEF PInv, Running, Range
  <1> QED BY <1>1 DEF HomeIn, AnsweredIn, Declares

\* What each service keeps, runs with its databases and siblings.
LEMMA NothingLeft == PInv => NothingIsLeftUnasked
  <1> USE DEF PInv
  <1> SUFFICES ASSUME PInv, Launched, NEW s \in {s \in Range(ran) : ~s.docker}
               PROVE  LET c == CandidateOf(metadata.services, s)
                          read == IF kind # "single" THEN Range(c.envExample)
                                  ELSE IF s.dir = analysed THEN Range(metadata.facts.envExample) ELSE {}
                      IN  {v.key : v \in {v \in read : ~v.hasDefault}}
                              \subseteq Given(s) \cup AskedOf(s) \cup ALWAYS_SUPPLIED
                                  \cup provisionedNames(metadata.backing)
                                  \cup (IF kind = "single" THEN provisionedKeys(metadata.backing)
                                        ELSE wirableKeys(s.role, c.envKeys))
      BY DEF NothingIsLeftUnasked
  <1>1. PICK i \in DOMAIN services : s = ran[i]
    BY DEF Running, Range
  <1>2. SameService(services[i], s) /\ Given(services[i]) \subseteq Given(s)
    BY <1>1 DEF Running
  <1>3. CASE kind = "single"
    <2>1. SingleKept /\ i = 1
        BY <1>1, <1>3 DEF Kept, SingleKept
    <2>2. AskedOf(s) = AskedOf(services[1])
        BY <1>2, <2>1 DEF SameService, AskedOf
    <2>3. {v.key : v \in Undefaulted(metadata.facts)} \subseteq
              Given(s) \cup AskedOf(s) \cup ALWAYS_SUPPLIED \cup provisionedKeys(metadata.backing)
        BY <1>2, <2>1, <2>2 DEF SingleKept
    <2> QED BY <1>3, <2>3 DEF Undefaulted
  <1>4. CASE kind # "single"
    <2>1. kind \in {"project", "docker"}
        BY <1>1, <1>4 DEF Places, TypeOK
    <2>2. ~DockerKept
        BY <1>1, <1>2 DEF DockerKept, SameService
    <2>3. ProjectKept
        BY <2>1, <2>2 DEF Kept
    <2> DEFINE t == Drafted(repo)[i]
               c == CandidateIn(repo, t)
    <2>4. repo \in Repos /\ i \in DOMAIN Drafted(repo)
        BY <1>1, <2>3 DEF ProjectKept, Places, TypeOK
    <2>5. SameService(t, s) /\ Given(t) \subseteq Given(s)
        BY <1>1, <1>2, <2>3 DEF ProjectKept, SameService
    <2>6. WantedBy(c) \subseteq
              Given(t) \cup {q.key : q \in {q \in AskedBefore(repo) : q.service = t.name}}
                  \cup ALWAYS_SUPPLIED \cup provisionedNames(Meta(repo).backing)
                  \cup wirableKeys(t.role, c.envKeys)
        BY <2>4, DraftCovers
    <2>7. metadata = Meta(repo)
        BY <2>3 DEF ProjectKept, metadata, Meta
    <2>8. CandidateOf(metadata.services, s) = c
        BY <2>5, <2>7 DEF SameService, CandidateIn, CandidateOf
    <2> HIDE DEF t, c
    <2>9. {q.key : q \in {q \in AskedBefore(repo) : q.service = t.name}} \subseteq AskedOf(s)
        BY <2>3, <2>5 DEF ProjectKept, SameService, AskedOf
    <2>10. WantedBy(c) \subseteq Given(s) \cup AskedOf(s) \cup ALWAYS_SUPPLIED
               \cup provisionedNames(metadata.backing) \cup wirableKeys(s.role, c.envKeys)
        BY <2>5, <2>6, <2>7, <2>9 DEF SameService
    <2> QED BY <1>4, <2>8, <2>10 DEF WantedBy
  <1> QED BY <1>3, <1>4

\* The questions there are leave out what DevLaunch gives.
LEMMA OwnIsNotAsked == PInv => NeverAskedForOurOwn
  <1> USE DEF PInv
  <1> SUFFICES ASSUME PInv, state = "AWAITING_INPUT", ~pending.crash, NEW q \in pending.env,
                      NEW s \in {s \in Range(services) : s.name = q.service}
               PROVE  LET c == CandidateOf(metadata.services, s)
                      IN  q.key \notin (IF kind = "single" THEN provisionedKeys(metadata.backing)
                                        ELSE provisionedNames(metadata.backing))
                                           \cup wireService(services, s, c.envKeys)
                                           \cup (IF kind = "project" THEN Given(s) \ ShippedBy(c) ELSE {})
      BY DEF NeverAskedForOurOwn
  <1>1. PICK i \in DOMAIN services : s = services[i]
    BY DEF Range
  <1>2. CASE kind = "single"
    <2>1. SingleKept /\ q \in SingleAsks
        BY <1>2 DEF Kept, Asks
    <2>2. q.key \notin provisionedKeys(metadata.backing)
        BY <2>1 DEF SingleAsks, requiredConfigurationForSingle
    <2>3. wireService(services, s, CandidateOf(metadata.services, s).envKeys) = {}
        BY <1>1, <2>1 DEF SingleKept, wireService, Range
    <2> QED BY <1>2, <2>2, <2>3
  <1>3. CASE kind = "project"
    <2>1. services = Drafted(repo) /\ analysed = Root /\ q \in AskedBefore(repo) /\ repo \in Repos
        BY <1>3 DEF Asks, Places, TypeOK
    <2>2. metadata = Meta(repo)
        BY <2>1 DEF metadata, Meta
    <2> DEFINE c == CandidateIn(repo, s)
    <2>3. /\ q.key \notin provisionedNames(Meta(repo).backing)
          /\ q.key \notin wirableKeys(s.role, c.envKeys)
          /\ q.key \notin Given(s) \ ShippedBy(c)
        BY <1>1, <2>1, DraftAsks
    <2>4. CandidateOf(metadata.services, s) = c
        BY <2>2 DEF CandidateIn
    <2> HIDE DEF c
    <2>5. wireService(services, s, c.envKeys) \subseteq wirableKeys(s.role, c.envKeys)
        BY DEF wireService
    <2> QED BY <1>3, <2>2, <2>3, <2>4, <2>5
  <1>4. CASE kind \notin {"single", "project"}
    BY <1>1, <1>4 DEF Asks, Places, TypeOK
  <1> QED BY <1>2, <1>3, <1>4

\* The invariant, with all that waits to be started fit to run.
LEMMA FeasibleAlways == Spec => [](PInv /\ Feasible /\ RulePlansCanRun)
  <1>1. Init => PInv /\ Feasible /\ RulePlansCanRun
    BY PInvInit DEF Init, Feasible, RulePlansCanRun
  <1>2. PInv /\ Feasible /\ RulePlansCanRun /\ [Next]_vars => (PInv /\ Feasible /\ RulePlansCanRun)'
    BY PInvNext, FeasibleNext, FailuresAreOthers
  <1> QED BY <1>1, <1>2, PTL DEF Spec

\* What runs is told the port of what was planned.
LEMMA PortsFollow ==
    ASSUME PInv, Feasible
    PROVE  PortsAgree
  <1> SUFFICES ASSUME Launched, NEW s \in Range(ran) PROVE FollowsItsPort(s)
      BY DEF PortsAgree
  <1>1. PICK i \in DOMAIN services : SameService(services[i], s)
    BY DEF PInv, Running, Range
  <1>2. FollowsItsPort(services[i])
    BY DEF Feasible, Runnable
  <1> QED BY <1>1, <1>2 DEF SameService, FollowsItsPort

\* The pipeline's state is of its types: a plan exactly when there is something to run, a
\* choice only of the repository's directories, nothing asked again that was not asked.
THEOREM TypeCorrect == Spec => []TypeOK
  <1>1. PInv => TypeOK
    BY DEF PInv, Places
  <1> QED BY <1>1, PInvAlways, PTL

\* A value given for a project reaches every service it was asked for, and no service that
\* neither declares its name nor was asked about it (RequiredConfiguration.applyConfiguration
\* and SessionManager's withCrashAnswers), whatever the repository and the answers.
THEOREM AnswersReachHome == Spec => []AnswersGoHome
  <1> QED BY HomesMeanHome, PInvAlways, PTL

\* No container starts without a setting its example declares and nobody supplies, unless
\* a person was asked (requiredConfiguration and the gate SessionManager puts after it).
THEOREM EverythingIsAsked == Spec => []NothingIsLeftUnasked
  <1> QED BY NothingLeft, PInvAlways, PTL

\* And a person is asked for nothing DevLaunch decides (RequiredConfiguration.suppliedKeys).
THEOREM OnlyTheirOwnIsAsked == Spec => []NeverAskedForOurOwn
  <1> QED BY OwnIsNotAsked, PInvAlways, PTL

\* No plan the rules made is refused for a script that is not there (SessionManager's
\* refuseImpossiblePlan and Feasibility's impossibleCommand), whatever the repository, whichever of its directories
\* the plan runs in and however often its settings are asked for.
THEOREM RulesPlanWhatRuns == Spec => []RulePlansCanRun
  <1> QED BY FeasibleAlways, PTL

\* The port a service of the rules' is watched on is the one its command was told
\* (ProjectPlanner.withStartPort), through everything that happens to its plan.
THEOREM PortsAlwaysAgree == Spec => []PortsAgree
  <1>1. PInv /\ Feasible /\ RulePlansCanRun => PortsAgree
    BY PortsFollow
  <1> QED BY <1>1, FeasibleAlways, PTL

=============================================================================
