----------------------------- MODULE MCRepairLoop -----------------------------
(* What the repair loop is checked with. *)
EXTENDS RepairLoop

Repository ==
    [language |-> "node", logsPort |-> 1, scripts |-> {"script:dev", "script:start"}, declares |-> FALSE,
     imports |-> FALSE, builds |-> FALSE, hardcoded |-> FALSE, psycopg |-> "none",
     refused |-> {}, lines |-> {}]

\* One that is built and prints nothing that helps; one built whose start script may be
\* missing; a Python API whose console script may not be found; one that hardcodes its
\* bind address and whose heap may run out.  The validator refuses the last three a moved
\* port, and the second a forced one too.
MCRepositories ==
    {[Repository EXCEPT !.builds = TRUE],
     [Repository EXCEPT !.builds = TRUE, !.refused = {11, 13}, !.lines = {"missingScript"}],
     [Repository EXCEPT !.language = "python", !.refused = {11}, !.lines = {"notFound"}],
     [Repository EXCEPT !.hardcoded = TRUE, !.refused = {11}, !.lines = {"heapLimit"}]}

\* A model invents a script, or rewrites the build, the environment and where it expects
\* the program; the validator refuses a runtime that is not approved.
MCDeltas ==
    {[start |-> "invented"], [runtime |-> 9],
     [build |-> "rewritten", database |-> FALSE, given |-> {}, port |-> 2, path |-> "/docs"]}
=============================================================================
