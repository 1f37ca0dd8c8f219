--------------------------- MODULE SessionStates ---------------------------
(***************************************************************************)
(* The states of a DevLaunch deployment and the groups of them the backend *)
(* decides by (packages/shared/src/states.ts, SessionManager.ts).          *)
(***************************************************************************)

\* BUILDING is declared by the code and set by nothing; it is kept so that the
\* set of states is the code's own.
ExecutionState ==
  {"QUEUED", "CLONING", "ANALYZING", "PLANNING", "VALIDATING", "AWAITING_INPUT",
   "BUILDING", "STARTING", "WAITING_FOR_READY", "READY", "PARTIALLY_READY",
   "FAILED", "REPAIRING", "CLEANING_UP", "COMPLETED", "CANCELLED"}

ServingStates == {"READY", "PARTIALLY_READY"}

TerminalStates == {"COMPLETED", "CANCELLED", "FAILED"}

\* Where a session somebody has ended may still move (ENDING_STATES).
EndingStates == {"CLEANING_UP", "CANCELLED", "COMPLETED"}

\* The state of an id no session has been launched under yet.
NoSession == "NO_SESSION"

=============================================================================
