------------------------------ MODULE MCCommands -------------------------------
(* A small instance of Commands for TLC: the flags each command's lines are   *)
(* put together from.                                                         *)
EXTENDS Commands

MCTypedFlags ==
  [kind \in CommandKinds |->
     CASE kind = "evolve" -> {"--baseline-agent", "--candidate-agent", "--suite", "--auto",
                              "--generate", "--list", "--history", "--report-format"}
       [] kind \in {"chat", "web"} -> {"--agent", "--model", "--session", "--resume", "--port"}
       [] kind = "run" -> {"--agent", "--provider", "--task", "--tool-profile"}
       [] kind = "benchmark" -> {"--suite", "--report-format", "--provider-format", "--format"}
       [] kind = "models.discover" -> {"--provider", "--base-url"}
       [] kind = "replay" -> {"--trace", "--run-id"}
       [] kind = "diff" -> {"--left", "--right", "--json"}
       [] OTHER -> {"--sop-dir", "--force", "--help"}]

MCLooseTokens == {"word", "", "--agent", "--json", "--token-budget"}

\* Graded runs with and without credit, issues and a mark, and runs that threw.
MCBaselineRuns == {Run("passed", 1, 0, FALSE), Run("failed", 2, 1, FALSE)}
MCCandidateRuns ==
  {Run("passed", 1, 0, FALSE), Run("passed", 2, 0, TRUE), Run("passed", 1, 1, FALSE),
   Run("failed", 2, 2, FALSE), Run("timeout", 0, 0, FALSE)}

MCChoosy ==
  {"--auto", "--format", "--provider-format", "--tool-profile", "--report-format", "--port"}
===============================================================================
