------------------------------- MODULE Commands -------------------------------
(***************************************************************************)
(* The command line: how a line becomes a command, and the two commands    *)
(* that keep a state of their own over many steps, `evoa chat' and         *)
(* `evoa evolve'.  A handler takes nothing of its line but options, which  *)
(* its module chooses freely; so one specification holds the three side by *)
(* side, and a behaviour of it exercises one of them, whichever `command'  *)
(* says.                                                                   *)
(***************************************************************************)
EXTENDS CommandLine, ChatRepl, Evolution

VARIABLE command   \* what a behaviour exercises

commandsVars == <<command, lineVars, replVars, evoVars>>

CommandsInit ==
  command \in {"any", "chat", "evolve"} /\ LineInit /\ ReplInit /\ EvoInit

CommandsNext ==
  /\ UNCHANGED command
  /\ \/ command = "any" /\ LineNext /\ UNCHANGED <<replVars, evoVars>>
     \/ command = "chat" /\ ReplNext /\ UNCHANGED <<lineVars, evoVars>>
     \/ command = "evolve" /\ EvoNext /\ UNCHANGED <<lineVars, replVars>>

CommandsSpec == CommandsInit /\ [][CommandsNext]_commandsVars /\ ReplFairness /\ EvoFairness

-------------------------------------------------------------------------------
\* A turn ends, in an answer, an interruption or an error; and so does an
\* evolution, however its candidates do (src/cli/commands.ts).
CommandsSettle ==
  (replStage = "asking" \/ evoStage = "generating")
    ~> (replStage \in {"idle", "shell"} /\ evoStage \in {"blank", "done", "thrown"})
===============================================================================
