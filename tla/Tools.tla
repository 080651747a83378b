-------------------------------- MODULE Tools --------------------------------
(***************************************************************************)
(* The parts of the system that act for the model: the registry that       *)
(* charges, admits and settles its calls, the tools behind it, and the SOP *)
(* engine.  They share no state but the files, the signal and the session, *)
(* which each module has its own view of; so one specification holds them  *)
(* side by side, and a behaviour of it exercises one of them, whichever    *)
(* `part' says.  Every other part stays as it was before its first call.   *)
(***************************************************************************)
EXTENDS ToolRegistry, Sop, Mcp, Subagent, FileTools, Bash, ToolOutput, WebFetch

VARIABLE part   \* the part a behaviour exercises

ToolParts ==
  {"registry", "sop", "mcp", "subagents", "files", "bash", "output", "fetch"}

toolsVars ==
  <<part, registryVars, sopVars, mcpVars, subVars, fileVars, bashVars, outVars, fetchVars>>

ToolsInit ==
  /\ part \in ToolParts
  /\ RegistryInit /\ SopInit /\ McpInit /\ SubInit
  /\ FileInit /\ BashInit /\ OutInit /\ FetchInit
  /\ part # "files" => \A f \in Files : file[f] = Missing

ToolsNext ==
  /\ UNCHANGED part
  /\ \/ /\ part = "registry" /\ RegistryNext
        /\ UNCHANGED <<sopVars, mcpVars, subVars, fileVars, bashVars, outVars, fetchVars>>
     \/ /\ part = "sop" /\ SopNext
        /\ UNCHANGED <<registryVars, mcpVars, subVars, fileVars, bashVars, outVars, fetchVars>>
     \/ /\ part = "mcp" /\ McpNext
        /\ UNCHANGED <<registryVars, sopVars, subVars, fileVars, bashVars, outVars, fetchVars>>
     \/ /\ part = "subagents" /\ SubNext
        /\ UNCHANGED <<registryVars, sopVars, mcpVars, fileVars, bashVars, outVars, fetchVars>>
     \/ /\ part = "files" /\ FileNext
        /\ UNCHANGED <<registryVars, sopVars, mcpVars, subVars, bashVars, outVars, fetchVars>>
     \/ /\ part = "bash" /\ BashNext
        /\ UNCHANGED <<registryVars, sopVars, mcpVars, subVars, fileVars, outVars, fetchVars>>
     \/ /\ part = "output" /\ OutNext
        /\ UNCHANGED <<registryVars, sopVars, mcpVars, subVars, fileVars, bashVars, fetchVars>>
     \/ /\ part = "fetch" /\ FetchNext
        /\ UNCHANGED <<registryVars, sopVars, mcpVars, subVars, fileVars, bashVars, outVars>>

\* Each part's own fairness; before its first call nothing of it is enabled.
ToolsFairness ==
  WF_sopVars(SopStep) /\ SubFairness /\ FileFairness /\ BashFairness /\ FetchFairness

ToolsSpec == ToolsInit /\ [][ToolsNext]_toolsVars /\ ToolsFairness

-------------------------------------------------------------------------------
\* What the registry and its tools say of a call is what happened to it: files
\* are worked on one call at a time (src/tools/mutating.ts), commands and fetches
\* are reported as they ended and leave no timer behind (src/tools/bash-executor.ts,
\* src/tools/web-fetch.ts).
CallsAccounted ==
  /\ RegistryTypeOK
  /\ FileTypeOK /\ OneAtATime
  /\ BashTypeOK /\ CommandAccounted
  /\ FetchAccounted

\* An abort is heeded: an SOP starts no further action, a fetch sends no further
\* request, a child given up says nothing more.
ToolsHeedAbort == AbortCutsShort /\ QuietOnceAborted /\ AbandonedSilent

UnderWay ==
  \/ sopStage = "loop"
  \/ subStage = "running" /\ callerSignal # "on"
  \/ \E c \in FileCalls : stage[c] = "resolving"
  \/ bashStage = "running"
  \/ fetchStage = "attempt"

AtRest ==
  /\ sopStage \in {"blank", "done", "thrown"}
  /\ subStage # "running" /\ loops = {}
  /\ \A c \in FileCalls : stage[c] \in {"idle", "done", "failed"}
  /\ bashStage \in {"blank", "resolved", "rejected"}
  /\ fetchStage \in {"blank", "body", "returned", "thrown"}

\* Whatever is started comes to an end, under the fairness of its own part: an SOP
\* as long as its actions settle; an aborted delegation whatever its children do,
\* with none of their loops left behind; every file call, as one that fails or is
\* given up hands its path on; a command, by itself or by its timeout; a fetch,
\* whatever the server does.
ToolsSettle == UnderWay ~> AtRest
===============================================================================
