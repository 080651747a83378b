---------------------------------- MODULE Bash ---------------------------------
(***************************************************************************)
(* The bash tool: the checks of bashTool (src/tools/mutating.ts) and       *)
(* runSpawnedProcess (src/tools/bash-executor.ts).  The child process is   *)
(* external: it writes, exits, fails to start, and heeds SIGTERM or does   *)
(* not.                                                                    *)
(***************************************************************************)
EXTENDS Naturals

CONSTANTS
  MaxOutput,   \* options.maxOutputBytes
  MaxChunk     \* bytes of the largest chunk the child writes

ASSUME BashAssumption == MaxOutput \in Nat \ {0} /\ MaxChunk \in Nat \ {0}

VARIABLES
  bashStage,   \* "blank", "running", "resolved", "rejected"
  killed,      \* SIGTERM has been sent to the child
  process,     \* "none", "alive", "gone"
  outputBytes,
  lost,        \* history: bytes the child wrote that the result leaves out
  truncated,
  timedOut,
  timer,       \* the timer is armed
  listening,   \* the abort listener is registered
  aborted      \* options.signal.aborted

bashVars == <<bashStage, killed, process, outputBytes, lost, truncated, timedOut,
              timer, listening, aborted>>

BashInit ==
  /\ bashStage = "blank"
  /\ killed = FALSE
  /\ process = "none"
  /\ outputBytes = 0
  /\ lost = 0
  /\ truncated = FALSE
  /\ timedOut = FALSE
  /\ timer = FALSE
  /\ listening = FALSE
  /\ aborted = FALSE

(* Aborted, a bad input, cwd or timeout: no process.                       *)
Decline ==
  /\ bashStage = "blank"
  /\ bashStage' = "rejected"
  /\ UNCHANGED <<killed, process, outputBytes, lost, truncated, timedOut, timer,
                 listening, aborted>>

\* The signal may have been aborted while cwd was looked at.
Spawn ==
  /\ bashStage = "blank"
  /\ bashStage' = "running" /\ process' = "alive"
  /\ timer' = TRUE
  /\ killed' = aborted
  /\ listening' = ~aborted
  /\ UNCHANGED <<outputBytes, lost, truncated, timedOut, aborted>>

Smaller(a, b) == IF a < b THEN a ELSE b

(* appendOutput: stdout and stderr share one count.                        *)
Output(n) ==
  LET piece == Smaller(n, MaxOutput - outputBytes)
      limit == outputBytes < MaxOutput /\ (n > piece \/ outputBytes + piece = MaxOutput)
  IN /\ process = "alive" /\ bashStage = "running"
     /\ outputBytes' = outputBytes + piece
     /\ lost' = Smaller(lost + n - piece, 1)
     /\ truncated' = (truncated \/ limit)
     /\ killed' = (killed \/ limit)
     /\ UNCHANGED <<bashStage, process, timedOut, timer, listening, aborted>>

TimerFires ==
  /\ timer
  /\ timer' = FALSE /\ timedOut' = TRUE /\ killed' = TRUE
  /\ UNCHANGED <<bashStage, process, outputBytes, lost, truncated, listening, aborted>>

BashAbort ==
  /\ bashStage \in {"blank", "running"} /\ ~aborted
  /\ aborted' = TRUE
  /\ killed' = (killed \/ listening)
  /\ listening' = FALSE      \* once
  /\ UNCHANGED <<bashStage, process, outputBytes, lost, truncated, timedOut, timer>>

\* Mutated form of Close: the timer stays.
CloseKeepingTimer ==
  /\ bashStage = "running" /\ process = "alive"
  /\ process' = "gone"
  /\ bashStage' = "resolved"
  /\ listening' = FALSE
  /\ UNCHANGED <<timer, killed, outputBytes, lost, truncated, timedOut, aborted>>

\* "close" comes when the child has exited and nobody holds its output open.
\* Its exit code and signal are part of the result; a process that was killed
\* resolves too.
Close ==
  /\ bashStage = "running" /\ process = "alive"
  /\ process' = "gone"
  /\ bashStage' = "resolved"
  /\ timer' = FALSE /\ listening' = FALSE
  /\ UNCHANGED <<killed, outputBytes, lost, truncated, timedOut, aborted>>

\* "error": it could not be started, or not be killed.
SpawnError ==
  /\ bashStage = "running"
  /\ bashStage' = "rejected"
  /\ timer' = FALSE /\ listening' = FALSE
  /\ UNCHANGED <<killed, process, outputBytes, lost, truncated, timedOut, aborted>>

(* A child that outlived its error.                                        *)
LateClose ==
  /\ bashStage = "rejected" /\ process = "alive"
  /\ process' = "gone"
  /\ UNCHANGED <<bashStage, killed, outputBytes, lost, truncated, timedOut, timer,
                 listening, aborted>>

BashNext ==
  \/ Decline \/ Spawn \/ TimerFires \/ BashAbort \/ Close \/ SpawnError \/ LateClose
  \/ \E n \in 1 .. MaxChunk : Output(n)

BashSpec == BashInit /\ [][BashNext]_bashVars

\* Timers fire.  A child that is sent SIGTERM ends: nothing else ends it.
BashFairness == WF_bashVars(TimerFires) /\ WF_bashVars(killed /\ Close)

-------------------------------------------------------------------------------
(* Type correctness.                                                       *)
BashTypeOK ==
  /\ bashStage \in {"blank", "running", "resolved", "rejected"}
  /\ process \in {"none", "alive", "gone"}
  /\ outputBytes \in 0 .. MaxOutput
  /\ lost \in 0 .. 1
  /\ {killed, truncated, timedOut, timer, listening, aborted} \subseteq BOOLEAN

\* The result of a command says what became of it: output is missing from it
\* only if it is marked as truncated, a command that was cut short, by its output
\* limit, its timeout or an abort, was told to stop, and nothing of a settled
\* command can still strike another one: no timer and no listener is left.
CommandAccounted ==
  /\ lost > 0 => truncated
  /\ truncated \/ timedOut \/ (aborted /\ process = "alive") => killed
  /\ truncated <=> outputBytes = MaxOutput
  /\ bashStage \in {"resolved", "rejected"} => ~timer /\ ~listening
===============================================================================
