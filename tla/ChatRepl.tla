------------------------------ MODULE ChatRepl ------------------------------
(***************************************************************************)
(* `evoa chat` at a terminal (cli/commands.ts handleChatRepl): lines are   *)
(* turns, a turn runs, is recorded in memory and saved, and only then is   *)
(* its answer printed; Ctrl-C stops a turn, or ends the input between two. *)
(* A turn the model leaves unfinished is continued by follow-up messages   *)
(* (cli/auto-continue.ts).  The session of a turn shares the entries of    *)
(* the chat, so that what an interrupted turn said stays in them, while    *)
(* the message list of the chat is that of the last turn to end.  The      *)
(* process may be killed at any point, and the next one resumes from the   *)
(* session file (sessions/json-session-store.ts), which a save first       *)
(* truncates.                                                              *)
(***************************************************************************)
EXTENDS Naturals, FiniteSets, Sequences, SequencesExt

CONSTANTS
  MaxReplTurns,   \* bound: lines typed over all processes
  MaxFollowUps,   \* maxFollowUps of the agent
  MaxKills        \* bound: processes killed

ASSUME ReplAssumption == MaxReplTurns \in Nat /\ MaxFollowUps \in Nat /\ MaxKills \in Nat

Responses == {"complete", "truncated", "empty", "more"}
Settings  == {"off", "unset", "always"}   \* runtime.autoContinue
TornFile  == <<0>>                        \* no turn has number 0

VARIABLES
  replStage,    \* "shell", "idle", "asking", "remembering", "saving", "writing", "printing"
  setting,      \* autoContinue of the agent
  named,        \* --session or --resume was given
  context,      \* the turns of context.entries
  heard,        \* how many of them context.messages has
  began,        \* startMessageIndex: how many it had when the turn that runs began
  nudges,       \* follow-up messages sent so far, as <<turn, number>>
  disk,         \* the turns in the session file
  remembered,   \* the turns recorded in memory, in order
  shown,        \* turns whose answers were printed in a named session
  typed,        \* turns typed so far; the last one is at it while one runs
  stopped,      \* the signal of the running turn is aborted
  kills         \* processes killed so far

replVars == <<replStage, setting, named, context, heard, began, nudges, disk, remembered,
              shown, typed, stopped, kills>>

ReplInit ==
  /\ replStage = "shell" /\ setting = "unset" /\ named = FALSE
  /\ context = << >> /\ heard = 0 /\ began = 0 /\ nudges = {} /\ disk = << >> /\ remembered = << >>
  /\ shown = {} /\ typed = 0 /\ stopped = FALSE /\ kills = 0

\* createChatContext: a session of that name goes on where its file ends
LaunchRepl(with, ac) ==
  /\ replStage = "shell"
  /\ with => disk # TornFile
  /\ replStage' = "idle"
  /\ named' = with
  /\ setting' = ac
  /\ context' = IF with THEN disk ELSE << >>
  /\ heard' = Len(context')
  /\ stopped' = FALSE
  /\ UNCHANGED <<began, nudges, disk, remembered, shown, typed, kills>>

\* a line that is not empty: its question is pushed on the shared entries
TypeLine ==
  /\ replStage = "idle"
  /\ typed < MaxReplTurns
  /\ typed' = typed + 1
  /\ context' = Append(context, typed')
  /\ began' = heard
  /\ stopped' = FALSE
  /\ replStage' = "asking"
  /\ UNCHANGED <<setting, named, heard, nudges, disk, remembered, shown, kills>>

\* the follow-ups in the transcript
FollowUps == {n \in nudges : \E i \in DOMAIN context : context[i] = n[1]}

\* the provider of follow-ups as a bug would have it: the limit is looked at last
AsksPastLimit(response) ==
  setting # "off" /\ (response \in {"truncated", "empty", "more"} \/ setting = "always")
    /\ Cardinality(FollowUps) <= MaxFollowUps

\* the provider: it counts the follow-ups of the whole transcript
Continues(response) ==
  /\ setting # "off"
  /\ Cardinality(FollowUps) < MaxFollowUps
  /\ response \in {"truncated", "empty", "more"} \/ setting = "always"

\* an answer of the model is followed up, unless the signal is aborted ...
FollowedUp(response) ==
  /\ replStage = "asking" /\ ~stopped
  /\ Continues(response)
  /\ nudges' = nudges \union {<<typed, Cardinality(FollowUps) + 1>>}
  /\ UNCHANGED <<replStage, setting, named, context, heard, began, disk, remembered,
                 shown,
                 typed, stopped, kills>>

\* ... or ends the turn, as does any that uses up the turns of its loop; the
\* signal is not looked at
Answered ==
  /\ replStage = "asking"
  /\ replStage' = "remembering"
  /\ heard' = Len(context)
  /\ UNCHANGED <<setting, named, context, began, nudges, disk, remembered, shown, typed,
                 stopped, kills>>

\* Ctrl-C: the turn's signal, or the end of the input
PressCtrlC ==
  /\ IF replStage \in {"asking", "remembering", "saving", "writing"}
     THEN stopped' = TRUE /\ UNCHANGED replStage
     ELSE replStage = "idle" /\ replStage' = "shell" /\ UNCHANGED stopped
  /\ UNCHANGED <<setting, named, context, heard, began, nudges, disk, remembered, shown,
                 typed, kills>>

\* runSession throws the abort, or what isAbortError takes for one; what was said
\* stays in the entries, and the message list is that of before
TurnInterrupted ==
  /\ replStage = "asking"
  /\ replStage' = "idle"
  /\ UNCHANGED <<setting, named, context, heard, began, nudges, disk, remembered, shown,
                 typed, stopped, kills>>

\* any other error, the runtime's timeout among them, ends the process; behind the
\* answer one with the signal aborted is taken for the interruption
TurnThrows ==
  /\ replStage \in {"asking", "remembering", "saving", "writing"}
  /\ replStage' = IF stopped /\ replStage # "asking" THEN "idle" ELSE "shell"
  /\ UNCHANGED <<setting, named, context, heard, began, nudges, disk, remembered, shown,
                 typed, stopped, kills>>

\* recordTurn: the messages from startMessageIndex on, those of turns interrupted
\* since then among them
RecordTurn ==
  /\ replStage = "remembering"
  /\ remembered' = remembered \o SubSeq(context, began + 1, Len(context))
  /\ replStage' = IF named THEN "saving" ELSE "printing"
  /\ UNCHANGED <<setting, named, context, heard, began, nudges, disk, shown, typed,
                 stopped,
                 kills>>

\* writeFile truncates the file and then fills it
TruncateFile ==
  /\ replStage = "saving"
  /\ disk' = TornFile
  /\ replStage' = "writing"
  /\ UNCHANGED <<setting, named, context, heard, began, nudges, remembered, shown,
                 typed, stopped, kills>>

FillFile ==
  /\ replStage = "writing"
  /\ disk' = context
  /\ replStage' = "printing"
  /\ UNCHANGED <<setting, named, context, heard, began, nudges, remembered, shown,
                 typed, stopped, kills>>

PrintAnswer ==
  /\ replStage = "printing"
  /\ shown' = IF named THEN shown \union {typed} ELSE shown
  /\ replStage' = "idle"
  /\ UNCHANGED <<setting, named, context, heard, began, nudges, disk, remembered,
                 typed, stopped, kills>>

\* "/exit", "/quit" or the end of the input
Leave ==
  /\ replStage = "idle"
  /\ replStage' = "shell"
  /\ UNCHANGED <<setting, named, context, heard, began, nudges, disk, remembered,
                 shown, typed, stopped, kills>>

Kill ==
  /\ replStage # "shell"
  /\ kills < MaxKills
  /\ kills' = kills + 1
  /\ replStage' = "shell"
  /\ UNCHANGED <<setting, named, context, heard, began, nudges, disk, remembered,
                 shown, typed, stopped>>

ReplStep ==
  \/ \E response \in Responses : FollowedUp(response)
  \/ Answered
  \/ TurnInterrupted
  \/ TurnThrows
  \/ RecordTurn
  \/ TruncateFile
  \/ FillFile
  \/ PrintAnswer

ReplNext ==
  \/ \E with \in BOOLEAN, ac \in Settings : LaunchRepl(with, ac)
  \/ TypeLine
  \/ ReplStep
  \/ PressCtrlC
  \/ Leave
  \/ Kill

ReplSpec == ReplInit /\ [][ReplNext]_replVars

\* the provider answers or fails every request, and a stopped turn is noticed
ReplFairness == WF_replVars(ReplStep)

(***************************************************************************)
(* Properties.                                                             *)
(***************************************************************************)

Increasing(s) == \A i \in 1..(Len(s) - 1) : s[i] < s[i + 1]

ReplTypeOK ==
  /\ replStage \in {"shell", "idle", "asking", "remembering", "saving", "writing", "printing"}
  /\ setting \in Settings
  /\ context \in Seq(1..MaxReplTurns) /\ heard \in 0..Len(context) /\ began \in Nat
  /\ nudges \subseteq (1..MaxReplTurns) \X (1..MaxFollowUps)
  /\ disk \in Seq(0..MaxReplTurns) /\ remembered \in Seq(1..MaxReplTurns)
  /\ shown \subseteq 1..MaxReplTurns
  /\ typed \in 0..MaxReplTurns /\ kills \in 0..MaxKills

\* An answer that was printed in a named session is in its file, whatever is
\* interrupted, fails or is killed afterwards, short of a save cut off half way
\* (commands.ts:504-510).
ShownIsStored ==
  disk # TornFile => \A t \in shown : \E i \in DOMAIN disk : disk[i] = t

\* The conversation has each of its turns once, in the order typed, and the file is
\* where it was at an earlier point: no interruption, failure or kill makes the two
\* go separate ways (commands.ts:499, :502, :505).
FileFollowsConversation ==
  /\ Increasing(context)
  /\ named /\ replStage # "shell" /\ disk # TornFile => IsPrefix(disk, context)

\* Memory takes no turn twice, interrupted ones among them, and takes them in the
\* order typed; an answer that was printed is in it (commands.ts:498, :504).
RememberedOnce ==
  /\ Increasing(remembered)
  /\ \A t \in shown : \E i \in DOMAIN remembered : remembered[i] = t

\* However many turns a session has, and whatever it is resumed from, the model is
\* asked to continue at most maxFollowUps times in it (auto-continue.ts:13; the
\* test "respects maxFollowUps limit").
FollowUpsLimited == Cardinality(FollowUps) <= MaxFollowUps

\* The terminal's chat (src/cli/commands.ts) keeps its conversation, its file and
\* its memory together.
ReplSound ==
  ReplTypeOK /\ ShownIsStored /\ FileFollowsConversation /\ RememberedOnce /\ FollowUpsLimited

=============================================================================
