------------------------------- MODULE WebChat -------------------------------
(***************************************************************************)
(* The web server's chat (web/server.ts, web/turn-controller.ts,           *)
(* web/session.ts) over the chat service (cli/chat-service.ts) and the     *)
(* JSON session store (sessions/json-session-store.ts).                    *)
(*                                                                         *)
(* A browser message is handled up to its first await before any other;    *)
(* what comes after an await is an action of its own, so the turns,        *)
(* resumes and saves that are under way interleave.  A turn of the agent   *)
(* loop is one step, from run_start to its end, but for one that times     *)
(* out: its caller is answered, and its loop goes on writing and           *)
(* reporting beside the turns that follow.                                 *)
(*                                                                         *)
(* A history stands for the entries behind the system prompt: the turn the *)
(* summary was made of (0: no summary), the turns whose question stands    *)
(* behind it, and those that wrote to it after they had timed out.         *)
(***************************************************************************)
EXTENDS Integers, Sequences, FiniteSets

CONSTANTS
  Sessions,      \* session ids, which name the files
  NoSession,     \* stands for none of them
  MaxTurns,      \* a bound on the turns asked
  MaxResumes     \* a bound on the resumes requested

ASSUME WebChatAssumption == MaxTurns \in Nat /\ MaxResumes \in Nat

Turns == 1 .. MaxTurns
Resumes == 1 .. MaxResumes
Histories == [summary : 0 .. MaxTurns, asked : SUBSET Turns, late : SUBSET Turns]
Fresh == [summary |-> 0, asked |-> {}, late |-> {}]
Files == [state : {"missing", "torn", "whole"}, history : Histories, stats : SUBSET Turns]
Missing == [state |-> "missing", history |-> Fresh, stats |-> {}]
Torn == [state |-> "torn", history |-> Fresh, stats |-> {}]
Whole(history, stats) == [state |-> "whole", history |-> history, stats |-> stats]

VARIABLES
  store,     \* the file of each session
  chats,     \* the chat contexts the server has created since its start
  current,   \* the one it shows (0: the server is down)
  turns,     \* what became of each turn
  resumes,   \* the resumes under way
  forked     \* history: sessions put on show while the file read for them was, or would be, out of date

vars == <<store, chats, current, turns, resumes, forked>>

NoTurn ==
  [phase |-> "unasked", chat |-> 0, session |-> NoSession,
   start |-> 0, aborted |-> FALSE, overran |-> FALSE, answered |-> FALSE,
   savedAs |-> NoSession, file |-> Missing]
\* A turn that is over: what is kept is history.
Closed(turn, phase) ==
  [NoTurn EXCEPT !.phase = phase, !.session = turn.session, !.answered = turn.answered,
                 !.savedAs = turn.savedAs, !.overran = turn.overran]
\* A turn whose caller is answered while its loop goes on.
GoingOn(turn) ==
  [NoTurn EXCEPT !.phase = "late", !.chat = turn.chat, !.session = turn.session, !.overran = TRUE]
NoResume == [phase |-> "unasked", session |-> NoSession, file |-> Missing]
GoneResume == [NoResume EXCEPT !.phase = "over"]

(***************************************************************************)
(* A context: the session's id, the turn that keeps its controller busy    *)
(* (0: none), its entries, the length of the message list of the last      *)
(* finalized turn, the turns its statistics count and the copy of them     *)
(* that is saved.  Of messages, answers and results are not counted.       *)
(***************************************************************************)
MessageCount(history) ==
  1 + (IF history.summary = 0 THEN 0 ELSE 1) + Cardinality(history.asked)

\* Mutant: the stored entries are left out, as if the file had messages only.
ContextWithoutEntries(session, file) ==
  [session |-> session, busy |-> 0, entries |-> Fresh,
   messages |-> MessageCount(Fresh), stats |-> file.stats, statsData |-> file.stats]

Context(session, file) ==
  [session |-> session, busy |-> 0, entries |-> file.history,
   messages |-> MessageCount(file.history), stats |-> file.stats, statsData |-> file.stats]

Live(t) == turns[t].phase \in {"running", "saving"}

\* The loop of a turn that timed out goes on; "late": it shares the entries of
\* its context still, "adrift": the context has other entries now.
Late(t) == turns[t].phase \in {"late", "adrift"}

\* The entries of context c are replaced by an array of its own.
Detached(c, given) ==
  [t \in Turns |-> IF given[t].phase = "late" /\ given[t].chat = c
                   THEN [given[t] EXCEPT !.phase = "adrift"] ELSE given[t]]

\* The busy flag of the controller on show, from submitTurn to its finally.
Busy == chats[current].busy # 0

\* The finally of submitTurn: the flag of the turn's own controller, which may
\* no longer be the context's, is lowered.
Idle(t, contexts) ==
  [contexts EXCEPT ![turns[t].chat].busy = IF @ = t THEN 0 ELSE @]

\* Every trace event and every render copies the statistics of the session on show.
Synced(contexts) ==
  [contexts EXCEPT ![current].statsData = contexts[current].stats]

\* randomUUID: an id no file, context or turn has.
Unused(s) ==
  /\ store[s].state = "missing"
  /\ \A c \in DOMAIN chats : chats[c].session # s
  /\ \A t \in Turns : turns[t].phase # "unasked" => turns[t].session # s

WebChatInit ==
  /\ store = [s \in Sessions |-> Missing]
  /\ chats = <<>>
  /\ current = 0
  /\ turns = [t \in Turns |-> NoTurn]
  /\ resumes = [r \in Resumes |-> NoResume]
  /\ forked = {}

-----------------------------------------------------------------------------
(* Start and crash.                                                          *)

\* start: the session named on the command line, which may have no file yet,
\* or a new one; a torn file makes JSON.parse throw and the server not start.
Start(s) ==
  /\ current = 0
  /\ store[s].state # "torn"
  /\ chats' = <<Context(s, store[s])>>
  /\ current' = 1
  /\ UNCHANGED <<store, turns, resumes, forked>>

\* writeFile truncates the file and then writes it, so until it is done the file
\* is as it was, torn or complete.
Writes(s) == {t \in Turns : turns[t].phase = "saving" /\ turns[t].savedAs = s}
Outcomes(s) ==
  {store[s]} \cup {turns[t].file : t \in Writes(s)} \cup (IF Writes(s) = {} THEN {} ELSE {Torn})

Crash ==
  /\ current # 0
  /\ \E files \in [Sessions -> UNION {Outcomes(s) : s \in Sessions}] :
       /\ \A s \in Sessions : files[s] \in Outcomes(s)
       /\ store' = files
  /\ turns' = [t \in Turns |-> IF Live(t) \/ Late(t) THEN Closed(turns[t], "lost") ELSE turns[t]]
  /\ resumes' = [r \in Resumes |->
                   IF resumes[r].phase \in {"asked", "read"} THEN GoneResume ELSE resumes[r]]
  /\ chats' = <<>>
  /\ current' = 0
  /\ UNCHANGED forked

-----------------------------------------------------------------------------
(* Turns.                                                                    *)

\* submit and runChatTurn up to runSession: the question is pushed on the
\* entries, which the running session shares with its context, and run_start
\* is recorded and counted.
Asked(t, history) == [history EXCEPT !.asked = @ \cup {t}]
Asking(t, context) ==
  [context EXCEPT !.entries = Asked(t, context.entries), !.busy = t, !.stats = @ \cup {t}]

Submit(t) ==
  /\ current # 0
  /\ turns[t].phase = "unasked"
  /\ \A u \in Turns : u < t => turns[u].phase # "unasked"
  /\ ~Busy
  /\ turns' = [turns EXCEPT ![t] =
                 [NoTurn EXCEPT !.phase = "running", !.chat = current,
                                !.session = chats[current].session,
                                !.start = chats[current].messages]]
  /\ chats' = Synced([chats EXCEPT ![current] = Asking(t, @)])
  /\ UNCHANGED <<store, current, resumes, forked>>

\* The interrupt of a client reaches the turn of the controller now attached,
\* which is busy until its save is done.
Interrupt(t) ==
  /\ Live(t)
  /\ ~turns[t].aborted
  /\ current # 0
  /\ chats[current].busy = t
  /\ turns' = [turns EXCEPT ![t].aborted = TRUE]
  /\ chats' = Synced(chats)
  /\ UNCHANGED <<store, current, resumes, forked>>

\* An event of the turn is counted in its own context, and the copy is taken
\* for the one on show.
Counted(t, contexts) ==
  Synced([contexts EXCEPT ![turns[t].chat].stats = @ \cup {t}])

\* summarizeCompletedSession: the summary holds the last question and answer.
Summarised(t, history) == [summary |-> t, asked |-> {}, late |-> {}]

\* finalizeChatTurn up to its await: the context takes the session's messages
\* and entries, and the file's new content is fixed.
Finalize(t, history, answered, given) ==
  LET c == turns[t].chat
      counted == Counted(t, chats)
  IN  /\ chats' = [counted EXCEPT ![c] = [@ EXCEPT !.entries = history,
                                                  !.messages = MessageCount(history)]]
      /\ turns' = [given EXCEPT ![t] =
                      [@ EXCEPT !.phase = "saving", !.answered = answered,
                                !.savedAs = counted[c].session,
                                !.file = Whole(history, counted[c].statsData)]]

\* An abort that comes too late does not change the answer.  The summary goes to
\* an array of its own; nothing is summarised when the session has no answer
\* with text, reasoning or calls.
RunAnswers(t) ==
  /\ turns[t].phase = "running"
  /\ LET entries == chats[turns[t].chat].entries
     IN \/ Finalize(t, Summarised(t, entries), TRUE, Detached(turns[t].chat, turns))
        \/ Finalize(t, entries, TRUE, turns)
  /\ UNCHANGED <<store, current, resumes, forked>>

\* Any error of an aborted turn but the timeout's.
RunInterrupted(t) ==
  /\ turns[t].phase = "running"
  /\ turns[t].aborted
  /\ Finalize(t, chats[turns[t].chat].entries, FALSE, turns)
  /\ UNCHANGED <<store, current, resumes, forked>>

\* Nothing is saved; the question stays in the shared entries and is not among
\* the context's messages.
RunErrors(t) ==
  /\ turns[t].phase = "running"
  /\ ~turns[t].aborted
  /\ chats' = Idle(t, Counted(t, chats))
  /\ turns' = [turns EXCEPT ![t] = Closed(@, "over")]
  /\ UNCHANGED <<store, current, resumes, forked>>

\* The runtime's timeout, aborted or not: the caller is answered as after an
\* error, and the loop goes on.
RunTimesOut(t) ==
  /\ turns[t].phase = "running"
  /\ chats' = Idle(t, Counted(t, chats))
  /\ turns' = [turns EXCEPT ![t] = GoingOn(@)]
  /\ UNCHANGED <<store, current, resumes, forked>>

\* What a loop that goes on reports is counted in its context.
LateEvent(t) ==
  /\ Late(t)
  /\ chats' = Counted(t, chats)
  /\ UNCHANGED <<store, current, turns, resumes, forked>>

\* A file that is not written before its directory is made has it too.
WithLate(t) ==
  [u \in Turns |-> IF turns[u].phase = "saving" /\ turns[u].chat = turns[t].chat
                   THEN [turns[u] EXCEPT !.file.history.late = @ \cup {t}] ELSE turns[u]]

\* An answer or a result of it is appended to the entries, too.
LateResult(t) ==
  /\ turns[t].phase = "late"
  /\ chats' = Counted(t, [chats EXCEPT ![turns[t].chat].entries.late = @ \cup {t}])
  /\ turns' \in {turns, WithLate(t)}
  /\ UNCHANGED <<store, current, resumes, forked>>

\* The loop meets the abort or ends; nobody hears of it.
LateEnd(t) ==
  /\ Late(t)
  /\ turns' = [turns EXCEPT ![t] = Closed(@, "over")]
  /\ UNCHANGED <<store, chats, current, resumes, forked>>

\* Two saves of one session at a time write over each other.
SaveDone(t) ==
  /\ turns[t].phase = "saving"
  /\ \E file \in {turns[t].file} \cup (IF Writes(turns[t].savedAs) = {t} THEN {} ELSE {Torn}) :
       store' = [store EXCEPT ![turns[t].savedAs] = file]
  /\ turns' = [turns EXCEPT ![t] = Closed(@, "over")]
  /\ chats' = Idle(t, Synced(chats))
  /\ UNCHANGED <<current, resumes, forked>>

\* saveSession throws.  The catch of runChatTurn takes the failed save of an
\* answered turn for an interrupt when it was aborted meanwhile, and saves again;
\* else it records a second run_end.
SaveFails(t) ==
  /\ turns[t].phase = "saving"
  /\ \E file \in {store[turns[t].savedAs], Torn} :
       store' = [store EXCEPT ![turns[t].savedAs] = file]
  /\ \/ /\ turns[t].answered /\ turns[t].aborted
        /\ Finalize(t, chats[turns[t].chat].entries, FALSE, turns)
     \/ /\ ~(turns[t].answered /\ turns[t].aborted)
        /\ turns' = [turns EXCEPT ![t] = [Closed(@, "over") EXCEPT !.answered = FALSE]]
        /\ chats' = Idle(t, IF turns[t].answered THEN Counted(t, chats) ELSE Synced(chats))
  /\ UNCHANGED <<current, resumes, forked>>

-----------------------------------------------------------------------------
(* Sessions.                                                                 *)

\* Mutant: the statistics of the old session stay.
StartNewSessionKeepingStats(s, contexts) ==
  [contexts EXCEPT ![current] =
     [@ EXCEPT !.session = s, !.busy = 0, !.entries = Fresh,
               !.messages = MessageCount(Fresh)]]

\* newSession: the check and the change are one synchronous step.  The context
\* gets entries and a controller of its own.
StartNewSession(s, contexts) ==
  [contexts EXCEPT ![current] =
     [@ EXCEPT !.session = s, !.busy = 0, !.entries = Fresh,
               !.messages = MessageCount(Fresh), !.stats = {}]]

\* Mutant: the server does not ask whether a turn is running.
NewSessionWhileBusy(s) ==
  /\ current # 0
  /\ Unused(s)
  /\ chats' = StartNewSession(s, chats)
  /\ turns' = Detached(current, turns)
  /\ UNCHANGED <<store, current, resumes, forked>>

NewSession(s) ==
  /\ current # 0
  /\ ~Busy
  /\ Unused(s)
  /\ chats' = StartNewSession(s, chats)
  /\ turns' = Detached(current, turns)
  /\ UNCHANGED <<store, current, resumes, forked>>

\* resumeSession checks that no turn is running ...
RequestResume(r, s) ==
  /\ current # 0
  /\ resumes[r].phase = "unasked"
  /\ \A q \in Resumes : q < r => resumes[q].phase # "unasked"
  /\ ~Busy
  /\ resumes' = [resumes EXCEPT ![r] = [NoResume EXCEPT !.phase = "asked", !.session = s]]
  /\ UNCHANGED <<store, chats, current, turns, forked>>

\* ... reads the file, which a save may be writing ...
ReadStored(r) ==
  /\ resumes[r].phase = "asked"
  /\ \E file \in Outcomes(resumes[r].session) :
       resumes' = [resumes EXCEPT ![r] =
                     IF file.state = "whole" THEN [@ EXCEPT !.phase = "read", !.file = file]
                     ELSE GoneResume]
  /\ UNCHANGED <<store, chats, current, turns, forked>>

\* ... and, when the bundle has been loaded too, puts a context of its own on
\* show, whatever has begun meanwhile.  The replaced context is not closed.
FinishResume(r) ==
  /\ resumes[r].phase = "read"
  /\ chats' = Append(chats, Context(resumes[r].session, resumes[r].file))
  /\ current' = Len(chats) + 1
  /\ resumes' = [resumes EXCEPT ![r] = GoneResume]
  /\ forked' = IF \/ store[resumes[r].session] # resumes[r].file
                  \/ \E t \in Turns : Live(t) /\ turns[t].session = resumes[r].session
               THEN forked \cup {resumes[r].session}
               ELSE forked
  /\ UNCHANGED <<store, turns>>

\* Loading the agent bundle throws; the chat on show stays.
ResumeFails(r) ==
  /\ resumes[r].phase = "read"
  /\ resumes' = [resumes EXCEPT ![r] = GoneResume]
  /\ UNCHANGED <<store, chats, current, turns, forked>>

TurnStep(t) ==
  \/ Submit(t) \/ Interrupt(t)
  \/ RunAnswers(t) \/ RunInterrupted(t) \/ RunErrors(t) \/ RunTimesOut(t)
  \/ LateEvent(t) \/ LateResult(t) \/ LateEnd(t)
  \/ SaveDone(t) \/ SaveFails(t)

WebChatNext ==
  \/ \E s \in Sessions : Start(s) \/ NewSession(s)
  \/ \E t \in Turns : TurnStep(t)
  \/ \E r \in Resumes :
       \/ ReadStored(r) \/ FinishResume(r) \/ ResumeFails(r)
       \/ \E s \in Sessions : RequestResume(r, s)
  \/ Crash

WebChatSpec == WebChatInit /\ [][WebChatNext]_vars

-----------------------------------------------------------------------------
(* Properties.                                                               *)

\* Types; the message list of a context is never longer than its entries.
WebChatTypeOK ==
  /\ store \in [Sessions -> Files]
  /\ current \in 0 .. Len(chats)
  /\ forked \subseteq Sessions
  /\ \A c \in DOMAIN chats :
       /\ chats[c].session \in Sessions
       /\ chats[c].entries \in Histories /\ chats[c].messages \in Nat
       /\ chats[c].stats \subseteq Turns /\ chats[c].statsData \subseteq Turns
       /\ chats[c].messages <= MessageCount(chats[c].entries)
  /\ \A t \in Turns :
       /\ turns[t].phase \in {"unasked", "running", "saving", "late", "adrift", "over", "lost"}
       /\ turns[t].file \in Files
       /\ Live(t) \/ Late(t) => turns[t].chat \in DOMAIN chats
  /\ \A r \in Resumes :
       /\ resumes[r].phase \in {"unasked", "asked", "read", "over"}
       /\ resumes[r].file \in Files

\* At most one turn at a time holds a context, its save included, and it
\* belongs to the controller attached last, so that an interrupt can reach it
\* (server.ts:167, turn-controller.ts:74).  Whatever else still writes to the
\* context's entries is the loop of a turn that timed out, asked in the very
\* session the context shows (startNewChatSession takes a new array).
SerialInContext ==
  \A t, u \in Turns :
    /\ Live(t) =>
         /\ chats[turns[t].chat].busy = t
         /\ Live(u) /\ turns[u].chat = turns[t].chat => u = t
    /\ turns[t].phase = "late" =>
         turns[t].overran /\ chats[turns[t].chat].session = turns[t].session

AskedIn(s) == {t \in Turns : turns[t].phase # "unasked" /\ turns[t].session = s}
Overran == {t \in Turns : turns[t].overran}
Mentions(history) == history.asked \cup history.late \cup ({history.summary} \ {0})

\* A session's context and its file hold questions, late results and a summary
\* of turns asked in that session only, whatever new sessions, resumes, saves
\* and loops that go on overlap (startNewChatSession); their statistics count
\* no other turn that ended in time (resetChatState, syncStats).
SessionsNotMixed ==
  /\ \A c \in DOMAIN chats :
       /\ Mentions(chats[c].entries) \subseteq AskedIn(chats[c].session)
       /\ chats[c].stats \subseteq AskedIn(chats[c].session) \cup Overran
  /\ \A s \in Sessions :
       /\ Mentions(store[s].history) \subseteq AskedIn(s)
       /\ store[s].stats \subseteq AskedIn(s) \cup Overran

\* An answer whose save was reported done is in the file, in its entries or in
\* the summary made of them or of later ones, through any number of turns,
\* interrupts, resumes and crashes, as long as the file is whole and the session
\* was never put on show from an outdated read (finalizeChatTurn,
\* createChatServiceContext).
AnswersSurvive ==
  \A t \in Turns :
    LET s == turns[t].savedAs
    IN  turns[t].phase = "over" /\ turns[t].answered /\ s \notin forked /\ store[s].state = "whole"
          => store[s].history.summary >= t \/ t \in store[s].history.asked

\* "A turn is already running" (server.ts:187): the server does not put another
\* session on show while a turn runs.
OneTurnAtATime ==
  Cardinality({t \in Turns : Live(t)}) <= 1

\* "Extract durable long-term memories from the new conversation messages"
\* (memory/llm-extractor.ts:49): every answered turn gives the extractor at least
\* one message from startMessageIndex on.
EveryTurnOffered ==
  \A t \in Turns : turns[t].phase = "saving" /\ turns[t].answered =>
    turns[t].start < MessageCount(turns[t].file.history)
=============================================================================
