--------------------------------- MODULE Web ---------------------------------
(***************************************************************************)
(* The web chat from both ends: its sessions, turns and files on the       *)
(* server, and the log and the status a browser is shown of them.  WebChat *)
(* makes one step of a run that ChatView takes event by event; so one      *)
(* specification holds the two side by side, and a behaviour of it         *)
(* exercises one of them, whichever `side' says.                           *)
(***************************************************************************)
EXTENDS WebChat, ChatView

VARIABLE side   \* the side a behaviour exercises

webVars == <<side, vars, viewVars>>

WebInit == side \in {"sessions", "view"} /\ WebChatInit /\ ViewBlank

WebNext ==
  /\ UNCHANGED side
  /\ \/ side = "sessions" /\ WebChatNext /\ UNCHANGED viewVars
     \/ side = "view" /\ ViewNext /\ UNCHANGED vars

WebSpec == WebInit /\ [][WebNext]_webVars

-------------------------------------------------------------------------------
\* What a session was told is not lost (src/cli/chat-service.ts).
AnswersKept == WebChatTypeOK /\ AnswersSurvive
===============================================================================
