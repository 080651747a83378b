------------------------------- MODULE FileTools -------------------------------
(***************************************************************************)
(* write_file and edit_file (src/tools/mutating.ts) over the paths of      *)
(* src/tools/workspace.ts.  A call resolves its path, waits for its turn   *)
(* in the queue of that path, looks at the file, reads it if it edits, and *)
(* writes it; each of these is awaited, and other calls, the user's abort  *)
(* and the tool's timeout come in between.  The chain of promises in       *)
(* mutationQueues is the sequence of calls that wait for one path: the     *)
(* first holds it.                                                         *)
(***************************************************************************)
EXTENDS Naturals, Sequences

CONSTANTS FileCalls, Files, Missing, Torn

ASSUME FileAssumption ==
  Files # {} /\ Missing # Torn /\ {Missing, Torn} \cap Seq(FileCalls) = {}

VARIABLES
  stage,   \* what each call awaits
  kind,    \* the tool it calls
  target,  \* the path it has resolved
  queue,   \* mutationQueues: the calls that hold or wait for each path
  file,    \* the files: the calls each text came about by
  text,    \* what an edit has read
  ended    \* calls whose signal is aborted: by the user or by the tool's timeout

fileVars == <<stage, kind, target, queue, file, text, ended>>

FileStages == {"idle", "resolving", "queued", "looking", "reading", "writing", "done", "failed"}
Holding == {"looking", "reading", "writing"}
FileTexts == Seq(FileCalls)

FileInit ==
  /\ stage = [c \in FileCalls |-> "idle"]
  /\ kind = [c \in FileCalls |-> "write"]
  /\ target = [c \in FileCalls |-> CHOOSE f \in Files : TRUE]
  /\ queue = [f \in Files |-> <<>>]
  /\ file \in [Files -> {Missing, <<>>}]
  /\ text = [c \in FileCalls |-> <<>>]
  /\ ended = {}

Advance(c, s) == stage' = [stage EXCEPT ![c] = s]

Call(c, k, f) ==
  /\ stage[c] = "idle"
  /\ Advance(c, "resolving")
  /\ kind' = [kind EXCEPT ![c] = k]
  /\ target' = [target EXCEPT ![c] = f]
  /\ UNCHANGED <<queue, file, text, ended>>

\* An input that is refused, an aborted signal, or a path that is outside the
\* root, a symlink or, for an edit, not there.
Refused(c) ==
  /\ stage[c] = "resolving"
  /\ Advance(c, "failed")
  /\ UNCHANGED <<kind, target, queue, file, text, ended>>

Enqueue(c) ==
  /\ stage[c] = "resolving"
  /\ kind[c] = "edit" => file[target[c]] # Missing
  /\ Advance(c, "queued")
  /\ queue' = [queue EXCEPT ![target[c]] = Append(queue[target[c]], c)]
  /\ UNCHANGED <<kind, target, file, text, ended>>

\* Mutated form of Turn: a call does not wait.
AnyTurn(c) == TRUE

Turn(c) == queue[target[c]] # <<>> /\ Head(queue[target[c]]) = c

Release(c) == queue' = [queue EXCEPT ![target[c]] = Tail(queue[target[c]])]

\* Mutated form of Leave: a call that fails keeps the file.
LeaveUnreleased(c, s) ==
  /\ Advance(c, s)
  /\ queue' = IF s = "failed" THEN queue
              ELSE [queue EXCEPT ![target[c]] = Tail(queue[target[c]])]
  /\ UNCHANGED <<kind, target, text, ended>>

Leave(c, s) ==
  /\ Advance(c, s)
  /\ Release(c)
  /\ UNCHANGED <<kind, target, text, ended>>

(* The call's turn has come; it was aborted while it waited, or looks at   *)
(* the file.                                                               *)
EnterAborted(c) ==
  stage[c] = "queued" /\ Turn(c) /\ c \in ended /\ Leave(c, "failed") /\ UNCHANGED file

Enter(c) ==
  /\ stage[c] = "queued" /\ Turn(c) /\ c \notin ended
  /\ Advance(c, "looking")
  /\ UNCHANGED <<kind, target, queue, file, text, ended>>

\* It is a directory, a symlink or too large; or the signal was aborted before
\* the file is read; or the text to replace is not found exactly once.
GivesUp(c) ==
  /\ stage[c] = "looking" \/ (stage[c] = "reading" /\ kind[c] = "edit")
  /\ Leave(c, "failed") /\ UNCHANGED file

Read(c) ==
  /\ stage[c] = "looking" /\ kind[c] = "edit" /\ file[target[c]] # Missing
  /\ Advance(c, "reading")
  /\ text' = [text EXCEPT ![c] = file[target[c]]]
  /\ UNCHANGED <<kind, target, queue, file, ended>>

(* writeFile is under way; it knows no signal.                             *)
Write(c) ==
  /\ \/ stage[c] = "looking" /\ kind[c] = "write"
     \/ stage[c] = "reading" /\ kind[c] = "edit" /\ c \notin ended
  /\ Advance(c, "writing")
  /\ UNCHANGED <<kind, target, queue, file, text, ended>>

Written(c) ==
  /\ stage[c] = "writing"
  /\ file' = [file EXCEPT ![target[c]] =
                IF kind[c] = "write" THEN <<c>>
                ELSE IF text[c] = Torn THEN Torn ELSE Append(text[c], c)]
  /\ Leave(c, "done")

WriteFails(c) ==
  /\ stage[c] = "writing"
  /\ \/ file' = [file EXCEPT ![target[c]] = Torn]
     \/ UNCHANGED file
  /\ Leave(c, "failed")

(* The user aborts the run, or the registry gives the call up.             *)
End(c) ==
  /\ stage[c] \notin {"idle", "done", "failed"} /\ c \notin ended
  /\ ended' = ended \cup {c}
  /\ UNCHANGED <<stage, kind, target, queue, file, text>>

FileStep(c) ==
  \/ Refused(c) \/ Enqueue(c) \/ EnterAborted(c) \/ Enter(c) \/ GivesUp(c)
  \/ Read(c) \/ Write(c) \/ Written(c) \/ WriteFails(c)

FileNext ==
  \E c \in FileCalls :
    \/ \E k \in {"write", "edit"}, f \in Files : Call(c, k, f)
    \/ End(c)
    \/ FileStep(c)

FileSpec == FileInit /\ [][FileNext]_fileVars

\* File operations settle.
FileFairness == \A c \in FileCalls : WF_fileVars(FileStep(c))

-------------------------------------------------------------------------------
(* Type correctness.                                                       *)
FileTypeOK ==
  /\ stage \in [FileCalls -> FileStages]
  /\ kind \in [FileCalls -> {"write", "edit"}]
  /\ target \in [FileCalls -> Files]
  /\ queue \in [Files -> Seq(FileCalls)]
  /\ file \in [Files -> {Missing, Torn} \cup FileTexts]
  /\ text \in [FileCalls -> {Torn} \cup FileTexts]
  /\ ended \subseteq FileCalls

\* Calls on one path never overlap between looking at the file and writing it,
\* however their timeouts, aborts and failures fall; calls on other paths may.
OneAtATime ==
  \A c, d \in FileCalls :
    (stage[c] \in Holding /\ stage[d] \in Holding /\ target[c] = target[d]) => c = d

(* The files as what the tools promise.                                    *)
Atomic == INSTANCE AtomicFiles WITH content <- file

\* The calls implement atomic ones: no edit is written over a text other than
\* the one it was made from, so no call that took effect is lost.
RefinesAtomicFiles == Atomic!AtomicSpec
===============================================================================
