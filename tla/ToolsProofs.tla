------------------------------ MODULE ToolsProofs ------------------------------
(***************************************************************************)
(* Proofs about the parts that act for the model: the file tools, the bash *)
(* tool, web_fetch, the SOP engine, the MCP servers, the subagents and the *)
(* fitting of outputs, and about Tools, which holds them side by side.     *)
(* Every part has an inductive invariant of its own; ToolsRunsItsParts     *)
(* takes what it gives to the whole.                                       *)
(***************************************************************************)
EXTENDS Tools, ToolRegistryProofs, WellFoundedInduction

-------------------------------------------------------------------------------
(* Files.  OneAtATime is not inductive: it does not say that whoever works   *)
(* on a path is the first in its queue.  HeadHolds does, and Fresh that what *)
(* an edit has read is what still stands in the file.                        *)

HeadHolds ==
  \A c \in FileCalls : stage[c] \in Holding => Turn(c)

Fresh ==
  \A c \in FileCalls :
    kind[c] = "edit" /\ stage[c] \in {"reading", "writing"} => text[c] = file[target[c]]

FileInv == FileTypeOK /\ HeadHolds /\ Fresh

\* A call that goes from one stage to another leaves the others where they are.
LEMMA Advanced ==
  ASSUME FileTypeOK, NEW c \in FileCalls, NEW s \in FileStages, Advance(c, s)
  PROVE  /\ stage' \in [FileCalls -> FileStages]
         /\ stage'[c] = s
         /\ \A d \in FileCalls : d # c => stage'[d] = stage[d]
BY DEF FileTypeOK, Advance

\* A call that leaves takes its place at the head of one queue and no more.
LEMMA Left ==
  ASSUME FileTypeOK, NEW c \in FileCalls, NEW s \in FileStages, Leave(c, s), Turn(c)
  PROVE  /\ stage' \in [FileCalls -> FileStages]
         /\ stage'[c] = s
         /\ \A d \in FileCalls : d # c => stage'[d] = stage[d]
         /\ queue' \in [Files -> Seq(FileCalls)]
         /\ \A f \in Files : f # target[c] => queue'[f] = queue[f]
         /\ kind' = kind /\ target' = target /\ text' = text /\ ended' = ended
<1>1. /\ stage' \in [FileCalls -> FileStages] /\ stage'[c] = s
      /\ \A d \in FileCalls : d # c => stage'[d] = stage[d]
  BY Advanced DEF Leave
<1>2. target[c] \in Files /\ queue[target[c]] \in Seq(FileCalls) /\ queue[target[c]] # <<>>
  BY DEF FileTypeOK, Turn
<1>3. Tail(queue[target[c]]) \in Seq(FileCalls)
  BY <1>2
<1>4. /\ queue' \in [Files -> Seq(FileCalls)]
      /\ \A f \in Files : f # target[c] => queue'[f] = queue[f]
  BY <1>2, <1>3 DEF FileTypeOK, Leave, Release
<1>5. QED
  BY <1>1, <1>4 DEF Leave

\* Whoever works on a path has it to itself.
LEMMA HeadIsAlone == FileTypeOK /\ HeadHolds => OneAtATime
BY DEF HeadHolds, OneAtATime, Turn

\* The state the program starts in.
LEMMA FileInitially == FileInit => FileInv
<1> SUFFICES ASSUME FileInit PROVE FileInv
  OBVIOUS
<1>1. (CHOOSE f \in Files : TRUE) \in Files
  BY FileAssumption
<1>2. FileTypeOK
  <2>1. << >> \in FileTexts
    BY DEF FileTexts
  <2>2. stage \in [FileCalls -> FileStages]
    BY DEF FileInit, FileStages
  <2>3. kind \in [FileCalls -> {"write", "edit"}] /\ target \in [FileCalls -> Files]
    BY <1>1 DEF FileInit
  <2>4. queue \in [Files -> Seq(FileCalls)] /\ text \in [FileCalls -> {Torn} \cup FileTexts]
    BY <2>1 DEF FileInit, FileTexts
  <2>5. file \in [Files -> {Missing, Torn} \cup FileTexts]
    BY <2>1 DEF FileInit
  <2>6. QED
    BY <2>2, <2>3, <2>4, <2>5 DEF FileInit, FileTypeOK
<1>3. HeadHolds /\ Fresh
  BY DEF FileInit, HeadHolds, Fresh, Holding
<1>4. QED
  BY <1>2, <1>3 DEF FileInv

\* When the first in a queue leaves, nobody else is at work on its path, so
\* everybody else who is at work still heads a queue.
LEMMA LeavingKeepsHeads ==
  ASSUME FileTypeOK, HeadHolds, NEW c \in FileCalls, NEW s \in {"done", "failed"},
         Leave(c, s), Turn(c)
  PROVE  HeadHolds'
<1>1. s \in FileStages /\ s \notin Holding
  BY DEF FileStages, Holding
<1>2. SUFFICES ASSUME NEW d \in FileCalls, stage'[d] \in Holding
               PROVE  Turn(d)'
  BY DEF HeadHolds
<1>3. d # c /\ stage[d] \in Holding
  BY <1>1, <1>2, Left
<1>4. Turn(d)
  BY <1>3 DEF HeadHolds
<1>5. target[d] # target[c] /\ target[d] \in Files
  BY <1>3, <1>4 DEF Turn, FileTypeOK
<1>6. queue'[target[d]] = queue[target[d]] /\ target' = target
  BY <1>1, <1>5, Left
<1>7. QED
  BY <1>4, <1>6 DEF Turn

\* A step that changes neither queues nor targets, and lets only the first in a
\* queue get to work, leaves those at work at the heads of their queues.
LEMMA WorkingKeepsHeads ==
  ASSUME HeadHolds, UNCHANGED <<queue, target>>,
         \A d \in FileCalls : stage'[d] \in Holding => stage[d] \in Holding \/ Turn(d)
  PROVE  HeadHolds'
BY DEF HeadHolds, Turn

\* Every step keeps the invariant.
LEMMA FileInductive == FileInv /\ [FileNext]_fileVars => FileInv'
<1> SUFFICES ASSUME FileInv, [FileNext]_fileVars PROVE FileInv'
  OBVIOUS
<1> USE DEF FileInv
<1>1. ASSUME NEW c \in FileCalls, NEW k \in {"write", "edit"}, NEW f \in Files, Call(c, k, f)
      PROVE  FileInv'
  <2>1. /\ stage' \in [FileCalls -> FileStages] /\ stage'[c] = "resolving"
        /\ \A d \in FileCalls : d # c => stage'[d] = stage[d]
    BY <1>1, Advanced DEF Call, FileStages
  <2>2. /\ kind' \in [FileCalls -> {"write", "edit"}] /\ target' \in [FileCalls -> Files]
        /\ \A d \in FileCalls : d # c => kind'[d] = kind[d] /\ target'[d] = target[d]
        /\ UNCHANGED <<queue, file, text, ended>>
    BY <1>1 DEF Call, FileTypeOK
  <2>3. FileTypeOK'
    BY <2>1, <2>2 DEF FileTypeOK
  <2>4. HeadHolds'
    BY <2>1, <2>2 DEF HeadHolds, Turn, Holding
  <2>5. Fresh'
    BY <2>1, <2>2 DEF Fresh
  <2>6. QED
    BY <2>3, <2>4, <2>5
<1>2. ASSUME NEW c \in FileCalls, End(c) PROVE FileInv'
  BY <1>2 DEF End, FileTypeOK, HeadHolds, Turn, Fresh
<1>3. ASSUME NEW c \in FileCalls, Refused(c) PROVE FileInv'
  <2>1. /\ stage' \in [FileCalls -> FileStages] /\ stage'[c] = "failed"
        /\ \A d \in FileCalls : d # c => stage'[d] = stage[d]
    BY <1>3, Advanced DEF Refused, FileStages
  <2>2. UNCHANGED <<kind, target, queue, file, text, ended>>
    BY <1>3 DEF Refused
  <2>3. QED
    BY <2>1, <2>2 DEF FileTypeOK, HeadHolds, Turn, Fresh, Holding
<1>4. ASSUME NEW c \in FileCalls, Enqueue(c) PROVE FileInv'
  <2>1. /\ stage' \in [FileCalls -> FileStages] /\ stage'[c] = "queued"
        /\ \A d \in FileCalls : d # c => stage'[d] = stage[d]
    BY <1>4, Advanced DEF Enqueue, FileStages
  <2>2. UNCHANGED <<kind, target, file, text, ended>>
    BY <1>4 DEF Enqueue
  <2>3. target[c] \in Files /\ queue[target[c]] \in Seq(FileCalls)
    BY DEF FileTypeOK
  <2>4. Append(queue[target[c]], c) \in Seq(FileCalls)
    BY <2>3
  <2>5. /\ queue' \in [Files -> Seq(FileCalls)]
        /\ queue'[target[c]] = Append(queue[target[c]], c)
        /\ \A g \in Files : g # target[c] => queue'[g] = queue[g]
    BY <1>4, <2>3, <2>4 DEF Enqueue, FileTypeOK
  <2>6. FileTypeOK'
    BY <2>1, <2>2, <2>5 DEF FileTypeOK
  <2>7. HeadHolds'
    <3>1. SUFFICES ASSUME NEW d \in FileCalls, stage'[d] \in Holding PROVE Turn(d)'
      BY DEF HeadHolds
    <3>2. stage[d] \in Holding /\ Turn(d)
      BY <2>1, <3>1 DEF HeadHolds, Holding
    <3>3. target[d] \in Files /\ queue[target[d]] \in Seq(FileCalls)
      BY DEF FileTypeOK
    <3>4. CASE target[d] = target[c]
      <4>1. queue[target[d]] # <<>> /\ Head(queue[target[d]]) = d
        BY <3>2 DEF Turn
      <4>2. /\ Append(queue[target[d]], c) # <<>>
            /\ Head(Append(queue[target[d]], c)) = Head(queue[target[d]])
        BY <4>1, <3>3
      <4>3. QED
        BY <3>4, <4>1, <4>2, <2>2, <2>5 DEF Turn
    <3>5. CASE target[d] # target[c]
      BY <3>2, <3>3, <3>5, <2>2, <2>5 DEF Turn
    <3>6. QED
      BY <3>4, <3>5
  <2>8. Fresh'
    BY <2>1, <2>2 DEF Fresh
  <2>9. QED
    BY <2>6, <2>7, <2>8
<1>5. ASSUME NEW c \in FileCalls, EnterAborted(c) \/ GivesUp(c) PROVE FileInv'
  <2>1. Turn(c) /\ Leave(c, "failed") /\ file' = file
    BY <1>5 DEF EnterAborted, GivesUp, HeadHolds, Holding
  <2>2. "failed" \in FileStages
    BY DEF FileStages
  <2>3. FileTypeOK'
    BY <2>1, <2>2, Left DEF FileTypeOK
  <2>4. HeadHolds'
    BY <2>1, LeavingKeepsHeads
  <2>5. Fresh'
    BY <2>1, <2>2, Left DEF Fresh
  <2>6. QED
    BY <2>3, <2>4, <2>5
<1>6. ASSUME NEW c \in FileCalls, Enter(c) PROVE FileInv'
  <2>1. /\ stage' \in [FileCalls -> FileStages] /\ stage'[c] = "looking"
        /\ \A d \in FileCalls : d # c => stage'[d] = stage[d]
    BY <1>6, Advanced DEF Enter, FileStages
  <2>2. Turn(c) /\ UNCHANGED <<kind, target, queue, file, text, ended>>
    BY <1>6 DEF Enter
  <2>3. FileTypeOK'
    BY <2>1, <2>2 DEF FileTypeOK
  <2>4. HeadHolds'
    BY <2>1, <2>2, WorkingKeepsHeads
  <2>5. Fresh'
    BY <2>1, <2>2 DEF Fresh
  <2>6. QED
    BY <2>3, <2>4, <2>5
<1>7. ASSUME NEW c \in FileCalls, Read(c) PROVE FileInv'
  <2>1. /\ stage' \in [FileCalls -> FileStages] /\ stage'[c] = "reading"
        /\ \A d \in FileCalls : d # c => stage'[d] = stage[d]
    BY <1>7, Advanced DEF Read, FileStages
  <2>2. /\ Turn(c) /\ UNCHANGED <<kind, target, queue, file, ended>>
    BY <1>7 DEF Read, HeadHolds, Holding
  <2>3. file[target[c]] \in {Torn} \cup FileTexts
    BY <1>7 DEF Read, FileTypeOK
  <2>4. /\ text' \in [FileCalls -> {Torn} \cup FileTexts]
        /\ text'[c] = file[target[c]]
        /\ \A d \in FileCalls : d # c => text'[d] = text[d]
    BY <1>7, <2>3 DEF Read, FileTypeOK
  <2>5. FileTypeOK'
    BY <2>1, <2>2, <2>4 DEF FileTypeOK
  <2>6. HeadHolds'
    BY <2>1, <2>2, WorkingKeepsHeads
  <2>7. Fresh'
    BY <2>1, <2>2, <2>4 DEF Fresh
  <2>8. QED
    BY <2>5, <2>6, <2>7
<1>8. ASSUME NEW c \in FileCalls, Write(c) PROVE FileInv'
  <2>1. /\ stage' \in [FileCalls -> FileStages] /\ stage'[c] = "writing"
        /\ \A d \in FileCalls : d # c => stage'[d] = stage[d]
    BY <1>8, Advanced DEF Write, FileStages
  <2>2. /\ Turn(c) /\ UNCHANGED <<kind, target, queue, file, text, ended>>
        /\ kind[c] = "edit" => stage[c] = "reading"
    BY <1>8 DEF Write, HeadHolds, Holding
  <2>3. FileTypeOK'
    BY <2>1, <2>2 DEF FileTypeOK
  <2>4. HeadHolds'
    BY <2>1, <2>2, WorkingKeepsHeads
  <2>5. Fresh'
    BY <2>1, <2>2 DEF Fresh
  <2>6. QED
    BY <2>3, <2>4, <2>5
<1>9. ASSUME NEW c \in FileCalls, Written(c) \/ WriteFails(c) PROVE FileInv'
  <2>1. PICK s \in {"done", "failed"} : Leave(c, s)
    BY <1>9 DEF Written, WriteFails
  <2>2. /\ stage[c] = "writing" /\ s \in FileStages
        /\ Turn(c) /\ target[c] \in Files
    BY <1>9 DEF Written, WriteFails, HeadHolds, Holding, FileStages, FileTypeOK
  <2>3. PICK x \in {Torn} \cup FileTexts :
          file' = file \/ file' = [file EXCEPT ![target[c]] = x]
    <3>1. <<c>> \in FileTexts
      BY DEF FileTexts
    <3>2. text[c] # Torn => Append(text[c], c) \in FileTexts
      BY DEF FileTypeOK, FileTexts
    <3>3. QED
      BY <1>9, <3>1, <3>2 DEF Written, WriteFails
  <2>4. /\ file' \in [Files -> {Missing, Torn} \cup FileTexts]
        /\ \A f \in Files : f # target[c] => file'[f] = file[f]
    <3>1. file \in [Files -> {Missing, Torn} \cup FileTexts]
      BY DEF FileTypeOK
    <3>2. x \in {Missing, Torn} \cup FileTexts
      OBVIOUS
    <3>3. CASE file' = file
      BY <3>1, <3>3
    <3>4. CASE file' = [file EXCEPT ![target[c]] = x]
      BY <2>2, <3>1, <3>2, <3>4
    <3>5. QED
      BY <2>3, <3>3, <3>4
  <2>5. FileTypeOK'
    BY <2>1, <2>2, <2>4, Left DEF FileTypeOK
  <2>6. HeadHolds'
    BY <2>1, <2>2, LeavingKeepsHeads
  <2>7. Fresh'
    <3>1. SUFFICES ASSUME NEW d \in FileCalls, kind'[d] = "edit",
                          stage'[d] \in {"reading", "writing"}
                   PROVE  text'[d] = file'[target'[d]]
      BY DEF Fresh
    <3>2. /\ stage'[c] = s /\ (d # c => stage'[d] = stage[d])
          /\ kind' = kind /\ target' = target /\ text' = text
      BY <2>1, <2>2, Left
    <3>3. d # c /\ stage[d] \in {"reading", "writing"} /\ kind[d] = "edit"
      BY <3>1, <3>2
    <3>4. Turn(d)
      BY <3>3 DEF HeadHolds, Holding
    <3>5. target[d] # target[c] /\ target[d] \in Files
      BY <3>3, <3>4, <2>2 DEF Turn, FileTypeOK
    <3>6. text[d] = file[target[d]]
      BY <3>3 DEF Fresh
    <3>7. QED
      BY <2>4, <3>2, <3>5, <3>6
  <2>8. QED
    BY <2>5, <2>6, <2>7
<1>10. CASE UNCHANGED fileVars
  BY <1>10 DEF fileVars, FileTypeOK, HeadHolds, Turn, Fresh
<1>11. QED
  BY <1>1, <1>2, <1>3, <1>4, <1>5, <1>6, <1>7, <1>8, <1>9, <1>10 DEF FileNext, FileStep

\* Stages, queues, files and what edits have read stay of their kinds.
THEOREM FilesTyped == FileSpec => []FileTypeOK
<1>1. FileInv => FileTypeOK
  BY DEF FileInv
<1>2. QED
  BY <1>1, FileInitially, FileInductive, PTL DEF FileSpec

\* However many calls wait for a path, and whichever of them are aborted, given
\* up or fail, one at a time is at work on it (withPathQueue in src/tools/mutating.ts).
THEOREM FilesOneAtATime == FileSpec => []OneAtATime
<1>1. FileInv => OneAtATime
  BY HeadIsAlone DEF FileInv
<1>2. QED
  BY <1>1, FileInitially, FileInductive, PTL DEF FileSpec

\* What a call does to the files is a step of the promise, or nothing.
LEMMA FileStepsAtomic == FileInv /\ [FileNext]_fileVars => [Atomic!AtomicNext]_file
<1> SUFFICES ASSUME FileInv, [FileNext]_fileVars, file' # file PROVE Atomic!AtomicNext
  OBVIOUS
<1>1. PICK c \in FileCalls : Written(c) \/ WriteFails(c)
  BY DEF FileNext, FileStep, fileVars, Call, End, Refused, Enqueue, EnterAborted, Enter,
         GivesUp, Read, Write
<1>2. target[c] \in Files /\ kind[c] \in {"write", "edit"} /\ stage[c] = "writing"
  BY <1>1 DEF FileInv, FileTypeOK, Written, WriteFails
<1>3. CASE WriteFails(c)
  <2>1. Atomic!Damaged(target[c])
    BY <1>3 DEF WriteFails, Atomic!Damaged
  <2>2. QED
    BY <1>2, <2>1 DEF Atomic!AtomicNext
<1>4. CASE Written(c) /\ kind[c] = "write"
  <2>1. Atomic!Replaced(target[c], c)
    BY <1>4 DEF Written, Atomic!Replaced
  <2>2. QED
    BY <1>2, <2>1 DEF Atomic!AtomicNext
<1>5. CASE Written(c) /\ kind[c] = "edit" /\ text[c] = Torn
  <2>1. Atomic!Damaged(target[c])
    BY <1>5 DEF Written, Atomic!Damaged
  <2>2. QED
    BY <1>2, <2>1 DEF Atomic!AtomicNext
<1>6. CASE Written(c) /\ kind[c] = "edit" /\ text[c] # Torn
  <2>1. text[c] = file[target[c]] /\ text[c] \in FileTexts
    BY <1>2, <1>6 DEF FileInv, Fresh, FileTypeOK
  <2>2. Atomic!Edited(target[c], c)
    BY <1>6, <2>1 DEF Written, Atomic!Edited, Atomic!Texts, FileTexts
  <2>3. QED
    BY <1>2, <2>2 DEF Atomic!AtomicNext
<1>7. QED
  BY <1>1, <1>2, <1>3, <1>4, <1>5, <1>6

\* The calls of write_file and edit_file implement atomic ones, for any numbers of
\* calls and files: no edit is lost under another.
THEOREM FilesAtomic == FileSpec => RefinesAtomicFiles
<1>1. FileInit => Atomic!AtomicInit
  <2>1. << >> \in Seq(FileCalls)
    OBVIOUS
  <2>2. FileInit => file \in [Files -> {Missing} \cup Seq(FileCalls)]
    BY <2>1 DEF FileInit
  <2>3. QED
    BY <2>2 DEF Atomic!AtomicInit, Atomic!Texts
<1>2. QED
  BY <1>1, FileInitially, FileInductive, FileStepsAtomic, PTL
     DEF FileSpec, RefinesAtomicFiles, Atomic!AtomicSpec


-------------------------------------------------------------------------------
(* Commands.                                                                 *)

\* Why an abort reaches the child: the listener is there as long as the signal
\* can still be aborted, and it and the timer live no longer than the promise.
CommandInv ==
  /\ BashTypeOK /\ CommandAccounted
  /\ bashStage = "blank" => process = "none" /\ ~truncated /\ ~timedOut
  /\ bashStage = "running" => process = "alive" /\ (listening <=> ~aborted)
  /\ bashStage = "resolved" => process = "gone"
  /\ timer \/ listening => bashStage = "running"

LEMMA BashInitHolds == BashInit => CommandInv
<1> SUFFICES ASSUME BashInit PROVE CommandInv
  OBVIOUS
<1>1. 0 \in 0 .. MaxOutput /\ 0 # MaxOutput
  BY BashAssumption
<1>2. BashTypeOK
  <2>1. {killed, truncated, timedOut, timer, listening, aborted} \subseteq {FALSE}
    BY DEF BashInit
  <2>2. 0 \in 0 .. 1 /\ {FALSE} \subseteq BOOLEAN
    OBVIOUS
  <2>3. {killed, truncated, timedOut, timer, listening, aborted} \subseteq BOOLEAN
    BY <2>1, <2>2
  <2>4. QED
    BY <1>1, <2>2, <2>3 DEF BashInit, BashTypeOK
<1>3. CommandAccounted
  BY <1>1 DEF BashInit, CommandAccounted
<1>4. QED
  BY <1>2, <1>3 DEF BashInit, CommandInv

\* What a chunk adds to the output stays within the limit, and nothing is left
\* out before the limit is reached.
LEMMA OutputKeeps ==
  ASSUME CommandInv, NEW n \in 1 .. MaxChunk, Output(n)
  PROVE  CommandInv'
<1> DEFINE piece == Smaller(n, MaxOutput - outputBytes)
           limit == outputBytes < MaxOutput /\ (n > piece \/ outputBytes + piece = MaxOutput)
<1>1. /\ process = "alive" /\ bashStage = "running"
      /\ outputBytes' = outputBytes + piece
      /\ lost' = Smaller(lost + n - piece, 1)
      /\ truncated' = (truncated \/ limit)
      /\ killed' = (killed \/ limit)
      /\ UNCHANGED <<bashStage, process, timedOut, timer, listening, aborted>>
  BY DEF Output
<1>2. /\ outputBytes \in 0 .. MaxOutput /\ lost \in 0 .. 1 /\ n \in 1 .. MaxChunk
      /\ MaxOutput \in Nat \ {0} /\ MaxChunk \in Nat
  BY BashAssumption DEF CommandInv, BashTypeOK
<1>3. /\ piece \in 0 .. (MaxOutput - outputBytes) /\ piece <= n
      /\ piece < n => outputBytes + piece = MaxOutput
  BY <1>2 DEF Smaller
<1>4. outputBytes' \in 0 .. MaxOutput /\ lost' \in 0 .. 1 /\ (piece = n => lost' = lost)
  BY <1>1, <1>2, <1>3 DEF Smaller
<1>5. /\ truncated \in BOOLEAN /\ killed \in BOOLEAN
      /\ truncated <=> outputBytes = MaxOutput
      /\ lost > 0 => truncated
  BY DEF CommandInv, BashTypeOK, CommandAccounted
<1>6. (truncated \/ limit) <=> outputBytes + piece = MaxOutput
  BY <1>2, <1>3, <1>5
<1>7. truncated' <=> outputBytes' = MaxOutput
  BY <1>1, <1>6
<1>8. lost' > 0 => truncated'
  <2>1. CASE piece = n
    BY <1>1, <1>4, <1>5, <2>1
  <2>2. CASE piece # n
    <3>1. outputBytes + piece = MaxOutput
      BY <1>2, <1>3, <2>2
    <3>2. QED
      BY <1>1, <1>6, <3>1
  <2>3. QED
    BY <2>1, <2>2
<1>9. {killed', truncated', timedOut', timer', listening', aborted'} \subseteq BOOLEAN
  BY <1>1, <1>5 DEF CommandInv, BashTypeOK
<1>10. truncated' \/ timedOut' \/ (aborted' /\ process' = "alive") => killed'
  BY <1>1 DEF CommandInv, CommandAccounted
<1>11. QED
  BY <1>1, <1>4, <1>7, <1>8, <1>9, <1>10 DEF CommandInv, BashTypeOK, CommandAccounted

LEMMA BashStepKeeps == CommandInv /\ [BashNext]_bashVars => CommandInv'
<1> SUFFICES ASSUME CommandInv, [BashNext]_bashVars PROVE CommandInv'
  OBVIOUS
<1> USE DEF CommandInv, BashTypeOK, CommandAccounted
<1>1. CASE Decline
  BY <1>1 DEF Decline
<1>2. CASE Spawn
  BY <1>2 DEF Spawn
<1>3. CASE TimerFires
  BY <1>3 DEF TimerFires
<1>4. CASE BashAbort
  BY <1>4 DEF BashAbort
<1>5. CASE Close
  BY <1>5 DEF Close
<1>6. CASE SpawnError
  BY <1>6 DEF SpawnError
<1>7. CASE LateClose
  BY <1>7 DEF LateClose
<1>8. CASE \E n \in 1 .. MaxChunk : Output(n)
  BY <1>8, OutputKeeps
<1>9. CASE UNCHANGED bashVars
  BY <1>9 DEF bashVars
<1>10. QED
  BY <1>1, <1>2, <1>3, <1>4, <1>5, <1>6, <1>7, <1>8, <1>9 DEF BashNext

\* Whatever the child writes, and whenever the timer fires, the child ends or the
\* user aborts: output is missing only if that is said, what was cut short was
\* told to stop, and a settled command can strike no other one.
THEOREM BashAccounted == BashSpec => [](BashTypeOK /\ CommandAccounted)
<1>1. CommandInv => BashTypeOK /\ CommandAccounted
  BY DEF CommandInv
<1>2. QED
  BY <1>1, BashInitHolds, BashStepKeeps, PTL DEF BashSpec

\* A nonempty set of positions has a least one; the search for a cut point
\* ends there at the latest.
LEMMA LeastExists ==
  ASSUME NEW S \in SUBSET Nat, S # {}
  PROVE  \E x \in S : \A y \in S : x <= y
<1> DEFINE R == OpToRel(<, Nat)
<1>1. \E x \in S : \A y \in S : ~ (<<y, x>> \in R)
  BY NatLessThanWellFounded, WFMin, Zenon
<1>2. \A x, y \in Nat : y < x => <<y, x>> \in R
  BY DEF OpToRel
<1>3. \E x \in S : \A y \in S : ~ (y < x)
  <2> HIDE DEF R
  <2> QED
    BY <1>1, <1>2, Zenon
<1>4. QED
  BY <1>3

-------------------------------------------------------------------------------
(* Fetches.                                                                  *)

\* The characters of a body, by their width.
Widths == {1, 3}

\* A body has so many bytes, and one more character adds its own.
LEMMA BytesOf ==
  ASSUME NEW body \in Seq(Widths)
  PROVE  /\ Bytes(body) \in Nat
         /\ \A n \in 0 .. Len(body) : Bytes(SubSeq(body, 1, n)) \in Nat
         /\ Bytes(SubSeq(body, 1, 0)) = 0
         /\ \A n \in 0 .. Len(body) : n < Len(body) =>
              Bytes(SubSeq(body, 1, n + 1)) = Bytes(SubSeq(body, 1, n)) + body[n + 1]
<1> DEFINE Wide(n) == {i \in 1 .. n : body[i] = 3}
<1>1. Len(body) \in Nat /\ DOMAIN body = 1 .. Len(body) /\ \A i \in 1 .. Len(body) : body[i] \in Widths
  OBVIOUS
<1>2. ASSUME NEW n \in 0 .. Len(body)
      PROVE  /\ Bytes(SubSeq(body, 1, n)) = n + 2 * Cardinality(Wide(n))
             /\ IsFiniteSet(Wide(n)) /\ Cardinality(Wide(n)) \in Nat
  <2>1. /\ Len(SubSeq(body, 1, n)) = n /\ DOMAIN SubSeq(body, 1, n) = 1 .. n
        /\ \A i \in 1 .. n : SubSeq(body, 1, n)[i] = body[i]
    BY <1>1
  <2>2. {i \in DOMAIN SubSeq(body, 1, n) : SubSeq(body, 1, n)[i] = 3} = Wide(n)
    BY <2>1
  <2>3. n \in Int /\ IsFiniteSet(1 .. n)
    BY <1>1, FS_Interval
  <2>4. IsFiniteSet(Wide(n))
    BY <2>3, FS_Subset
  <2>5. Cardinality(Wide(n)) \in Nat
    BY <2>4, FS_CardinalityType
  <2>6. QED
    BY <2>1, <2>2, <2>4, <2>5 DEF Bytes
<1>3. SubSeq(body, 1, Len(body)) = body
  BY <1>1
<1>4. Wide(0) = {} /\ Cardinality(Wide(0)) = 0
  BY FS_EmptySet
<1>5. ASSUME NEW n \in 0 .. Len(body), n < Len(body)
      PROVE  Bytes(SubSeq(body, 1, n + 1)) = Bytes(SubSeq(body, 1, n)) + body[n + 1]
  <2>1. n \in Nat /\ n + 1 \in 0 .. Len(body) /\ n + 1 \in 1 .. Len(body)
    BY <1>1, <1>5
  <2> DEFINE W == Cardinality(Wide(n))
             V == Cardinality(Wide(n + 1))
  <2>2. /\ Bytes(SubSeq(body, 1, n)) = n + 2 * W /\ W \in Nat
        /\ Bytes(SubSeq(body, 1, n + 1)) = (n + 1) + 2 * V
    BY <1>2, <2>1
  <2>3. CASE body[n + 1] = 3
    <3>1. Wide(n + 1) = Wide(n) \cup {n + 1} /\ n + 1 \notin Wide(n)
      BY <2>1, <2>3
    <3>2. V = W + 1
      BY <3>1, <1>2, FS_AddElement
    <3> HIDE DEF V, W
    <3>3. QED
      BY <2>1, <2>2, <2>3, <3>2
  <2>4. CASE body[n + 1] = 1
    <3>1. V = W
      <4>1. Wide(n + 1) = Wide(n)
        BY <2>1, <2>4
      <4>2. QED
        BY <4>1
    <3> HIDE DEF V, W
    <3>2. QED
      BY <2>1, <2>2, <2>4, <3>1
  <2>5. QED
    BY <1>1, <2>1, <2>3, <2>4 DEF Widths
<1>6. \A n \in 0 .. Len(body) : Bytes(SubSeq(body, 1, n)) \in Nat
  <2> HIDE DEF Wide
  <2> QED
    BY <1>2, <1>1
<1>7. Bytes(body) \in Nat
  <2>1. Len(body) \in 0 .. Len(body)
    BY <1>1
  <2>2. QED
    BY <1>3, <1>6, <2>1
<1>8. Bytes(SubSeq(body, 1, 0)) = 0
  BY <1>1, <1>2, <1>4
<1>9. QED
  BY <1>5, <1>6, <1>7, <1>8

\* Cut keeps as many whole characters as fit, and all of them if they do.
LEMMA CutFits ==
  ASSUME NEW body \in Seq(Widths)
  PROVE  /\ Cut(body) # body <=> Bytes(body) > MaxBytes
         /\ Bytes(Cut(body)) <= MaxBytes
         /\ Cut(body) # body => Bytes(Cut(body)) + body[Len(Cut(body)) + 1] > MaxBytes
<1> DEFINE fits == {n \in 0 .. Len(body) : Bytes(SubSeq(body, 1, n)) <= MaxBytes}
           cut == CHOOSE n \in fits : \A k \in fits : k <= n
           Cuts == {Len(body) - n : n \in fits}
<1>1. Len(body) \in Nat /\ MaxBytes \in Nat /\ SubSeq(body, 1, Len(body)) = body
  BY FetchAssumption
<1>2. 0 \in fits
  BY <1>1, BytesOf
<1>3. Cuts \in SUBSET Nat /\ Cuts # {}
  BY <1>1, <1>2
<1>4. PICK x \in Cuts : \A y \in Cuts : x <= y
  BY <1>3, LeastExists
<1>5. PICK m \in fits : x = Len(body) - m
  BY <1>4
<1>6. \A k \in fits : Len(body) - k \in Cuts
  OBVIOUS
<1> HIDE DEF Cuts
<1>7. \A k \in fits : k <= m
  BY <1>1, <1>4, <1>5, <1>6
<1>8. cut \in fits /\ \A k \in fits : k <= cut
  BY <1>7
<1>9. Cut(body) = SubSeq(body, 1, cut)
  BY DEF Cut
<1>10. fits \subseteq 0 .. Len(body) /\ \A n \in 0 .. Len(body) : Bytes(SubSeq(body, 1, n)) <= MaxBytes => n \in fits
  OBVIOUS
<1>11. Bytes(SubSeq(body, 1, cut)) <= MaxBytes
  BY <1>8
<1> HIDE DEF fits, cut
<1>12. cut \in Nat /\ cut \in 0 .. Len(body) /\ cut <= Len(body)
  BY <1>1, <1>8, <1>10
<1>13. Len(Cut(body)) = cut
  BY <1>1, <1>9, <1>12
<1>14. CASE cut = Len(body)
  <2>1. Cut(body) = body
    BY <1>1, <1>9, <1>14
  <2>2. Bytes(body) \in Nat /\ Bytes(body) <= MaxBytes
    BY <1>9, <1>11, <2>1, BytesOf
  <2>3. QED
    BY <1>1, <2>1, <2>2
<1>15. CASE cut # Len(body)
  <2>1. cut < Len(body) /\ cut + 1 \in 0 .. Len(body)
    <3>1. \A b, n \in Nat : b <= n /\ b # n => b < n /\ b + 1 \in 0 .. n
      OBVIOUS
    <3>2. QED
      BY <1>1, <1>12, <1>15, <3>1
  <2>2. ~ (Bytes(SubSeq(body, 1, cut + 1)) <= MaxBytes)
    <3>1. ~ (cut + 1 <= cut)
      BY <1>12
    <3>2. QED
      BY <1>8, <1>10, <2>1, <3>1
  <2>3. Bytes(SubSeq(body, 1, cut)) + body[cut + 1] > MaxBytes
    <3>1. Bytes(SubSeq(body, 1, cut + 1)) = Bytes(SubSeq(body, 1, cut)) + body[cut + 1]
      BY <1>12, <2>1, BytesOf
    <3>2. Bytes(SubSeq(body, 1, cut + 1)) \in Nat
      BY <2>1, BytesOf
    <3>3. QED
      BY <1>1, <2>2, <3>1, <3>2
  <2>4. ~ (Bytes(body) <= MaxBytes)
    <3>1. ~ (Len(body) <= cut) /\ Len(body) \in 0 .. Len(body)
      BY <1>1, <2>1, <1>12
    <3>2. QED
      BY <1>1, <1>8, <1>10, <3>1
  <2>5. Cut(body) # body
    BY <1>13, <1>15
  <2>6. Bytes(body) > MaxBytes
    BY <1>1, <2>4, BytesOf
  <2>7. QED
    BY <1>9, <1>11, <1>13, <2>3, <2>5, <2>6
<1>16. QED
  BY <1>14, <1>15

\* What is known of a fetch wherever it stands: it asks no other address than the
\* one it was given, the requests it sent are the attempts of this address and of
\* those before, and the request under way is the only one with a timer.
FetchInv ==
  /\ FetchTypeOK /\ NoTimerLeft /\ ReportsWhatItDid
  /\ address = "same" /\ attempts \in Nat /\ stopped \in BOOLEAN
  /\ fetchStage = "blank" => sent = 0 /\ attempts = 0 /\ attempt = 0
  /\ fetchStage \in {"attempt", "waiting"} =>
       /\ attempt > 0 /\ sent = attempts + attempt
       /\ attempts <= hop * (MaxRetries + 1)
  /\ fetchStage = "waiting" => attempt <= MaxRetries
  /\ fetchStage \in {"answered", "body", "returned"} => sent = attempts
  /\ sent \in 0 .. (hop + 1) * (MaxRetries + 1)

\* So many requests at most, for so many redirects.
LEMMA Product ==
  ASSUME NEW h \in Nat, NEW k \in Nat, NEW n \in Nat
  PROVE  /\ h * k \in Nat /\ (h + 1) * k = h * k + k
         /\ h <= n => (h + 1) * k <= (n + 1) * k
<1>1. /\ h * k \in Nat /\ (h + 1) * k = h * k + k
  OBVIOUS
<1>2. ASSUME h <= n PROVE (h + 1) * k <= (n + 1) * k
  <2>1. n - h \in Nat /\ (n - h) * k >= 0
    BY <1>2
  <2>2. (n + 1) * k = (h + 1) * k + (n - h) * k
    OBVIOUS
  <2> DEFINE p == (n - h) * k
             q == (h + 1) * k
  <2>3. p \in Int /\ q \in Int
    OBVIOUS
  <2> HIDE DEF p, q
  <2>4. QED
    BY <2>1, <2>2, <2>3 DEF p, q
<1>3. QED
  BY <1>1, <1>2

LEMMA FetchNumbers ==
  ASSUME FetchTypeOK
  PROVE  /\ MaxRetries \in Nat /\ MaxRedirects \in Nat /\ MaxBytes \in Nat
         /\ hop \in Nat /\ attempt \in Nat /\ hop <= MaxRedirects /\ attempt <= MaxRetries + 1
         /\ hop * (MaxRetries + 1) \in Nat
         /\ (hop + 1) * (MaxRetries + 1) = hop * (MaxRetries + 1) + (MaxRetries + 1)
<1>1. /\ MaxRetries \in Nat /\ MaxRedirects \in Nat /\ MaxBytes \in Nat
  BY FetchAssumption
<1>2. hop \in Nat /\ attempt \in Nat /\ hop <= MaxRedirects /\ attempt <= MaxRetries + 1
  BY <1>1 DEF FetchTypeOK
<1>3. MaxRetries + 1 \in Nat
  BY <1>1
<1>4. QED
  BY <1>1, <1>2, <1>3, Product

LEMMA FetchInitHolds == FetchInit => FetchInv
<1> SUFFICES ASSUME FetchInit PROVE FetchInv
  OBVIOUS
<1>1. /\ MaxRetries \in Nat /\ MaxRedirects \in Nat
  BY FetchAssumption
<1>2. FetchTypeOK
  BY <1>1 DEF FetchInit, FetchTypeOK, Addresses, Replies
<1>3. 0 \in 0 .. (hop + 1) * (MaxRetries + 1)
  BY <1>1, <1>2, FetchNumbers
<1>4. QED
  BY <1>2, <1>3 DEF FetchInit, FetchInv, NoTimerLeft, ReportsWhatItDid

\* Giving up leaves no timer.
LEMMA ThrowKeeps == FetchInv /\ Throw => FetchInv'
BY DEF FetchInv, Throw, FetchTypeOK, NoTimerLeft, ReportsWhatItDid

LEMMA WaitKeeps ==
  FetchInv /\ fetchStage = "attempt" /\ attempt <= MaxRetries /\ WaitAndRetry => FetchInv'
BY DEF FetchInv, WaitAndRetry, FetchTypeOK, NoTimerLeft, ReportsWhatItDid

LEMMA FetchStepKeeps == FetchInv /\ [FetchNext]_fetchVars => FetchInv'
<1> SUFFICES ASSUME FetchInv, [FetchNext]_fetchVars PROVE FetchInv'
  OBVIOUS
<1>1. FetchTypeOK
  BY DEF FetchInv
<1> DEFINE K == MaxRetries + 1
           P == hop * K
           Q == (hop + 1) * K
<1>2. /\ MaxRetries \in Nat /\ MaxRedirects \in Nat /\ K \in Nat
      /\ hop \in Nat /\ attempt \in Nat /\ hop <= MaxRedirects /\ attempt <= K
      /\ P \in Nat /\ Q = P + K
  BY <1>1, FetchNumbers
<1>3. /\ attempts \in Nat /\ sent \in 0 .. Q
      /\ fetchStage = "blank" => sent = 0 /\ attempts = 0 /\ attempt = 0
      /\ fetchStage \in {"attempt", "waiting"} => sent = attempts + attempt /\ attempts <= P
      /\ fetchStage \in {"answered", "body", "returned"} => sent = attempts
  BY DEF FetchInv
<1>4. CASE CallFetch
  <2>1. CASE Throw
    BY <2>1, ThrowKeeps
  <2>2. CASE Send /\ attempt' = 1 /\ UNCHANGED <<address, hop, attempts, answer, stopped, content>>
    <3>1. FetchTypeOK'
      BY <1>1, <1>2, <2>2 DEF Send, FetchTypeOK
    <3>2. sent' \in 0 .. Q /\ hop' = hop /\ sent' = attempts' + attempt' /\ attempts' <= P
      <4> HIDE DEF P, Q
      <4> QED
        BY <1>2, <1>3, <1>4, <2>2 DEF CallFetch, Send, K
    <3>3. QED
      BY <2>2, <3>1, <3>2 DEF FetchInv, Send, NoTimerLeft, ReportsWhatItDid
  <2>3. QED
    BY <1>4, <2>1, <2>2 DEF CallFetch
<1>5. CASE Respond
  <2>1. PICK reply \in Replies :
          IF reply = "retryable" /\ Retryable("status") THEN WaitAndRetry
          ELSE /\ Take(reply)
               /\ UNCHANGED <<address, hop, attempt, stopped, sent, content>>
    BY <1>5 DEF Respond
  <2>2. CASE reply = "retryable" /\ Retryable("status")
    BY <1>5, <2>1, <2>2, WaitKeeps DEF Respond, Retryable
  <2>3. CASE Take(reply) /\ UNCHANGED <<address, hop, attempt, stopped, sent, content>>
    <3>1. FetchTypeOK' /\ fetchStage' = "answered"
      BY <1>1, <2>3 DEF Take, FetchTypeOK
    <3>2. attempts' \in Nat /\ sent' = attempts' /\ UNCHANGED <<hop, sent, address, stopped>>
      <4> HIDE DEF P, Q
      <4> QED
        BY <1>2, <1>3, <1>5, <2>3 DEF Respond, Take
    <3>3. QED
      BY <2>3, <3>1, <3>2 DEF FetchInv, Take, NoTimerLeft, ReportsWhatItDid
  <2>4. QED
    BY <2>1, <2>2, <2>3
<1>6. CASE FailAttempt
  BY <1>6, WaitKeeps, ThrowKeeps DEF FailAttempt, Retryable
<1>7. CASE TimeOutAttempt
  BY <1>7, WaitKeeps, ThrowKeeps DEF TimeOutAttempt, Retryable
<1>8. CASE Retry
  <2>1. CASE stopped
    BY <1>8, <2>1, ThrowKeeps DEF Retry
  <2>2. CASE ~stopped
    <3>1. /\ Send /\ attempt' = attempt + 1
          /\ UNCHANGED <<address, hop, attempts, answer, stopped, content>>
          /\ fetchStage = "waiting" /\ attempt <= MaxRetries
      BY <1>8, <2>2 DEF Retry, FetchInv
    <3>2. attempt' \in 0 .. MaxRetries + 1 /\ attempt' > 0
      BY <1>2, <3>1
    <3>3. FetchTypeOK'
      BY <1>1, <3>1, <3>2 DEF Send, FetchTypeOK
    <3>4. sent' \in 0 .. Q /\ hop' = hop /\ sent' = attempts' + attempt' /\ attempts' <= P
      <4> HIDE DEF P, Q
      <4> QED
        BY <1>2, <1>3, <3>1 DEF Send, K
    <3>5. QED
      BY <3>1, <3>2, <3>3, <3>4 DEF FetchInv, Send, NoTimerLeft, ReportsWhatItDid
  <2>3. QED
    BY <2>1, <2>2
<1>9. CASE FollowRedirect
  <2>1. CASE Throw
    BY <2>1, ThrowKeeps
  <2>2. CASE ~Throw
    <3>1. PICK a \in Addresses :
            /\ Allowed(a) /\ hop # MaxRedirects /\ address' = a
            /\ hop' = hop + 1 /\ attempt' = 1 /\ Send
            /\ UNCHANGED <<attempts, answer, stopped, content>>
      BY <1>9, <2>2 DEF FollowRedirect
    <3>2. hop' \in 0 .. MaxRedirects /\ 1 \in 0 .. MaxRetries + 1
      BY <1>2, <3>1
    <3>3. FetchTypeOK'
      BY <1>1, <3>1, <3>2 DEF Send, FetchTypeOK
    <3>4. sent = attempts
      BY <1>3, <1>9 DEF FollowRedirect
    <3>5. (hop' + 1) * K = Q + K /\ hop' * K = Q
      BY <1>2, <3>1, <3>2, Product
    <3>6. /\ sent' \in 0 .. (hop' + 1) * K /\ sent' = attempts' + attempt'
          /\ attempts' <= hop' * K
      <4>1. Q \in Nat /\ sent \in 0 .. Q /\ sent' = sent + 1 /\ attempts' = attempts /\ attempt' = 1
        BY <1>2, <1>3, <3>1 DEF Send
      <4> HIDE DEF Q
      <4>2. sent' \in 0 .. Q + K /\ attempts' <= Q
        BY <1>2, <3>4, <4>1 DEF K
      <4>3. QED
        BY <3>4, <3>5, <4>1, <4>2
    <3>7. QED
      BY <3>1, <3>3, <3>6 DEF FetchInv, Send, NoTimerLeft, ReportsWhatItDid, Allowed
  <2>3. QED
    BY <2>1, <2>2
<1>10. CASE CheckResponse
  <2>1. CASE Throw
    BY <2>1, ThrowKeeps
  <2>2. CASE ~Throw
    BY <1>10, <2>2 DEF CheckResponse, FetchInv, FetchTypeOK, NoTimerLeft, ReportsWhatItDid
  <2>3. QED
    BY <2>1, <2>2
<1>11. CASE ReadBody
  <2>1. PICK body \in BoundedSeq({1, 3}, MaxChars) :
          /\ fetchStage' = IF stopped THEN "thrown" ELSE "returned"
          /\ content' = IF stopped THEN Nothing
                        ELSE [text |-> body, kept |-> Cut(body),
                              truncated |-> Bytes(body) > MaxBytes,
                              bytesRead |-> IF Bytes(body) > MaxBytes THEN MaxBytes ELSE Bytes(body)]
    BY <1>11 DEF ReadBody
  <2>2. body \in Seq(Widths) /\ MaxBytes \in Nat /\ Bytes(body) \in Nat
    <3>1. PICK m \in 0 .. MaxChars : body \in [1 .. m -> {1, 3}]
      BY DEF BoundedSeq, SeqOf
    <3>2. MaxBytes \in Nat /\ m \in Nat
      BY FetchAssumption
    <3>3. body \in Seq(Widths)
      BY <3>1, <3>2 DEF Widths
    <3>4. QED
      BY <3>2, <3>3, BytesOf
  <2>3. UNCHANGED <<address, hop, attempt, attempts, answer, flight, stopped, sent>>
    BY <1>11 DEF ReadBody
  <2>4. ReportsWhatItDid'
    <3>1. CASE stopped
      BY <2>1, <3>1 DEF ReportsWhatItDid
    <3>2. CASE ~stopped
      <4>1. /\ content'.text = body /\ content'.kept = Cut(body)
            /\ content'.truncated = (Bytes(body) > MaxBytes)
            /\ content'.bytesRead = IF Bytes(body) > MaxBytes THEN MaxBytes ELSE Bytes(body)
        BY <2>1, <3>2
      <4>2. attempts' = sent'
        BY <1>3, <1>11, <2>3 DEF ReadBody
      <4>3. Bytes(Cut(body)) <= content'.bytesRead
        <5>1. CASE Bytes(body) > MaxBytes
          BY <2>2, <4>1, <5>1, CutFits
        <5>2. CASE ~ (Bytes(body) > MaxBytes)
          <6>1. Cut(body) = body
            BY <2>2, <5>2, CutFits
          <6>2. QED
            BY <2>2, <4>1, <5>2, <6>1
        <5>3. QED
          BY <5>1, <5>2
      <4>4. QED
        BY <2>2, <4>1, <4>2, <4>3, CutFits DEF ReportsWhatItDid
    <3>3. QED
      BY <3>1, <3>2
  <2>5. QED
    BY <1>11, <2>1, <2>3, <2>4 DEF ReadBody, FetchInv, FetchTypeOK, NoTimerLeft
<1>12. CASE FailBody
  BY <1>12, ThrowKeeps DEF FailBody
<1>13. CASE AbortFetch
  BY <1>13 DEF AbortFetch, FetchInv, FetchTypeOK, NoTimerLeft, ReportsWhatItDid
<1>14. CASE UNCHANGED fetchVars
  BY <1>14 DEF fetchVars, FetchInv, FetchTypeOK, NoTimerLeft, ReportsWhatItDid
<1>15. QED
  BY <1>4, <1>5, <1>6, <1>7, <1>8, <1>9, <1>10, <1>11, <1>12, <1>13, <1>14 DEF FetchNext

LEMMA FetchInvAccounts == FetchInv => FetchAccounted
<1> SUFFICES ASSUME FetchInv PROVE FetchAccounted
  OBVIOUS
<1> DEFINE Q == (hop + 1) * (MaxRetries + 1)
           R == (MaxRedirects + 1) * (MaxRetries + 1)
<1>1. Q <= R /\ Q \in Nat /\ R \in Nat
  <2>1. /\ MaxRetries + 1 \in Nat /\ MaxRedirects \in Nat /\ hop \in Nat /\ hop <= MaxRedirects
    BY FetchNumbers DEF FetchInv
  <2>2. QED
    BY <2>1, Product
<1>2. sent \in 0 .. Q
  BY DEF FetchInv
<1>3. sent <= R
  <2> HIDE DEF Q, R
  <2> QED
    BY <1>1, <1>2
<1>4. QED
  BY <1>3 DEF FetchInv, FetchAccounted, StaysAndStops

\* Whatever the server answers, however often and however late, and whenever the
\* run is aborted: a fetch asks only the origin it was told, no more often than
\* the retries of every redirect allow, counts what it asked, keeps as much of the
\* body as fits, and leaves no timer behind.
THEOREM FetchIsAccounted == FetchSpec => []FetchAccounted
BY FetchInitHolds, FetchStepKeeps, FetchInvAccounts, PTL DEF FetchSpec

\* An aborted fetch sends no further request.
THEOREM FetchGoesQuiet == FetchSpec => QuietOnceAborted
<1>1. [FetchNext]_fetchVars => [stopped => sent' = sent]_fetchVars
  BY DEF FetchNext, CallFetch, Respond, FailAttempt, TimeOutAttempt, Retry, FollowRedirect,
     CheckResponse, ReadBody, FailBody, AbortFetch, Throw, Take, WaitAndRetry, fetchVars
<1>2. QED
  BY <1>1, PTL DEF FetchSpec, QuietOnceAborted

-------------------------------------------------------------------------------
(* SOPs.                                                                     *)

\* The sort.  A visit of some steps calls itself for all of them but the last
\* and for what the last depends on: sets of fewer steps, or of steps of a lower
\* rank.  So what such calls lead to the sets of all higher ranks by and by.

\* What a visit of the steps S does, with the visits it leads to.
VisitedBy(deps, visited, S, done) ==
  IF S = {} THEN done
  ELSE LET s      == Max(S)
           before == visited[S \ {s}][done]
       IN IF s \in Range(before) THEN before
          ELSE Append(visited[deps[s] \cap Steps][before], s)

Ranked(deps, rank) ==
  /\ rank \in [Steps -> Steps]
  /\ \A s \in Steps : \A d \in deps[s] \cap Steps : rank[d] < rank[s]

\* The visits of the sets in R need only those of the sets in Q.
Leads(deps, Q, R) ==
  \A S \in R : S # {} => S \ {Max(S)} \in Q /\ deps[Max(S)] \cap Steps \in Q

Lower(rank, m) == {S \in SUBSET Steps : \A s \in S : rank[s] <= m}
Halfway(rank, m, k) == Lower(rank, m) \cup {S \in Lower(rank, m + 1) : Cardinality(S) <= k}

LEMMA LastStep ==
  ASSUME NEW S \in SUBSET Steps, S # {}
  PROVE  Max(S) \in S /\ IsFiniteSet(S) /\ Cardinality(S) \in Nat \ {0}
         /\ Cardinality(S \ {Max(S)}) = Cardinality(S) - 1
<1>1. MaxSteps \in Nat /\ Steps \in SUBSET Int
  BY SopAssumption DEF Steps
<1>2. IsFiniteSet(S) /\ Cardinality(S) \in Nat \ {0}
  <2>1. IsFiniteSet(Steps)
    BY <1>1, FS_Interval DEF Steps
  <2>2. QED
    BY <2>1, FS_Subset, FS_CardinalityType, FS_EmptySet
<1>3. Max(S) \in S
  <2> DEFINE Below == {MaxSteps - s : s \in S}
  <2>1. Below \in SUBSET Nat /\ Below # {}
    BY <1>1 DEF Steps
  <2>2. PICK x \in Below : \A y \in Below : x <= y
    BY <2>1, LeastExists, Zenon
  <2>3. PICK s \in S : x = MaxSteps - s
    BY <2>2
  <2>4. \A t \in S : s >= t
    <3>1. SUFFICES ASSUME NEW t \in S PROVE s >= t
      OBVIOUS
    <3>2. MaxSteps - s <= MaxSteps - t
      BY <2>2, <2>3
    <3>3. s \in Int /\ t \in Int
      BY <1>1
    <3>4. QED
      BY <1>1, <3>2, <3>3
  <2>5. QED
    BY <2>4, Zenon DEF Max
<1>4. QED
  BY <1>2, <1>3, FS_RemoveElement

\* From the sets of a rank to those of one step more.
LEMMA LayerLeads ==
  ASSUME NEW deps, NEW rank, Ranked(deps, rank), NEW m \in Nat, NEW k \in Nat
  PROVE  Leads(deps, Halfway(rank, m, k), Halfway(rank, m, k + 1))
<1>1. SUFFICES ASSUME NEW S \in Halfway(rank, m, k + 1), S # {}
               PROVE  /\ S \ {Max(S)} \in Halfway(rank, m, k)
                      /\ deps[Max(S)] \cap Steps \in Halfway(rank, m, k)
  BY DEF Leads
<1> DEFINE s == Max(S)
<1>2. S \in Lower(rank, m) \/ (S \in Lower(rank, m + 1) /\ Cardinality(S) <= k + 1)
  BY <1>1 DEF Halfway, Lower
<1>3. S \in SUBSET Steps
  BY <1>2 DEF Lower
<1>4. s \in S /\ Cardinality(S) \in Nat \ {0} /\ Cardinality(S \ {s}) = Cardinality(S) - 1
  BY <1>1, <1>3, LastStep
<1>5. \A t \in Steps : rank[t] \in Nat
  BY SopAssumption DEF Ranked, Steps
<1>6. rank[s] <= m + 1
  BY <1>2, <1>3, <1>4, <1>5 DEF Lower
<1> HIDE DEF s
<1>7. deps[s] \cap Steps \in Lower(rank, m)
  <2>1. \A d \in deps[s] \cap Steps : rank[d] < rank[s] /\ rank[d] \in Nat
    BY <1>3, <1>4, <1>5 DEF Ranked
  <2>2. \A d \in deps[s] \cap Steps : rank[d] <= m
    BY <1>3, <1>4, <1>5, <1>6, <2>1
  <2>3. QED
    BY <2>2 DEF Lower
<1>8. S \ {s} \in Halfway(rank, m, k)
  <2>1. CASE S \in Lower(rank, m)
    BY <2>1 DEF Lower, Halfway
  <2>2. CASE S \in Lower(rank, m + 1) /\ Cardinality(S) <= k + 1
    <3>1. S \ {s} \in Lower(rank, m + 1)
      BY <2>2 DEF Lower
    <3>2. Cardinality(S \ {s}) <= k
      BY <1>4, <2>2
    <3>3. QED
      BY <3>1, <3>2 DEF Halfway
  <2>3. QED
    BY <1>2, <2>1, <2>2
<1>9. QED
  BY <1>7, <1>8 DEF s, Halfway

\* What holds of no steps and is handed on along the calls holds of all steps.
LEMMA AllVisited ==
  ASSUME NEW deps, NEW rank, Ranked(deps, rank), NEW Good, {{}} \in Good,
         \A Q \in Good : \A R \in SUBSET SUBSET Steps :
            Leads(deps, Q, Q) /\ Leads(deps, Q, R) => Q \cup R \in Good
  PROVE  SUBSET Steps \in Good
<1> DEFINE Fails == {m \in Nat : Lower(rank, m) \notin Good}
<1>0. MaxSteps \in Nat /\ \A s \in Steps : rank[s] \in 1 .. MaxSteps
  BY SopAssumption DEF Ranked, Steps
<1>1. Lower(rank, 0) = {{}} /\ Lower(rank, MaxSteps) = SUBSET Steps
  <2>1. \A S \in Lower(rank, 0) : S = {}
    BY <1>0 DEF Lower
  <2>2. {} \in Lower(rank, 0)
    BY DEF Lower
  <2>3. \A S \in SUBSET Steps : S \in Lower(rank, MaxSteps)
    BY <1>0 DEF Lower
  <2>4. QED
    BY <2>1, <2>2, <2>3 DEF Lower
<1>2. Fails = {}
  <2>1. SUFFICES ASSUME Fails # {} PROVE FALSE
    OBVIOUS
  <2>2. PICK n \in Fails : \A m \in Fails : n <= m
    BY <2>1, LeastExists, Zenon
  <2>3. n # 0
    BY <1>1, <2>2
  <2> DEFINE m == n - 1
  <2>4. m \in Nat /\ m + 1 = n /\ Lower(rank, m) \in Good
    BY <2>2, <2>3
  <2> HIDE DEF m
  <2> DEFINE Stuck == {k \in Nat : Halfway(rank, m, k) \notin Good}
  <2>5. Stuck = {}
    <3>1. SUFFICES ASSUME Stuck # {} PROVE FALSE
      OBVIOUS
    <3>2. PICK k \in Stuck : \A j \in Stuck : k <= j
      BY <3>1, LeastExists, Zenon
    <3>3. k # 0
      <4>1. \A S \in Lower(rank, m + 1) : Cardinality(S) <= 0 => S = {}
        <5>1. SUFFICES ASSUME NEW S \in Lower(rank, m + 1), S # {} PROVE ~ (Cardinality(S) <= 0)
          OBVIOUS
        <5>2. S \in SUBSET Steps
          BY DEF Lower
        <5>3. Cardinality(S) \in Nat \ {0}
          BY <5>1, <5>2, LastStep
        <5>4. QED
          BY <5>3
      <4>2. {} \in Lower(rank, m)
        BY DEF Lower
      <4>3. Halfway(rank, m, 0) = Lower(rank, m)
        BY <4>1, <4>2 DEF Halfway
      <4>4. QED
        BY <2>4, <3>2, <4>3
    <3> DEFINE j == k - 1
    <3>4. j \in Nat /\ j + 1 = k /\ Halfway(rank, m, j) \in Good
      BY <3>2, <3>3
    <3> HIDE DEF j
    <3>5. Leads(deps, Halfway(rank, m, j), Halfway(rank, m, k))
      BY <2>4, <3>4, LayerLeads
    <3>6. Halfway(rank, m, j) \subseteq Halfway(rank, m, k)
      <4>1. \A S \in Lower(rank, m + 1) : Cardinality(S) <= j => Cardinality(S) <= k
        <5>1. SUFFICES ASSUME NEW S \in Lower(rank, m + 1), Cardinality(S) <= j
                       PROVE  Cardinality(S) <= k
          OBVIOUS
        <5>2. Cardinality(S) \in Nat
          <6>1. S \in SUBSET Steps
            BY DEF Lower
          <6>2. CASE S = {}
            BY <6>2, FS_EmptySet
          <6>3. CASE S # {}
            BY <6>1, <6>3, LastStep
          <6>4. QED
            BY <6>2, <6>3
        <5>3. QED
          BY <3>4, <5>1, <5>2
      <4>2. QED
        BY <4>1 DEF Halfway
    <3>7. Leads(deps, Halfway(rank, m, j), Halfway(rank, m, j))
      BY <3>5, <3>6 DEF Leads
    <3>8. Halfway(rank, m, k) \in SUBSET SUBSET Steps
      BY DEF Halfway, Lower
    <3>9. Halfway(rank, m, j) \cup Halfway(rank, m, k) \in Good
      BY <3>4, <3>5, <3>7, <3>8
    <3>10. Halfway(rank, m, j) \cup Halfway(rank, m, k) = Halfway(rank, m, k)
      BY <3>6
    <3>11. QED
      BY <3>2, <3>9, <3>10
  <2>6. Halfway(rank, m, MaxSteps) = Lower(rank, n)
    <3>1. \A S \in SUBSET Steps : Cardinality(S) <= MaxSteps
      <4>1. IsFiniteSet(Steps) /\ Cardinality(Steps) = MaxSteps
        BY FS_Interval, SopAssumption DEF Steps
      <4>2. QED
        BY <4>1, FS_Subset
    <3>2. \A S \in Lower(rank, m) : S \in Lower(rank, n)
      <4>1. SUFFICES ASSUME NEW S \in Lower(rank, m), NEW s \in S PROVE rank[s] <= n
        BY DEF Lower
      <4>2. rank[s] \in Nat /\ rank[s] <= m
        BY <1>0 DEF Lower
      <4>3. QED
        BY <2>4, <4>2
    <3>3. \A S \in Lower(rank, n) : S \in SUBSET Steps
      BY DEF Lower
    <3>4. QED
      BY <2>4, <3>1, <3>2, <3>3 DEF Halfway
  <2>7. Lower(rank, n) \in Good
    BY <1>0, <2>5, <2>6
  <2>8. QED
    BY <2>2, <2>7
<1>3. QED
  BY <1>0, <1>1, <1>2

\* There are visits of all steps.
Visitors == [SUBSET Steps -> [Seq(Steps) -> Seq(Steps)]]
IsVisits(deps, visited) ==
  visited = [S \in SUBSET Steps |-> [done \in Seq(Steps) |-> VisitedBy(deps, visited, S, done)]]
Knows(deps, visited, Q) ==
  \A S \in Q : \A done \in Seq(Steps) : visited[S][done] = VisitedBy(deps, visited, S, done)

LEMMA VisitedByTyped ==
  ASSUME NEW deps, NEW visited \in Visitors, NEW S \in SUBSET Steps, NEW done \in Seq(Steps)
  PROVE  VisitedBy(deps, visited, S, done) \in Seq(Steps)
<1>1. CASE S = {}
  BY <1>1 DEF VisitedBy
<1>2. CASE S # {}
  <2> DEFINE s      == Max(S)
             before == visited[S \ {s}][done]
             after  == visited[deps[s] \cap Steps][before]
  <2>1. s \in Steps
    BY <1>2, LastStep
  <2>2. before \in Seq(Steps)
    BY DEF Visitors
  <2>3. after \in Seq(Steps)
    BY <2>2 DEF Visitors
  <2>4. VisitedBy(deps, visited, S, done) = IF s \in Range(before) THEN before ELSE Append(after, s)
    BY <1>2 DEF VisitedBy
  <2> HIDE DEF s, before, after
  <2>5. QED
    BY <2>1, <2>2, <2>3, <2>4
<1>3. QED
  BY <1>1, <1>2

\* With the visits of Q, those of R are known.
LEMMA KnowsMore ==
  ASSUME NEW deps, NEW visited \in Visitors, NEW Q \in SUBSET SUBSET Steps, Knows(deps, visited, Q),
         NEW R \in SUBSET SUBSET Steps, Leads(deps, Q, Q), Leads(deps, Q, R)
  PROVE  \E more \in Visitors : Knows(deps, more, Q \cup R)
<1> DEFINE more == [S \in SUBSET Steps |->
                      [done \in Seq(Steps) |-> IF S \in Q THEN visited[S][done]
                                               ELSE VisitedBy(deps, visited, S, done)]]
<1>1. more \in Visitors
  <2>1. \A S \in SUBSET Steps, done \in Seq(Steps) :
           visited[S][done] \in Seq(Steps) /\ VisitedBy(deps, visited, S, done) \in Seq(Steps)
    BY VisitedByTyped DEF Visitors
  <2>2. QED
    BY <2>1 DEF Visitors
<1>2. \A S \in SUBSET Steps, done \in Seq(Steps) : S \in Q => more[S][done] = visited[S][done]
  OBVIOUS
<1>3. \A S \in SUBSET Steps, done \in Seq(Steps) :
         S \notin Q => more[S][done] = VisitedBy(deps, visited, S, done)
  OBVIOUS
<1> HIDE DEF more
<1>4. ASSUME NEW S \in SUBSET Steps, S \in Q \cup R, NEW done \in Seq(Steps)
      PROVE  VisitedBy(deps, more, S, done) = VisitedBy(deps, visited, S, done)
  <2>1. CASE S = {}
    BY <2>1 DEF VisitedBy
  <2>2. CASE S # {}
    <3> DEFINE s == Max(S)
    <3>1. S \ {s} \in Q /\ deps[s] \cap Steps \in Q
      BY <1>4, <2>2 DEF Leads
    <3>2. more[S \ {s}][done] = visited[S \ {s}][done]
      BY <1>2, <3>1
    <3>3. visited[S \ {s}][done] \in Seq(Steps)
      BY DEF Visitors
    <3>4. more[deps[s] \cap Steps][visited[S \ {s}][done]] = visited[deps[s] \cap Steps][visited[S \ {s}][done]]
      BY <1>2, <3>1, <3>3
    <3>5. QED
      BY <3>2, <3>4, Zenon DEF VisitedBy
  <2>3. QED
    BY <2>1, <2>2
<1>5. ASSUME NEW S \in Q \cup R, NEW done \in Seq(Steps)
      PROVE  more[S][done] = VisitedBy(deps, more, S, done)
  <2>1. CASE S \in Q
    BY <1>2, <1>4, <2>1 DEF Knows
  <2>2. CASE S \notin Q
    BY <1>3, <1>4, <1>5, <2>2
  <2>3. QED
    BY <2>1, <2>2
<1>6. QED
  BY <1>1, <1>5 DEF Knows

LEMMA VisitsExist ==
  ASSUME NEW deps, NEW rank, Ranked(deps, rank)
  PROVE  \E visited \in Visitors : IsVisits(deps, visited)
<1> DEFINE Good == {Q \in SUBSET SUBSET Steps : \E visited \in Visitors : Knows(deps, visited, Q)}
<1>1. {{}} \in Good
  <2> DEFINE none == [S \in SUBSET Steps |-> [done \in Seq(Steps) |-> done]]
  <2>1. none \in Visitors
    BY DEF Visitors
  <2>2. Knows(deps, none, {{}})
    BY DEF Knows, VisitedBy
  <2>3. QED
    BY <2>1, <2>2
<1>2. \A Q \in Good : \A R \in SUBSET SUBSET Steps :
         Leads(deps, Q, Q) /\ Leads(deps, Q, R) => Q \cup R \in Good
  BY KnowsMore
<1> HIDE DEF Good
<1>3. SUBSET Steps \in Good
  BY <1>1, <1>2, AllVisited
<1>4. PICK visited \in Visitors : Knows(deps, visited, SUBSET Steps)
  BY <1>3 DEF Good
<1>5. IsVisits(deps, visited)
  <2>1. \A S \in SUBSET Steps : visited[S] = [done \in Seq(Steps) |-> VisitedBy(deps, visited, S, done)]
    BY <1>4 DEF Visitors, Knows
  <2>2. visited = [S \in SUBSET Steps |-> visited[S]]
    BY DEF Visitors
  <2>3. QED
    BY <2>1, <2>2, Zenon DEF IsVisits
<1>6. QED
  BY <1>5

LEMMA VisitsAreVisits ==
  ASSUME NEW deps, NEW rank, Ranked(deps, rank)
  PROVE  IsVisits(deps, Visits(deps))
<1>1. IsVisits(deps, CHOOSE visited : IsVisits(deps, visited))
  BY VisitsExist, Zenon
<1>2. Visits(deps) = CHOOSE visited : IsVisits(deps, visited)
  BY Zenon DEF Visits, IsVisits, VisitedBy
<1>3. QED
  BY <1>1, <1>2

\* What visiting the steps S does to a list: each step stands in it once, S does,
\* what is new has no higher rank than a step of S, and a step stands behind
\* those it depends on.
Once(list) == \A i, j \in 1 .. Len(list) : list[i] = list[j] => i = j

DependenciesFirst(deps, list) ==
  \A j \in 1 .. Len(list) : \A d \in deps[list[j]] \cap Steps : \E i \in 1 .. j - 1 : list[i] = d

Extended(deps, rank, S, done, list) ==
  /\ list \in Seq(Steps)
  /\ Once(list) /\ DependenciesFirst(deps, list)
  /\ Range(done) \cup S \subseteq Range(list)
  /\ \A x \in Range(list) \ Range(done) : \E s \in S : rank[x] <= rank[s]

Sorts(deps, rank, visited, S) ==
  \A done \in Seq(Steps) :
    Once(done) /\ DependenciesFirst(deps, done) => Extended(deps, rank, S, done, visited[S][done])

LEMMA AppendedLast ==
  ASSUME NEW deps, NEW list \in Seq(Steps), Once(list), DependenciesFirst(deps, list),
         NEW s \in Steps, s \notin Range(list), deps[s] \cap Steps \subseteq Range(list)
  PROVE  /\ Append(list, s) \in Seq(Steps) /\ Once(Append(list, s))
         /\ DependenciesFirst(deps, Append(list, s))
         /\ Range(Append(list, s)) = Range(list) \cup {s}
<1> DEFINE more == Append(list, s)
           n    == Len(list)
<1>1. /\ n \in Nat /\ more \in Seq(Steps) /\ Len(more) = n + 1 /\ more[n + 1] = s
      /\ \A i \in 1 .. n : more[i] = list[i]
      /\ DOMAIN more = 1 .. n + 1 /\ DOMAIN list = 1 .. n
  OBVIOUS
<1>2. \A i \in 1 .. n + 1 : i = n + 1 \/ i \in 1 .. n
  BY <1>1
<1>3. 1 .. n + 1 = (1 .. n) \cup {n + 1}
  BY <1>1
<1> HIDE DEF more, n
<1>4. Range(list) = {list[i] : i \in 1 .. n}
  BY <1>1 DEF Range
<1>5. Range(more) = Range(list) \cup {s}
  BY <1>1, <1>2, <1>3, <1>4 DEF Range
<1>6. Once(more)
  <2>1. SUFFICES ASSUME NEW i \in 1 .. n + 1, NEW j \in 1 .. n + 1, more[i] = more[j] PROVE i = j
    BY <1>1 DEF Once
  <2>2. CASE i \in 1 .. n /\ j \in 1 .. n
    BY <1>1, <2>1, <2>2 DEF Once, n
  <2>3. CASE i = n + 1 /\ j \in 1 .. n
    BY <1>1, <1>4, <2>1, <2>3
  <2>4. CASE j = n + 1 /\ i \in 1 .. n
    BY <1>1, <1>4, <2>1, <2>4
  <2>5. QED
    BY <1>2, <2>1, <2>2, <2>3, <2>4
<1>7. DependenciesFirst(deps, more)
  <2>1. SUFFICES ASSUME NEW j \in 1 .. n + 1, NEW d \in deps[more[j]] \cap Steps
                 PROVE  \E i \in 1 .. j - 1 : more[i] = d
    BY <1>1 DEF DependenciesFirst
  <2>2. CASE j \in 1 .. n
    <3>1. PICK i \in 1 .. j - 1 : list[i] = d
      BY <1>1, <2>1, <2>2 DEF DependenciesFirst, n
    <3>2. i \in 1 .. n
      BY <1>1, <2>2
    <3>3. QED
      BY <1>1, <3>1, <3>2
  <2>3. CASE j = n + 1
    <3>1. d \in Range(list)
      BY <1>1, <2>1, <2>3
    <3>2. PICK i \in 1 .. n : list[i] = d
      BY <1>4, <3>1
    <3>3. i \in 1 .. j - 1
      BY <1>1, <2>3
    <3>4. QED
      BY <1>1, <3>2, <3>3
  <2>4. QED
    BY <1>2, <2>2, <2>3
<1>8. QED
  BY <1>1, <1>5, <1>6, <1>7 DEF more

\* A visit sorts if the visits it leads to do.
LEMMA VisitSorts ==
  ASSUME NEW deps, NEW rank, Ranked(deps, rank), NEW visited, IsVisits(deps, visited),
         NEW S \in SUBSET Steps, S # {},
         Sorts(deps, rank, visited, S \ {Max(S)}), Sorts(deps, rank, visited, deps[Max(S)] \cap Steps)
  PROVE  Sorts(deps, rank, visited, S)
<1> DEFINE s == Max(S)
           T == deps[s] \cap Steps
<1>1. SUFFICES ASSUME NEW done \in Seq(Steps), Once(done), DependenciesFirst(deps, done)
               PROVE  Extended(deps, rank, S, done, visited[S][done])
  BY DEF Sorts
<1> DEFINE before == visited[S \ {s}][done]
           after  == visited[T][before]
<1>2. s \in S /\ s \in Steps /\ S \ {s} \in SUBSET Steps /\ T \in SUBSET Steps
  BY LastStep
<1>3. Extended(deps, rank, S \ {s}, done, before)
  BY <1>1 DEF Sorts
<1>4. visited[S][done] = IF s \in Range(before) THEN before ELSE Append(after, s)
  <2>1. visited[S][done] = VisitedBy(deps, visited, S, done)
    BY <1>1 DEF IsVisits
  <2>2. QED
    BY <2>1 DEF VisitedBy
<1>5. Extended(deps, rank, T, before, after)
  BY <1>3 DEF Sorts, Extended
<1>6. \A x \in Steps : rank[x] \in Nat
  BY SopAssumption DEF Ranked, Steps
<1>7. \A x \in Range(before) \cup Range(after) : x \in Steps
  <2>1. before \in Seq(Steps) /\ after \in Seq(Steps)
    BY <1>3, <1>5 DEF Extended
  <2>2. ASSUME NEW list \in Seq(Steps), NEW x \in Range(list)
        PROVE  x \in Steps
    BY <2>2 DEF Range
  <2> HIDE DEF before, after
  <2>3. QED
    BY <2>1, <2>2
<1> HIDE DEF before, after
<1>8. CASE s \in Range(before)
  BY <1>2, <1>3, <1>4, <1>8 DEF Extended
<1>9. CASE s \notin Range(before)
  <2>1. s \notin Range(after)
    <3>1. SUFFICES ASSUME s \in Range(after) PROVE FALSE
      OBVIOUS
    <3>2. PICK t \in T : rank[s] <= rank[t]
      BY <1>5, <1>9, <3>1 DEF Extended
    <3>3. rank[t] < rank[s] /\ rank[t] \in Nat /\ rank[s] \in Nat
      BY <1>2, <1>6 DEF Ranked
    <3>4. QED
      BY <3>2, <3>3
  <2> HIDE DEF s, T
  <2>2. T = deps[s] \cap Steps /\ after \in Seq(Steps) /\ Once(after) /\ DependenciesFirst(deps, after)
        /\ T \subseteq Range(after) /\ Range(before) \subseteq Range(after)
    BY <1>5 DEF Extended, T
  <2>3. /\ Append(after, s) \in Seq(Steps) /\ Once(Append(after, s))
        /\ DependenciesFirst(deps, Append(after, s))
        /\ Range(Append(after, s)) = Range(after) \cup {s}
    BY <1>2, <2>1, <2>2, AppendedLast
  <2>4. Range(done) \cup S \subseteq Range(Append(after, s))
    BY <1>3, <2>2, <2>3 DEF Extended
  <2>5. ASSUME NEW x \in Range(Append(after, s)) \ Range(done)
        PROVE  \E t \in S : rank[x] <= rank[t]
    <3>1. CASE x = s
      BY <1>2, <1>6, <3>1
    <3>2. CASE x \in Range(before)
      BY <1>3, <2>5, <3>2 DEF Extended
    <3>3. CASE x \in Range(after) \ Range(before)
      <4>1. PICK t \in T : rank[x] <= rank[t]
        BY <1>5, <3>3 DEF Extended
      <4>2. rank[t] < rank[s] /\ rank[t] \in Nat /\ rank[s] \in Nat /\ rank[x] \in Nat
        BY <1>2, <1>6, <1>7, <2>2, <3>3 DEF Ranked
      <4>3. QED
        BY <1>2, <4>1, <4>2
    <3>4. QED
      BY <2>3, <2>5, <3>1, <3>2, <3>3
  <2>6. QED
    BY <1>4, <1>9, <2>3, <2>4, <2>5 DEF Extended
<1>10. QED
  BY <1>8, <1>9

\* The sort of an accepted plan leaves no step out, repeats none, and puts each
\* behind those it depends on.
THEOREM SortIsTopological ==
  ASSUME NEW p \in Plans, Accepted(p.deps)
  PROVE  EachOnce(TopoSort(p.deps)) /\ DependenciesFirst(p.deps, TopoSort(p.deps))
<1> DEFINE deps    == p.deps
           visited == Visits(deps)
           list    == TopoSort(deps)
<1>1. PICK rank : Ranked(deps, rank)
  BY DEF Accepted, Acyclic, Ranked
<1>2. IsVisits(deps, visited)
  BY <1>1, VisitsAreVisits
<1> HIDE DEF visited, deps
<1>3. Sorts(deps, rank, visited, Steps)
  <2> DEFINE Good == {Q \in SUBSET SUBSET Steps : \A S \in Q : Sorts(deps, rank, visited, S)}
  <2>1. {{}} \in Good
    <3>1. \A done \in Seq(Steps) : visited[{}][done] = done
      BY <1>2 DEF IsVisits, VisitedBy
    <3>2. Sorts(deps, rank, visited, {})
      BY <3>1 DEF Sorts, Extended
    <3>3. QED
      BY <3>2
  <2>2. ASSUME NEW Q \in Good, NEW R \in SUBSET SUBSET Steps, Leads(deps, Q, Q), Leads(deps, Q, R)
        PROVE  Q \cup R \in Good
    <3>1. SUFFICES ASSUME NEW S \in R PROVE Sorts(deps, rank, visited, S)
      OBVIOUS
    <3>2. CASE S = {}
      BY <2>1, <3>2
    <3>3. CASE S # {}
      <4>1. S \ {Max(S)} \in Q /\ deps[Max(S)] \cap Steps \in Q
        BY <2>2, <3>3 DEF Leads
      <4>2. Sorts(deps, rank, visited, S \ {Max(S)}) /\ Sorts(deps, rank, visited, deps[Max(S)] \cap Steps)
        BY <4>1
      <4>3. QED
        BY <1>1, <1>2, <3>3, <4>2, VisitSorts
    <3>4. QED
      BY <3>2, <3>3
  <2> HIDE DEF Good
  <2>3. SUBSET Steps \in Good
    BY <1>1, <2>1, <2>2, AllVisited
  <2>4. QED
    BY <2>3 DEF Good
<1>4. Extended(deps, rank, Steps, <<>>, list)
  <2>1. <<>> \in Seq(Steps) /\ Once(<<>>) /\ DependenciesFirst(deps, <<>>)
    BY DEF Once, DependenciesFirst
  <2>2. list = visited[Steps][<<>>]
    BY DEF TopoSort, visited
  <2>3. QED
    BY <1>3, <2>1, <2>2 DEF Sorts
<1> HIDE DEF list
<1>5. Len(list) \in Nat /\ list \in [1 .. Len(list) -> Steps] /\ Once(list) /\ Range(list) = Steps
  BY <1>4 DEF Extended, Range
<1>6. Len(list) = MaxSteps
  <2>1. list \in Bijection(1 .. Len(list), Steps)
    BY <1>5 DEF Once, Range, Bijection, Injection, Surjection, IsInjective
  <2>2. ExistsBijection(1 .. Len(list), Steps)
    BY <2>1 DEF ExistsBijection
  <2>3. Cardinality(Steps) = Len(list)
    BY <1>5, <2>2, FS_CountingElements
  <2>4. Cardinality(Steps) = MaxSteps
    BY FS_Interval, SopAssumption DEF Steps
  <2>5. QED
    BY <2>3, <2>4
<1>7. EachOnce(list)
  BY <1>5, <1>6 DEF EachOnce, Once, Steps
<1>8. QED
  BY <1>4, <1>7 DEF Extended, list, deps

\* The steps with a result are the first ones of the order.
InOrder ==
  IF sopStage \in {"blank", "rejected"} THEN Settled = {}
  ELSE /\ Accepted(plan.deps)
       /\ Settled = {order[i] : i \in 1 .. Cardinality(Settled)}

\* Why the status is honest: an action that threw under stop_on_failure has set
\* the status to one that nothing overwrites and has closed the way to further
\* actions.
Remembered ==
  /\ sopStatus = "passed" => \A s \in Steps : outcome[s] \notin Failing
  /\ plan.stop /\ (\E s \in Steps : outcome[s] = "error") => stopEarly
  /\ stopEarly => /\ sopStatus = "failed"
                  /\ sopStage \notin {"precondition", "acting", "verifying", "final"}

SopInv == SopTypeOK /\ InOrder /\ Remembered /\ DependenciesHeld

LEMMA SettledFinite ==
  ASSUME SopTypeOK
  PROVE  /\ IsFiniteSet(Settled) /\ Settled \subseteq Steps
         /\ Cardinality(Settled) \in 0 .. MaxSteps
         /\ Settled # Steps => Cardinality(Settled) < MaxSteps
<1>1. IsFiniteSet(Steps) /\ Cardinality(Steps) = MaxSteps
  BY FS_Interval, SopAssumption DEF Steps
<1>2. Settled \in SUBSET Steps
  BY DEF Settled
<1>3. /\ IsFiniteSet(Settled) /\ Cardinality(Settled) <= MaxSteps
      /\ Cardinality(Settled) = MaxSteps => Settled = Steps
  BY <1>1, <1>2, FS_Subset
<1>4. Cardinality(Settled) \in Nat
  BY <1>3, FS_CardinalityType
<1>5. QED
  BY <1>2, <1>3, <1>4, SopAssumption

\* The step under way is one that has no result yet.
LEMMA CurrentIsNew ==
  ASSUME SopInv, Settled # Steps, sopStage \notin {"blank", "rejected"}
  PROVE  Current \in Steps \ Settled
<1>1. /\ EachOnce(order) /\ Settled = {order[i] : i \in 1 .. Cardinality(Settled)}
  BY DEF SopInv, SopTypeOK, InOrder
<1>2. Cardinality(Settled) + 1 \in Steps
  BY SettledFinite, SopAssumption DEF SopInv, Steps
<1>3. \A i \in 1 .. Cardinality(Settled) : i \in Steps /\ i # Cardinality(Settled) + 1
  BY SettledFinite, SopAssumption DEF SopInv, Steps
<1>4. QED
  BY <1>1, <1>2, <1>3 DEF EachOnce, Current

\* A result is put at the end of those there are.
LEMMA SettleInOrder ==
  ASSUME SopInv, Settled # Steps, sopStage \notin {"blank", "rejected"},
         NEW status \in StepStatuses \ {"none"}, NEW overall \in {"passed", "failed", "partial"},
         Settle(status, overall), stopEarly' \in BOOLEAN
  PROVE  /\ SopTypeOK' /\ InOrder'
         /\ outcome' = [outcome EXCEPT ![Current] = status]
<1> DEFINE n == Cardinality(Settled)
<1>1. Current \in Steps /\ Current \notin Settled /\ Current = order[n + 1]
  BY CurrentIsNew DEF Current
<1>2. outcome \in [Steps -> StepStatuses]
  BY DEF SopInv, SopTypeOK
<1>3. Settled' = Settled \cup {Current}
  BY <1>1, <1>2 DEF Settle, Settled
<1>4. n \in Nat /\ Cardinality(Settled') = n + 1
  <2>1. IsFiniteSet(Settled) /\ n \in 0 .. MaxSteps
    BY SettledFinite DEF SopInv
  <2>2. Cardinality(Settled \cup {Current}) = n + 1
    BY <1>1, <2>1, FS_AddElement
  <2>3. QED
    BY <1>3, <2>1, <2>2, SopAssumption
<1>5. /\ Accepted(plan.deps) /\ Settled = {order[i] : i \in 1 .. n}
      /\ UNCHANGED <<plan, order>> /\ sopStage' = "loop"
  BY DEF SopInv, InOrder, Settle
<1>6. Settled' = {order'[i] : i \in 1 .. Cardinality(Settled')}
  <2>1. 1 .. Cardinality(Settled') = (1 .. n) \cup {n + 1}
    BY <1>4
  <2> HIDE DEF n
  <2>2. QED
    BY <1>1, <1>3, <1>5, <2>1
<1>7. InOrder'
  BY <1>5, <1>6 DEF InOrder
<1>8. SopTypeOK'
  <2>1. /\ plan' \in Plans /\ sopAborted' \in BOOLEAN /\ order' = order
        /\ sopStage' = "loop" /\ sopStatus' = overall
        /\ outcome' \in [Steps -> StepStatuses]
    BY <1>1, <1>2 DEF SopInv, SopTypeOK, Settle
  <2>2. EachOnce(order)'
    BY <2>1 DEF SopInv, SopTypeOK, EachOnce
  <2>3. QED
    BY <2>1, <2>2 DEF SopTypeOK, SopStages
<1>9. QED
  BY <1>7, <1>8 DEF Settle

\* Skipping the step at hand, or a result of an action whose dependencies held,
\* breaks nothing that held of the steps before it.
LEMMA SettleHeld ==
  ASSUME SopInv, Settled # Steps, sopStage \notin {"blank", "rejected"},
         NEW status \in StepStatuses \ {"none"}, NEW overall \in {"passed", "failed", "partial"},
         Settle(status, overall), stopEarly' \in BOOLEAN,
         status = "skipped" \/ sopStage \in {"acting", "verifying"}
  PROVE  DependenciesHeld'
<1>1. Current \in Steps \ Settled
  BY CurrentIsNew
<1>2. /\ outcome \in [Steps -> StepStatuses] /\ outcome' = [outcome EXCEPT ![Current] = status]
      /\ plan' = plan /\ sopStage' = "loop"
  BY SettleInOrder DEF SopInv, SopTypeOK, Settle
<1>3. outcome[Current] = "none"
  BY <1>1 DEF Settled
<1>4. Acted' \subseteq Acted
  BY <1>1, <1>2 DEF Acted, Failing
<1>5. ASSUME NEW s \in Acted', NEW d \in plan.deps[s]
      PROVE  outcome'[d] \in {"passed", "skipped"}
  <2>1. outcome[d] \in {"passed", "skipped"}
    BY <1>4, <1>5 DEF SopInv, DependenciesHeld
  <2>2. s \in Steps /\ d \in Steps
    BY <1>5, SettleInOrder DEF Acted, SopInv, InOrder, Accepted
  <2>3. d # Current
    BY <1>3, <2>1
  <2>4. QED
    BY <1>2, <2>1, <2>2, <2>3
<1>6. QED
  BY <1>2, <1>5 DEF DependenciesHeld

LEMMA SettleKeeps ==
  ASSUME SopInv, Settled # Steps, sopStage \notin {"blank", "rejected"},
         NEW status \in StepStatuses \ {"none"}, NEW overall \in {"passed", "failed", "partial"},
         Settle(status, overall),
         status = "skipped" \/ sopStage \in {"acting", "verifying"},
         overall = "passed" => sopStatus = "passed" /\ status \notin Failing,
         stopEarly => overall = sopStatus /\ status # "error",
         \/ stopEarly' = stopEarly /\ status # "error"
         \/ /\ stopEarly' = (stopEarly \/ plan.stop)
            /\ overall = "failed"
  PROVE  SopInv'
<1>1. stopEarly \in BOOLEAN /\ plan \in Plans /\ plan.stop \in BOOLEAN
  BY DEF SopInv, SopTypeOK, Plans
<1>2. SopTypeOK' /\ InOrder' /\ DependenciesHeld' /\ outcome' = [outcome EXCEPT ![Current] = status]
  BY <1>1, SettleInOrder, SettleHeld
<1>3. Current \in Steps /\ outcome \in [Steps -> StepStatuses]
  BY CurrentIsNew DEF SopInv, SopTypeOK
<1>4. UNCHANGED plan /\ sopStage' = "loop" /\ sopStatus' = overall
  BY DEF Settle
<1>5. (overall = "passed" => \A s \in Steps : outcome'[s] \notin Failing)
  BY <1>2, <1>3 DEF SopInv, Remembered
<1>6. plan.stop /\ (\E s \in Steps : outcome'[s] = "error") => stopEarly'
  BY <1>1, <1>2, <1>3 DEF SopInv, Remembered
<1>7. stopEarly' => overall = "failed"
  BY DEF SopInv, Remembered
<1>8. QED
  BY <1>2, <1>4, <1>5, <1>6, <1>7 DEF SopInv, Remembered

\* Waiting for what comes next settles nothing.
LEMMA AwaitKeeps ==
  ASSUME SopInv, NEW to \in SopStages \ {"blank", "rejected"}, Await(to),
         sopStage \notin {"blank", "rejected"},
         to \in {"precondition", "acting", "verifying"} => Settled # Steps,
         to \in {"precondition", "acting", "verifying", "final"} => ~stopEarly,
         to \in {"acting", "verifying"} =>
           sopStage \in {"acting", "verifying"} \/ DepsFailed = {}
  PROVE  SopInv'
<1>1. UNCHANGED <<plan, order, outcome, sopStatus, stopEarly, sopAborted>> /\ sopStage' = to
  BY DEF Await
<1>2. Settled' = Settled /\ Current' = Current
  BY <1>1 DEF Settled, Current
<1>3. SopTypeOK' /\ InOrder' /\ Remembered'
  BY <1>1, <1>2 DEF SopInv, SopTypeOK, InOrder, Remembered, EachOnce
<1>4. DependenciesHeld'
  <2>1. CASE to \in {"acting", "verifying"} /\ sopStage \notin {"acting", "verifying"}
    <3>1. Current \in Steps /\ plan.deps[Current] \subseteq Steps /\ DepsFailed = {}
      BY <2>1, CurrentIsNew DEF SopInv, InOrder, Accepted
    <3>2. \A d \in plan.deps[Current] : outcome[d] \in StepStatuses \ ({"none"} \cup Failing)
      BY <3>1 DEF DepsFailed, SopInv, SopTypeOK
    <3>3. StepStatuses \ ({"none"} \cup Failing) \subseteq {"passed", "skipped"}
      BY DEF StepStatuses, Failing
    <3>4. Acted' \subseteq Acted \cup {Current}
      BY <1>1, <1>2 DEF Acted
    <3>5. QED
      BY <1>1, <3>2, <3>3, <3>4 DEF SopInv, DependenciesHeld
  <2>2. CASE ~(to \in {"acting", "verifying"} /\ sopStage \notin {"acting", "verifying"})
    <3>1. Acted' \subseteq Acted
      BY <1>1, <1>2, <2>2 DEF Acted
    <3>2. QED
      BY <1>1, <3>1 DEF SopInv, DependenciesHeld
  <2>3. QED
    BY <2>1, <2>2
<1>5. QED
  BY <1>3, <1>4 DEF SopInv

\* Nor does the abort, or a step of something else.
LEMMA SopWaits ==
  ASSUME SopInv, sopAborted' \in BOOLEAN,
         UNCHANGED <<sopStage, plan, order, outcome, sopStatus, stopEarly>>
  PROVE  SopInv'
<1>1. Settled' = Settled /\ Current' = Current /\ Acted' = Acted
  BY DEF Settled, Current, Acted
<1>2. EachOnce(order') <=> EachOnce(order)
  OBVIOUS
<1>3. SopTypeOK'
  BY <1>1, <1>2 DEF SopInv, SopTypeOK
<1>4. InOrder'
  BY <1>1 DEF SopInv, InOrder
<1>5. Remembered' /\ DependenciesHeld'
  BY <1>1 DEF SopInv, Remembered, DependenciesHeld
<1>6. QED
  BY <1>3, <1>4, <1>5 DEF SopInv

LEMMA SopStepKeeps ==
  ASSUME SopInv, [SopNext]_sopVars
  PROVE  SopInv'
<1> USE DEF StepStatuses, SopStages, Failing
<1>1. sopStage \in {"precondition", "acting", "verifying"} => Settled # Steps
  BY DEF SopInv, SopTypeOK
<1>2. stopEarly => sopStatus = "failed" /\ sopStage \notin {"precondition", "acting", "verifying", "final"}
  BY DEF SopInv, Remembered
<1>3. sopStatus \in {"passed", "failed", "partial"} /\ stopEarly \in BOOLEAN
  BY DEF SopInv, SopTypeOK
<1>4. CASE StartSop
  <2>1. PICK p \in Plans :
          /\ plan' = p
          /\ \/ Accepted(p.deps) /\ sopStage' = "loop" /\ order' = TopoSort(p.deps)
             \/ ~Accepted(p.deps) /\ sopStage' = "rejected" /\ UNCHANGED order
    BY <1>4 DEF StartSop
  <2>2. /\ sopStage = "blank" /\ Settled = {} /\ order = <<>>
        /\ UNCHANGED <<outcome, sopStatus, stopEarly, sopAborted>>
    BY <1>4 DEF StartSop, SopInv, SopTypeOK, InOrder
  <2>3. /\ Settled' = {} /\ \A s \in Steps : outcome'[s] = "none"
        /\ outcome' \in [Steps -> StepStatuses]
    BY <2>2 DEF Settled, SopInv, SopTypeOK
  <2>4. SopTypeOK'
    BY <2>1, <2>2, SortIsTopological DEF SopInv, SopTypeOK
  <2>5. InOrder'
    <3>1. Cardinality(Settled') = 0 /\ 1 .. 0 = {}
      BY <2>3, FS_EmptySet
    <3>2. Settled' = {order'[i] : i \in 1 .. Cardinality(Settled')}
      BY <2>3, <3>1
    <3>3. QED
      BY <2>1, <2>3, <3>2 DEF InOrder
  <2>6. Acted' = {}
    BY <2>1, <2>3 DEF Acted
  <2>7. DependenciesHeld' /\ Remembered'
    BY <1>2, <2>1, <2>2, <2>3, <2>6 DEF DependenciesHeld, Remembered
  <2>8. QED
    BY <2>4, <2>5, <2>7 DEF SopInv
<1>5. CASE SkipStopped
  BY <1>2, <1>3, <1>5, SettleKeeps DEF SkipStopped, AtStep
<1>6. CASE SkipAborted
  BY <1>3, <1>6, SettleKeeps DEF SkipAborted, AtStep
<1>7. CASE AskPrecondition
  BY <1>7, AwaitKeeps DEF AskPrecondition, AtStep
<1>8. CASE PreconditionUnmet
  BY <1>1, <1>2, <1>3, <1>8, SettleKeeps DEF PreconditionUnmet
<1>9. CASE SkipDependent
  BY <1>1, <1>2, <1>3, <1>9, SettleKeeps DEF SkipDependent
<1>10. CASE StartAction
  BY <1>1, <1>2, <1>10, AwaitKeeps DEF StartAction
<1>11. CASE StepThrows
  BY <1>1, <1>2, <1>3, <1>11, SettleKeeps DEF StepThrows
<1>12. CASE ActionReturns
  BY <1>1, <1>2, <1>12, AwaitKeeps DEF ActionReturns
<1>13. CASE StepVerified
  <2>1. CASE Settle("passed", sopStatus)
    BY <1>1, <1>2, <1>3, <1>13, <2>1, SettleKeeps DEF StepVerified
  <2>2. CASE Settle("failed", "partial")
    BY <1>1, <1>2, <1>3, <1>13, <2>2, SettleKeeps DEF StepVerified
  <2>3. QED
    BY <1>13, <2>1, <2>2 DEF StepVerified
<1>14. CASE EndOfSteps
  BY <1>2, <1>14, AwaitKeeps DEF EndOfSteps
<1>15. CASE FinalVerified
  <2>1. CASE Await("done")
    BY <1>15, <2>1, AwaitKeeps DEF FinalVerified
  <2>2. CASE /\ sopStage' = "done"
             /\ sopStatus' = IF sopStatus = "passed" THEN "failed" ELSE sopStatus
             /\ UNCHANGED <<plan, order, outcome, stopEarly, sopAborted>>
    <3>1. sopStage = "final" /\ ~stopEarly
      BY <1>2, <1>15 DEF FinalVerified
    <3>2. Settled' = Settled /\ Acted' = Acted
      BY <2>2, <3>1 DEF Settled, Acted
    <3>3. SopTypeOK' /\ InOrder' /\ Remembered' /\ DependenciesHeld'
      BY <1>3, <2>2, <3>1, <3>2
         DEF SopInv, SopTypeOK, InOrder, Remembered, DependenciesHeld, EachOnce
    <3>4. QED
      BY <3>3 DEF SopInv
  <2>3. QED
    BY <1>15, <2>1, <2>2 DEF FinalVerified
<1>16. CASE FinalThrows
  BY <1>16, AwaitKeeps DEF FinalThrows
<1>17. CASE AbortSop
  BY <1>17, SopWaits DEF AbortSop
<1>18. CASE UNCHANGED sopVars
  BY <1>18, SopWaits DEF sopVars, SopInv, SopTypeOK
<1>19. QED
  BY <1>4, <1>5, <1>6, <1>7, <1>8, <1>9, <1>10, <1>11, <1>12, <1>13, <1>14, <1>15,
     <1>16, <1>17, <1>18 DEF SopNext, SopStep

LEMMA SopInitHolds == SopInit => SopInv
<1> SUFFICES ASSUME SopInit PROVE SopInv
  OBVIOUS
<1>1. Settled = {} /\ Acted = {}
  BY DEF SopInit, Settled, Acted, Failing
<1>2. plan \in Plans
  BY DEF SopInit, Plans
<1>3. QED
  BY <1>1, <1>2 DEF SopInit, SopInv, SopTypeOK, InOrder, Remembered, DependenciesHeld,
     SopStages, StepStatuses, Failing

\* Whatever the file orders, whatever fails and whenever the user aborts: no
\* action has run on a dependency that failed or had no result, and the overall
\* status hides no failure.
THEOREM SopIsHonest == SopSpec => []SopHonest
<1>1. SopInv => SopHonest
  BY DEF SopInv, SopHonest, Remembered, StatusHonest
<1>2. QED
  BY <1>1, SopInitHolds, SopStepKeeps, PTL DEF SopSpec

\* An aborted SOP asks for no further precondition, and a step it cuts short
\* makes it a failed one.
THEOREM SopHeedsAbort == SopSpec => AbortCutsShort
<1>1. [SopNext]_sopVars =>
        [sopAborted => /\ sopStage' = "precondition" => sopStage = "precondition"
                       /\ sopStage = "loop" /\ ~stopEarly /\ outcome' # outcome
                            => sopStatus' = "failed"]_sopVars
  BY DEF SopNext, SopStep, StartSop, SkipStopped, SkipAborted, AskPrecondition,
     PreconditionUnmet, SkipDependent, StartAction, StepThrows, ActionReturns, StepVerified,
     EndOfSteps, FinalVerified, FinalThrows, AbortSop, AtStep, Settle, Await, sopVars
<1>2. QED
  BY <1>1, PTL DEF SopSpec, AbortCutsShort

-------------------------------------------------------------------------------
(* MCP servers.                                                              *)

Begun == {s \in Servers : server[s] \in {"listing", "ready", "failed"}}
Ended == {s \in Servers : server[s] \in {"ready", "failed"}}

McpShape ==
  /\ McpTypeOK
  /\ listed \in [Servers -> Seq(ToolNames)]
  /\ summary \in [enabled: Nat, connected: Nat, required: Nat, optional: Nat]

\* Start-up: a server's client is open exactly while it is being listed or is
\* ready, and what the caller heard agrees with how the servers ended.
StartedUp ==
  /\ mcpStage = "starting" =>
       /\ open = {s \in Servers : server[s] \in {"listing", "ready"}} /\ told = "nothing"
  /\ mcpStage = "up" => open = Ready /\ told = "bundle"
  /\ mcpStage \in {"closing", "down"} => open = {}
  /\ mcpStage = "closing" /\ told = "nothing" => Fatal # {}
  /\ told # "nothing" => mcpStage \in {"up", "closing", "down"}
  /\ told = "error" => Fatal # {}
  /\ told = "bundle" => Fatal = {} /\ tools = UNION {Wrapped(s) : s \in Ready}

\* Diagnosis: the servers are visited in order, the one being visited is the only
\* one with an open client, and every number of the summary counts some of them.
Diagnosed ==
  /\ mcpStage = "blank" => /\ open = {} /\ \A s \in Servers : server[s] = "none"
                           /\ summary = EmptySummary
  /\ mcpStage \in {"diagnosing", "diagnosed"} =>
       /\ Visited = 1 .. Cardinality(Visited)
       /\ \A s \in Servers : s > Visiting => server[s] = "none"
       /\ \A s \in Servers : server[s] \in {"none", "disabled", "listing", "ready", "failed"}
       /\ \A s \in Servers : server[s] # "none" => (config[s].enabled <=> server[s] # "disabled")
       /\ open = {s \in Servers : server[s] = "listing"}
       /\ summary.enabled = Cardinality(Begun)
       /\ summary.required = Cardinality(Fatal)
       /\ summary.connected + summary.required + summary.optional >= Cardinality(Ended)
  /\ mcpStage = "diagnosed" => Visited = Servers

McpInv == McpShape /\ StartedUp /\ Diagnosed

LEMMA ServersCounted ==
  ASSUME NEW S \in SUBSET Servers
  PROVE  /\ IsFiniteSet(S) /\ Cardinality(S) \in Nat
         /\ \A s \in Servers : s \notin S => Cardinality(S \cup {s}) = Cardinality(S) + 1
<1>1. IsFiniteSet(Servers)
  <2>1. 1 \in Int /\ MaxServers \in Int
    BY McpAssumption
  <2>2. QED
    BY <2>1, FS_Interval DEF Servers
<1>2. IsFiniteSet(S)
  BY <1>1, FS_Subset
<1>3. QED
  BY <1>2, FS_CardinalityType, FS_AddElement

LEMMA McpInitHolds == McpInit => McpInv
<1> SUFFICES ASSUME McpInit PROVE McpInv
  OBVIOUS
<1>1. McpShape
  BY DEF McpInit, McpShape, McpTypeOK, Configs, Names, ServerStages, Usual, EmptySummary, Range
<1>2. StartedUp /\ Diagnosed
  BY DEF McpInit, StartedUp, Diagnosed
<1>3. QED
  BY <1>1, <1>2 DEF McpInv

\* A server that is started up changes nothing of the others, and nobody has
\* been told anything yet.
LEMMA StartUpKeeps ==
  ASSUME McpInv, NEW s \in Servers, NEW from \in ServerStages, NEW to \in ServerStages,
         StartUp(s, from, to), listed' \in [Servers -> Seq(ToolNames)], open' \subseteq Servers,
         open' = {t \in Servers : IF t = s THEN to \in {"listing", "ready"} ELSE t \in open}
  PROVE  McpInv'
<1>1. /\ mcpStage = "starting" /\ server' = [server EXCEPT ![s] = to]
      /\ UNCHANGED <<mcpStage, config, tools, told, summary>>
      /\ server \in [Servers -> ServerStages]
  BY DEF StartUp, McpInv, McpShape, McpTypeOK
<1>2. open' = {t \in Servers : server'[t] \in {"listing", "ready"}}
  BY <1>1 DEF McpInv, StartedUp
<1>3. McpShape'
  BY <1>1 DEF McpInv, McpShape, McpTypeOK, Range
<1>4. told' = "nothing"
  BY <1>1 DEF McpInv, StartedUp
<1>5. StartedUp' /\ Diagnosed'
  BY <1>1, <1>2, <1>4 DEF StartedUp, Diagnosed
<1>6. QED
  BY <1>3, <1>5 DEF McpInv

\* What each number counts after a visit.
LEMMA VisitKeeps ==
  ASSUME McpInv, NEW s \in Servers, NEW end \in {"disabled", "listing", "ready", "failed"},
         NEW sum \in [enabled: Nat, connected: Nat, required: Nat, optional: Nat],
         NEW clients \in SUBSET Servers, Visit(s, end, sum, clients),
         server[s] \in {"none", "listing"}, config[s].enabled <=> end # "disabled",
         server[s] = "listing" => end \in {"ready", "failed"},
         clients = IF end = "listing" THEN open \cup {s} ELSE open \ {s},
         sum.enabled = summary.enabled + (IF server[s] = "none" /\ end # "disabled" THEN 1 ELSE 0),
         sum.required = summary.required
                        + (IF end = "failed" /\ config[s].failPolicy = "fail" THEN 1 ELSE 0),
         sum.connected + sum.required + sum.optional
           >= summary.connected + summary.required + summary.optional
              + (IF end \in {"ready", "failed"} THEN 1 ELSE 0)
  PROVE  McpInv'
<1>1. /\ mcpStage = "diagnosing" /\ s = Visiting /\ server' = [server EXCEPT ![s] = end]
      /\ summary' = sum /\ open' = clients
      /\ UNCHANGED <<mcpStage, config, listed, tools, told>>
      /\ server \in [Servers -> ServerStages]
  BY DEF Visit, McpInv, McpShape, McpTypeOK
<1>2. /\ Visited = 1 .. Cardinality(Visited)
      /\ \A t \in Servers : t > Visiting => server[t] = "none"
      /\ \A t \in Servers : server[t] \in {"none", "disabled", "listing", "ready", "failed"}
      /\ \A t \in Servers : server[t] # "none" => (config[t].enabled <=> server[t] # "disabled")
      /\ open = {t \in Servers : server[t] = "listing"}
      /\ summary.enabled = Cardinality(Begun)
      /\ summary.required = Cardinality(Fatal)
      /\ summary.connected + summary.required + summary.optional >= Cardinality(Ended)
  BY <1>1 DEF McpInv, Diagnosed
<1>3. /\ \A t \in Servers : server'[t] = IF t = s THEN end ELSE server[t]
      /\ server' \in [Servers -> ServerStages]
  BY <1>1 DEF ServerStages
<1>4. /\ Cardinality(Visited) \in Nat /\ Cardinality(Begun) \in Nat
      /\ Cardinality(Fatal) \in Nat /\ Cardinality(Ended) \in Nat
  BY ServersCounted DEF Visited, Begun, Fatal, Ended
<1>5. s \notin Visited /\ s \notin Fatal /\ s \notin Ended
      /\ (s \in Begun <=> server[s] = "listing")
  BY DEF Visited, Fatal, Ended, Begun
<1>6. /\ Visited' = Visited \cup (IF end = "listing" THEN {} ELSE {s})
      /\ Begun' = Begun \cup (IF end = "disabled" THEN {} ELSE {s})
      /\ Ended' = Ended \cup (IF end \in {"ready", "failed"} THEN {s} ELSE {})
      /\ Fatal' = Fatal \cup (IF end = "failed" /\ config[s].failPolicy = "fail" THEN {s} ELSE {})
  BY <1>1, <1>3, <1>5 DEF Visited, Begun, Ended, Fatal
<1>7. /\ Cardinality(Visited') = Cardinality(Visited) + (IF end = "listing" THEN 0 ELSE 1)
      /\ Cardinality(Begun') = Cardinality(Begun)
                               + (IF server[s] = "none" /\ end # "disabled" THEN 1 ELSE 0)
      /\ Cardinality(Ended') = Cardinality(Ended) + (IF end \in {"ready", "failed"} THEN 1 ELSE 0)
      /\ Cardinality(Fatal') = Cardinality(Fatal)
             + (IF end = "failed" /\ config[s].failPolicy = "fail" THEN 1 ELSE 0)
  <2>1. Visited \in SUBSET Servers /\ Begun \in SUBSET Servers /\ Ended \in SUBSET Servers
        /\ Fatal \in SUBSET Servers
    BY DEF Visited, Begun, Ended, Fatal
  <2>2. /\ Cardinality(Visited \cup {s}) = Cardinality(Visited) + 1
        /\ s \notin Begun => Cardinality(Begun \cup {s}) = Cardinality(Begun) + 1
        /\ Cardinality(Ended \cup {s}) = Cardinality(Ended) + 1
        /\ Cardinality(Fatal \cup {s}) = Cardinality(Fatal) + 1
    BY <1>5, <2>1, ServersCounted
  <2>3. s \in Begun => Begun \cup {s} = Begun
    OBVIOUS
  <2>4. Cardinality(Visited') = Cardinality(Visited) + (IF end = "listing" THEN 0 ELSE 1)
    <3>1. CASE end = "listing"
      BY <1>4, <1>6, <3>1
    <3>2. CASE end # "listing"
      <4>1. Visited' = Visited \cup {s}
        BY <1>6, <3>2
      <4>2. QED
        BY <2>2, <3>2, <4>1
    <3>3. QED
      BY <3>1, <3>2
  <2>5. Cardinality(Begun') = Cardinality(Begun)
                              + (IF server[s] = "none" /\ end # "disabled" THEN 1 ELSE 0)
    BY <1>4, <1>5, <1>6, <2>2, <2>3
  <2>6. Cardinality(Ended') = Cardinality(Ended) + (IF end \in {"ready", "failed"} THEN 1 ELSE 0)
    <3>1. CASE end \in {"ready", "failed"}
      <4>1. Ended' = Ended \cup {s}
        BY <1>6, <3>1
      <4>2. QED
        BY <2>2, <3>1, <4>1
    <3>2. CASE end \notin {"ready", "failed"}
      <4>1. Ended' = Ended
        BY <1>6, <3>2
      <4>2. QED
        BY <1>4, <3>2, <4>1
    <3>3. QED
      BY <3>1, <3>2
  <2>7. Cardinality(Fatal') = Cardinality(Fatal)
             + (IF end = "failed" /\ config[s].failPolicy = "fail" THEN 1 ELSE 0)
    <3>1. CASE end = "failed" /\ config[s].failPolicy = "fail"
      <4>1. Fatal' = Fatal \cup {s}
        BY <1>6, <3>1
      <4>2. QED
        BY <2>2, <3>1, <4>1
    <3>2. CASE ~ (end = "failed" /\ config[s].failPolicy = "fail")
      <4>1. Fatal' = Fatal
        BY <1>6, <3>2
      <4>2. QED
        BY <1>4, <3>2, <4>1
    <3>3. QED
      BY <3>1, <3>2
  <2>8. QED
    BY <2>4, <2>5, <2>6, <2>7
<1>8. Visited' = 1 .. Cardinality(Visited')
  BY <1>1, <1>2, <1>4, <1>6, <1>7, SMTT(20) DEF Visiting
<1>9. \A t \in Servers : t > Visiting' => server'[t] = "none"
  <2>1. Servers \subseteq Int /\ Visiting \in Nat /\ Visiting' >= Visiting
    BY <1>4, <1>7 DEF Visiting, Servers
  <2>2. QED
    BY <1>1, <1>2, <1>3, <1>4, <1>7, <2>1 DEF Visiting
<1>10. /\ \A t \in Servers : server'[t] \in {"none", "disabled", "listing", "ready", "failed"}
       /\ \A t \in Servers : server'[t] # "none" => (config'[t].enabled <=> server'[t] # "disabled")
       /\ open' = {t \in Servers : server'[t] = "listing"}
  BY <1>1, <1>2, <1>3
<1>11. /\ summary'.enabled = Cardinality(Begun') /\ summary'.required = Cardinality(Fatal')
  BY <1>1, <1>2, <1>7
<1>12. summary'.connected + summary'.required + summary'.optional >= Cardinality(Ended')
  <2> DEFINE a == summary.connected + summary.required + summary.optional
             b == sum.connected + sum.required + sum.optional
  <2>1. a \in Nat /\ b \in Nat
    <3>1. \A r \in [enabled: Nat, connected: Nat, required: Nat, optional: Nat] :
            r.connected + r.required + r.optional \in Nat
      OBVIOUS
    <3>2. QED
      BY <3>1 DEF McpInv, McpShape
  <2>2. a >= Cardinality(Ended) /\ b >= a + (IF end \in {"ready", "failed"} THEN 1 ELSE 0)
    BY <1>2
  <2> HIDE DEF a, b
  <2>3. b >= Cardinality(Ended')
    BY <1>4, <1>7, <2>1, <2>2
  <2>4. QED
    BY <1>1, <2>3 DEF b
<1>13. McpShape'
  BY <1>1, <1>3 DEF McpInv, McpShape, McpTypeOK
<1>14. StartedUp' /\ Diagnosed'
  BY <1>1, <1>8, <1>9, <1>10, <1>11, <1>12 DEF McpInv, StartedUp, Diagnosed
<1>15. QED
  BY <1>13, <1>14 DEF McpInv

LEMMA ReadyAreServers ==
  Ready \subseteq Servers /\ Fatal \subseteq Servers
BY DEF Ready, Fatal

\* A step of the diagnosis that visits a server.
LEMMA VisitsKeep ==
  ASSUME McpInv, NEW s \in Servers,
         VisitDisabled(s) \/ VisitConnects(s) \/ VisitConnectFails(s)
           \/ VisitLists(s) \/ VisitFails(s)
  PROVE  McpInv'
<1> DEFINE Counts == [enabled: Nat, connected: Nat, required: Nat, optional: Nat]
<1>1. summary \in Counts /\ open \subseteq Servers /\ config[s].enabled \in BOOLEAN
      /\ config[s].failPolicy \in {"fail", "warn"}
  BY DEF McpInv, McpShape, McpTypeOK, Configs
<1>2. mcpStage = "diagnosing" /\ s = Visiting
  BY DEF VisitDisabled, VisitConnects, VisitConnectFails, VisitLists, VisitFails, Visit
<1>3. /\ server[s] \in {"none", "listing"} /\ (server[s] = "listing" => config[s].enabled)
      /\ (s \in open <=> server[s] = "listing")
  <2>1. s \notin Visited
    <3>1. Cardinality(Visited) \in Nat /\ Visited = 1 .. Cardinality(Visited)
      BY <1>2, ServersCounted DEF McpInv, Diagnosed, Visited
    <3>2. QED
      BY <1>2, <3>1 DEF Visiting
  <2>2. QED
    BY <1>2, <2>1 DEF Visited, McpInv, Diagnosed
<1>4. /\ summary.enabled \in Nat /\ summary.connected \in Nat
      /\ summary.required \in Nat /\ summary.optional \in Nat
  BY <1>1
<1>5. CASE VisitDisabled(s)
  <2>1. open = open \ {s}
    BY <1>3, <1>5 DEF VisitDisabled
  <2>2. QED
    BY <1>1, <1>3, <1>4, <1>5, <2>1, VisitKeeps DEF VisitDisabled
<1>6. CASE VisitConnects(s)
  <2> DEFINE sum == [summary EXCEPT !.enabled = @ + 1]
  <2>1. /\ sum \in Counts /\ sum.enabled = summary.enabled + 1
        /\ sum.connected = summary.connected /\ sum.required = summary.required
        /\ sum.optional = summary.optional
    BY <1>1, <1>4
  <2>2. Visit(s, "listing", sum, open \cup {s}) /\ config[s].enabled /\ server[s] = "none"
        /\ open \cup {s} \in SUBSET Servers
    BY <1>1, <1>6 DEF VisitConnects
  <2> HIDE DEF sum
  <2>3. QED
    BY <1>1, <1>4, <2>1, <2>2, VisitKeeps
<1>7. CASE VisitConnectFails(s)
  <2> DEFINE base == [summary EXCEPT !.enabled = @ + 1]
             sum == Failures(s, base)
  <2>5. /\ base \in Counts /\ base.enabled = summary.enabled + 1
        /\ base.connected = summary.connected
        /\ base.required = summary.required /\ base.optional = summary.optional
    BY <1>1, <1>4
  <2>6. Visit(s, "failed", sum, open)
    BY <1>7 DEF VisitConnectFails
  <2> HIDE DEF base
  <2>1. /\ sum \in Counts /\ sum.enabled = summary.enabled + 1
        /\ sum.connected = summary.connected
        /\ sum.required = summary.required + (IF config[s].failPolicy = "fail" THEN 1 ELSE 0)
        /\ sum.optional = summary.optional + (IF config[s].failPolicy = "fail" THEN 0 ELSE 1)
    BY <1>1, <1>4, <2>5 DEF Failures
  <2>2. Visit(s, "failed", sum, open) /\ config[s].enabled /\ server[s] = "none" /\ open = open \ {s}
    BY <1>3, <1>7, <2>6 DEF VisitConnectFails
  <2> HIDE DEF sum
  <2>3. sum.connected + sum.required + sum.optional
          >= summary.connected + summary.required + summary.optional + 1
    BY <1>4, <2>1
  <2>4. QED
    BY <1>1, <1>4, <2>1, <2>2, <2>3, VisitKeeps
<1>8. CASE VisitLists(s)
  <2> DEFINE sum == [summary EXCEPT !.connected = @ + 1]
  <2>1. /\ sum \in Counts /\ sum.enabled = summary.enabled
        /\ sum.connected = summary.connected + 1 /\ sum.required = summary.required
        /\ sum.optional = summary.optional
    BY <1>1, <1>4
  <2>2. Visit(s, "ready", sum, open \ {s}) /\ server[s] = "listing" /\ config[s].enabled
        /\ open \ {s} \in SUBSET Servers
    BY <1>1, <1>3, <1>8 DEF VisitLists
  <2> HIDE DEF sum
  <2>3. sum.connected + sum.required + sum.optional
          >= summary.connected + summary.required + summary.optional + 1
    BY <1>4, <2>1
  <2>4. QED
    BY <1>1, <1>4, <2>1, <2>2, <2>3, VisitKeeps
<1>9. CASE VisitFails(s)
  <2>1. PICK base \in Counts :
          /\ base = summary \/ base = [summary EXCEPT !.connected = @ + 1]
          /\ Visit(s, "failed", Failures(s, base), open \ {s})
    BY <1>1, <1>4, <1>9 DEF VisitFails
  <2> DEFINE sum == Failures(s, base)
  <2>2. /\ base.enabled = summary.enabled /\ base.required = summary.required
        /\ base.optional = summary.optional
        /\ base.connected \in Nat /\ base.connected >= summary.connected
    BY <1>1, <1>4, <2>1
  <2>3. /\ sum \in Counts /\ sum.enabled = summary.enabled /\ sum.connected = base.connected
        /\ sum.required = summary.required + (IF config[s].failPolicy = "fail" THEN 1 ELSE 0)
        /\ sum.optional = summary.optional + (IF config[s].failPolicy = "fail" THEN 0 ELSE 1)
    BY <1>1, <1>4, <2>2 DEF Failures
  <2>4. Visit(s, "failed", sum, open \ {s}) /\ server[s] = "listing" /\ config[s].enabled
        /\ open \ {s} \in SUBSET Servers
    BY <1>1, <1>3, <1>9, <2>1 DEF VisitFails
  <2> HIDE DEF sum
  <2>5. sum.connected + sum.required + sum.optional
          >= summary.connected + summary.required + summary.optional + 1
    BY <1>1, <1>4, <2>2, <2>3
  <2>6. QED
    BY <1>1, <1>4, <2>3, <2>4, <2>5, VisitKeeps
<1>10. QED
  BY <1>5, <1>6, <1>7, <1>8, <1>9

LEMMA McpStepKeeps == McpInv /\ [McpNext]_mcpVars => McpInv'
<1> SUFFICES ASSUME McpInv, [McpNext]_mcpVars PROVE McpInv'
  OBVIOUS
<1>1. McpShape /\ server \in [Servers -> ServerStages] /\ open \subseteq Servers
      /\ listed \in [Servers -> Seq(ToolNames)]
  BY DEF McpInv, McpShape, McpTypeOK
<1>2. CASE StartServers
  <2>1. PICK c \in [Servers -> Configs] :
          /\ config' = c
          /\ server' = [s \in Servers |-> IF ~c[s].enabled THEN "disabled"
                                          ELSE IF c[s].name = NoName THEN "failed"
                                          ELSE "connecting"]
    BY <1>2 DEF StartServers
  <2>2. /\ mcpStage = "blank" /\ mcpStage' = "starting"
        /\ UNCHANGED <<open, listed, tools, told, summary>>
    BY <1>2 DEF StartServers
  <2>3. open = {} /\ told = "nothing"
    BY <2>2 DEF McpInv, McpShape, McpTypeOK, Diagnosed, StartedUp
  <2>4. McpShape'
    BY <1>1, <2>1, <2>2 DEF McpShape, McpTypeOK, ServerStages
  <2>5. StartedUp' /\ Diagnosed'
    BY <2>1, <2>2, <2>3 DEF StartedUp, Diagnosed
  <2>6. QED
    BY <2>4, <2>5 DEF McpInv
<1>3. CASE BundleReady
  <2>1. /\ mcpStage = "starting" /\ AllSettled /\ Fatal = {}
        /\ tools' = UNION {Wrapped(s) : s \in Ready}
        /\ mcpStage' = "up" /\ told' = "bundle"
        /\ UNCHANGED <<config, server, open, listed, summary>>
    BY <1>3 DEF BundleReady
  <2>2. open = Ready
    BY <2>1 DEF AllSettled, Ready, McpInv, StartedUp
  <2>3. Ready' = Ready /\ Fatal' = Fatal /\ \A s \in Servers : Wrapped(s)' = Wrapped(s)
    BY <2>1 DEF Ready, Fatal, Wrapped
  <2>4. UNION {Wrapped(s) : s \in Ready} = UNION {Wrapped(s)' : s \in Ready}
    BY <2>3 DEF Ready
  <2>5. McpShape'
    BY <1>1, <2>1 DEF McpShape, McpTypeOK
  <2>6. StartedUp' /\ Diagnosed'
    BY <2>1, <2>2, <2>3, <2>4 DEF StartedUp, Diagnosed
  <2>7. QED
    BY <2>5, <2>6 DEF McpInv
<1>4. CASE RollBack
  <2>1. /\ mcpStage = "starting" /\ AllSettled /\ Fatal # {} /\ open' = open \ Ready
        /\ mcpStage' = "closing" /\ UNCHANGED <<config, server, listed, tools, told, summary>>
    BY <1>4 DEF RollBack
  <2>2. open' = {} /\ told = "nothing" /\ Fatal' = Fatal
    BY <2>1 DEF AllSettled, Ready, Fatal, McpInv, StartedUp
  <2>3. QED
    BY <1>1, <2>1, <2>2 DEF McpInv, McpShape, McpTypeOK, StartedUp, Diagnosed
<1>5. CASE RolledBack
  <2>1. /\ mcpStage = "closing" /\ told = "nothing" /\ mcpStage' = "down" /\ told' = "error"
        /\ UNCHANGED <<config, server, open, listed, tools, summary>>
    BY <1>5 DEF RolledBack
  <2>2. Fatal' = Fatal
    BY <2>1 DEF Fatal
  <2>3. QED
    BY <1>1, <2>1, <2>2 DEF McpInv, McpShape, McpTypeOK, StartedUp, Diagnosed
<1>6. ASSUME CloseBundle \/ BundleClosed PROVE McpInv'
  <2>1. /\ UNCHANGED <<config, server, listed, tools, told, summary>>
        /\ mcpStage \in {"up", "closing"} /\ mcpStage' \in {"closing", "down"}
        /\ told = "bundle" /\ open' \subseteq open \ Ready
    BY <1>6 DEF CloseBundle, BundleClosed, McpInv, StartedUp
  <2>2. open' = {}
    BY <2>1 DEF McpInv, StartedUp
  <2>3. Ready' = Ready /\ Fatal' = Fatal /\ \A s \in Servers : Wrapped(s)' = Wrapped(s)
    BY <2>1 DEF Ready, Fatal, Wrapped
  <2>4. UNION {Wrapped(s) : s \in Ready} = UNION {Wrapped(s)' : s \in Ready}
    BY <2>3 DEF Ready
  <2>5. McpShape'
    BY <1>1, <2>1, <2>2 DEF McpShape, McpTypeOK
  <2>6. StartedUp' /\ Diagnosed'
    BY <2>1, <2>2, <2>3, <2>4 DEF McpInv, StartedUp, Diagnosed
  <2>7. QED
    BY <2>5, <2>6 DEF McpInv
<1>7. CASE StartDiagnosis
  <2>1. PICK c \in [Servers -> Configs] : config' = c
    BY <1>7 DEF StartDiagnosis
  <2>2. /\ mcpStage = "blank" /\ mcpStage' = "diagnosing"
        /\ UNCHANGED <<server, open, listed, tools, told, summary>>
        /\ open = {} /\ (\A s \in Servers : server[s] = "none") /\ summary = EmptySummary
    BY <1>7 DEF StartDiagnosis, McpInv, Diagnosed
  <2>3. told = "nothing"
    BY <2>2 DEF McpInv, McpShape, McpTypeOK, StartedUp
  <2>4. Visited' = {} /\ Begun' = {} /\ Fatal' = {} /\ Ended' = {}
    BY <2>2 DEF Visited, Begun, Fatal, Ended
  <2>5. Cardinality({}) = 0 /\ 1 .. 0 = {}
    BY FS_EmptySet
  <2>6. McpShape'
    BY <1>1, <2>1, <2>2 DEF McpShape, McpTypeOK
  <2>7. /\ summary'.enabled = 0 /\ summary'.required = 0
        /\ summary'.connected + summary'.required + summary'.optional >= 0
    BY <2>2 DEF EmptySummary
  <2>8. StartedUp' /\ Diagnosed'
    BY <2>2, <2>3, <2>4, <2>5, <2>7 DEF StartedUp, Diagnosed
  <2>9. QED
    BY <2>6, <2>8 DEF McpInv
<1>8. CASE DiagnosisEnds
  <2>1. /\ mcpStage = "diagnosing" /\ Visited = Servers /\ mcpStage' = "diagnosed"
        /\ UNCHANGED <<config, server, open, listed, tools, told, summary>>
    BY <1>8 DEF DiagnosisEnds
  <2>2. Visited' = Visited /\ Begun' = Begun /\ Fatal' = Fatal /\ Ended' = Ended
        /\ Visiting' = Visiting
    BY <2>1 DEF Visited, Begun, Fatal, Ended, Visiting
  <2>3. McpShape' /\ StartedUp'
    BY <1>1, <2>1 DEF McpInv, McpShape, McpTypeOK, StartedUp
  <2>4. Diagnosed'
    BY <2>1, <2>2 DEF McpInv, Diagnosed
  <2>5. QED
    BY <2>3, <2>4 DEF McpInv
<1>9. ASSUME NEW s \in Servers,
             Connects(s) \/ ConnectFails(s) \/ ListsPage(s) \/ ListsAll(s)
               \/ ListingFails(s) \/ Discarded(s)
      PROVE  McpInv'
  <2>1. mcpStage = "starting"
    BY <1>9 DEF Connects, ConnectFails, ListsPage, ListsAll, ListingFails, Discarded, StartUp
  <2>2. open = {t \in Servers : server[t] \in {"listing", "ready"}}
    BY <2>1 DEF McpInv, StartedUp
  <2> USE DEF ServerStages
  <2>3. CASE Connects(s)
    BY <1>1, <2>2, <2>3, StartUpKeeps DEF Connects
  <2>4. CASE ConnectFails(s)
    <3>1. s \notin open
      BY <2>2, <2>4 DEF ConnectFails, StartUp
    <3>2. QED
      BY <1>1, <2>4, <3>1, StartUpKeeps DEF ConnectFails
  <2>5. CASE ListsPage(s)
    <3>1. listed' \in [Servers -> Seq(ToolNames)]
      BY <1>1, <2>5 DEF ListsPage
    <3>2. /\ UNCHANGED <<mcpStage, config, server, open, tools, told, summary>>
      BY <2>5 DEF ListsPage
    <3>3. told = "nothing"
      BY <2>1 DEF McpInv, StartedUp
    <3>4. McpShape'
      BY <1>1, <3>1, <3>2 DEF McpShape, McpTypeOK, Range
    <3>5. StartedUp' /\ Diagnosed'
      BY <2>1, <2>2, <3>2, <3>3 DEF StartedUp, Diagnosed
    <3>6. QED
      BY <3>4, <3>5 DEF McpInv
  <2>6. CASE ListsAll(s)
    <3>1. s \in open
      BY <2>2, <2>6 DEF ListsAll, StartUp
    <3>2. QED
      BY <1>1, <2>6, <3>1, StartUpKeeps DEF ListsAll
  <2>7. CASE ListingFails(s)
    BY <1>1, <2>7, StartUpKeeps DEF ListingFails
  <2>8. CASE Discarded(s)
    <3>1. s \notin open
      BY <2>2, <2>8 DEF Discarded, StartUp
    <3>2. QED
      BY <1>1, <2>8, <3>1, StartUpKeeps DEF Discarded
  <2>9. QED
    BY <1>9, <2>3, <2>4, <2>5, <2>6, <2>7, <2>8
<1>10. CASE UNCHANGED mcpVars
  <2>1. UNCHANGED <<mcpStage, config, server, open, listed, tools, told, summary>>
    BY <1>10 DEF mcpVars
  <2>2. /\ Visited' = Visited /\ Begun' = Begun /\ Fatal' = Fatal /\ Ended' = Ended
        /\ Visiting' = Visiting /\ Ready' = Ready
        /\ \A s \in Servers : Wrapped(s)' = Wrapped(s)
    BY <2>1 DEF Visited, Begun, Fatal, Ended, Visiting, Ready, Wrapped
  <2>3. UNION {Wrapped(s) : s \in Ready} = UNION {Wrapped(s)' : s \in Ready}
    BY <2>2 DEF Ready
  <2>4. McpShape'
    BY <1>1, <2>1 DEF McpShape, McpTypeOK
  <2>5. StartedUp' /\ Diagnosed'
    BY <2>1, <2>2, <2>3 DEF McpInv, StartedUp, Diagnosed
  <2>6. QED
    BY <2>4, <2>5 DEF McpInv
<1>11. QED
  BY <1>2, <1>3, <1>4, <1>5, <1>6, <1>7, <1>8, <1>9, <1>10, VisitsKeep DEF McpNext

LEMMA McpInvAccounts == McpInv => McpAccounted
<1> SUFFICES ASSUME McpInv PROVE McpAccounted
  OBVIOUS
<1>1. McpTypeOK
  BY DEF McpInv, McpShape
<1>2. NoClientLeft
  <2>1. mcpStage = "diagnosed" => open = {}
    BY DEF McpInv, Diagnosed, Visited
  <2>2. QED
    BY <2>1 DEF McpInv, StartedUp, NoClientLeft
<1>3. OptionalServersOptional
  <2>1. ASSUME told = "bundle"
        PROVE  /\ {t[3] : t \in tools} \subseteq Ready
               /\ \A s \in Ready : \A t \in Range(listed[s]) : <<config[s].name, t, s>> \in tools
    <3>1. tools = UNION {Wrapped(s) : s \in Ready}
      BY <2>1 DEF McpInv, StartedUp
    <3>2. \A t \in tools : t[3] \in Ready
      <4>1. ASSUME NEW t \in tools PROVE t[3] \in Ready
        <5>1. PICK s \in Ready : t \in Wrapped(s)
          BY <3>1
        <5>2. t[3] = s
          BY <5>1 DEF Wrapped
        <5>3. QED
          BY <5>2
      <4>2. QED
        BY <4>1
    <3>3. ASSUME NEW s \in Ready, NEW t \in Range(listed[s])
          PROVE  <<config[s].name, t, s>> \in tools
      <4>1. <<config[s].name, t, s>> \in Wrapped(s)
        BY DEF Wrapped
      <4>2. QED
        BY <3>1, <4>1
    <3>4. QED
      BY <3>2, <3>3
  <2>2. QED
    BY <2>1 DEF McpInv, StartedUp, OptionalServersOptional
<1>4. ReportAccounts
  <2> SUFFICES ASSUME mcpStage = "diagnosed"
               PROVE  /\ summary.enabled = Cardinality({s \in Servers : config[s].enabled})
                      /\ summary.connected + summary.required + summary.optional >= summary.enabled
                      /\ ReportOk <=> Fatal = {}
    BY DEF ReportAccounts
  <2>1. /\ Visited = Servers /\ \A s \in Servers : config[s].enabled <=> server[s] # "disabled"
        /\ summary.enabled = Cardinality(Begun) /\ summary.required = Cardinality(Fatal)
        /\ summary.connected + summary.required + summary.optional >= Cardinality(Ended)
    BY DEF McpInv, Diagnosed, Visited
  <2>2. {s \in Servers : config[s].enabled} = Begun /\ Begun = Ended
    BY <2>1 DEF Visited, Begun, Ended
  <2>3. Fatal = {} <=> Cardinality(Fatal) = 0
    <3>1. IsFiniteSet(Fatal)
      BY ServersCounted DEF Fatal
    <3>2. QED
      BY <3>1, FS_EmptySet
  <2>4. QED
    BY <2>1, <2>2, <2>3 DEF ReportOk
<1>5. QED
  BY <1>1, <1>2, <1>3, <1>4 DEF McpAccounted

\* However the start-ups of the servers interleave and whichever of them fail: no
\* client is left open, an optional server costs its own tools only, and a
\* diagnosis accounts for every server.
THEOREM McpIsAccounted == McpSpec => []McpAccounted
BY McpInitHolds, McpStepKeeps, McpInvAccounts, PTL DEF McpSpec

-------------------------------------------------------------------------------
(* Delegations.                                                              *)

\* How many summaries of each kind the parent's session has of a child.
ToldOf(t, done, failed) ==
  Summaries(t, "completed") = done /\ Summaries(t, "errored") = failed

\* What a child was told to the parent as, wherever it stands; a loop that is
\* still running though nobody waits for it was given up by the signal.
ChildTold(t) ==
  /\ child[t] \in {"none", "looping"} => ToldOf(t, 0, 0)
  /\ child[t] \in {"saving", "completed"} => ToldOf(t, 1, 0)
  /\ child[t] = "errored" => ToldOf(t, 0, 1) \/ (Keeps /\ t \notin loops /\ ToldOf(t, 1, 1))
  /\ child[t] = "threw" => ToldOf(t, 0, 0) \/ (Keeps /\ t \notin loops /\ ToldOf(t, 1, 0))
  /\ child[t] = "saving" => Keeps
  /\ child[t] # "none" => t \in tasks
  /\ t \in transcripts <=> Keeps /\ child[t] = "completed"
  /\ child[t] = "looping" => t \in loops
  /\ t \in loops => \/ child[t] = "looping"
                    \/ child[t] = "errored" /\ callerSignal = "timeout"
                    \/ child[t] = "threw" /\ callerSignal = "user"

SubInv ==
  /\ SubTypeOK
  /\ \A t \in Children : ChildTold(t)
  /\ subStage = "blank" => /\ branches = <<>> /\ \A t \in Children : child[t] = "none"
                           /\ transcripts = {} /\ loops = {} /\ callerSignal = "on"
  /\ subStage \in {"answered", "threw"} =>
       \A t \in Children : child[t] \notin {"looping", "saving"}

LEMMA NothingTold ==
  ASSUME branches = <<>>
  PROVE  \A t \in Children : ToldOf(t, 0, 0)
<1>1. \A t \in Children, s \in Status : {i \in 1 .. Len(branches) : branches[i] = [child |-> t, status |-> s]} = {}
  OBVIOUS
<1>2. QED
  BY <1>1, FS_EmptySet DEF ToldOf, Summaries, Status

\* A summary is one more of its kind for its child, and nothing to any other.
LEMMA Summarised ==
  ASSUME SubTypeOK, NEW t \in Children, NEW s \in Status, Summarise(t, s)
  PROVE  /\ branches' \in Seq(Entries)
         /\ \A u \in Children, r \in Status :
              /\ Summaries(u, r) \in Nat
              /\ Summaries(u, r)' = Summaries(u, r) + (IF u = t /\ r = s THEN 1 ELSE 0)
<1> DEFINE At(seq, u, r) == {i \in 1 .. Len(seq) : seq[i] = [child |-> u, status |-> r]}
<1>1. /\ branches \in Seq(Entries) /\ branches' = Append(branches, [child |-> t, status |-> s])
      /\ [child |-> t, status |-> s] \in Entries
  BY DEF SubTypeOK, Summarise, Entries
<1>2. /\ branches' \in Seq(Entries) /\ Len(branches') = Len(branches) + 1 /\ Len(branches) \in Nat
      /\ branches'[Len(branches) + 1] = [child |-> t, status |-> s]
      /\ \A i \in 1 .. Len(branches) : branches'[i] = branches[i]
  BY <1>1
<1>3. ASSUME NEW u \in Children, NEW r \in Status
      PROVE  /\ Summaries(u, r) \in Nat
             /\ Summaries(u, r)' = Summaries(u, r) + (IF u = t /\ r = s THEN 1 ELSE 0)
  <2>1. IsFiniteSet(At(branches, u, r)) /\ Cardinality(At(branches, u, r)) \in Nat
    <3>1. 1 \in Int /\ Len(branches) \in Int
      BY <1>2
    <3>2. IsFiniteSet(1 .. Len(branches))
      BY <3>1, FS_Interval
    <3>3. IsFiniteSet(At(branches, u, r))
      BY <3>2, FS_Subset
    <3>4. QED
      BY <3>3, FS_CardinalityType
  <2>2. [child |-> t, status |-> s] = [child |-> u, status |-> r] <=> u = t /\ r = s
    <3>1. /\ [child |-> t, status |-> s].child = t /\ [child |-> t, status |-> s].status = s
          /\ [child |-> u, status |-> r].child = u /\ [child |-> u, status |-> r].status = r
      OBVIOUS
    <3>2. QED
      BY <3>1
  <2>3. CASE u = t /\ r = s
    <3>1. /\ At(branches', u, r) = At(branches, u, r) \cup {Len(branches) + 1}
          /\ Len(branches) + 1 \notin At(branches, u, r)
      BY <1>2, <2>3
    <3>2. Cardinality(At(branches', u, r)) = Cardinality(At(branches, u, r)) + 1
      BY <2>1, <3>1, FS_AddElement
    <3>3. QED
      BY <2>1, <2>3, <3>2 DEF Summaries
  <2>4. CASE ~ (u = t /\ r = s)
    <3>1. At(branches', u, r) = At(branches, u, r)
      BY <1>2, <2>2, <2>4
    <3>2. Summaries(u, r)' = Summaries(u, r) /\ Summaries(u, r) \in Nat
      BY <2>1, <3>1 DEF Summaries
    <3>3. QED
      BY <2>4, <3>2
  <2>5. QED
    BY <2>3, <2>4
<1>4. QED
  BY <1>2, <1>3

LEMMA ToldAgain ==
  ASSUME SubTypeOK, NEW t \in Children, NEW s \in Status, Summarise(t, s)
  PROVE  /\ branches' \in Seq(Entries)
         /\ \A u \in Children \ {t} : \A m, n \in Nat : ToldOf(u, m, n)' <=> ToldOf(u, m, n)
         /\ s = "completed" => \A m, n \in Nat : ToldOf(t, m, n) => ToldOf(t, m + 1, n)'
         /\ s = "errored" => \A m, n \in Nat : ToldOf(t, m, n) => ToldOf(t, m, n + 1)'
<1>1. \A u \in Children, r \in Status :
        /\ Summaries(u, r) \in Nat
        /\ Summaries(u, r)' = Summaries(u, r) + (IF u = t /\ r = s THEN 1 ELSE 0)
  BY Summarised
<1>2. "completed" \in Status /\ "errored" \in Status
  BY DEF Status
<1>3. \A u \in Children \ {t}, r \in Status : Summaries(u, r)' = Summaries(u, r)
  BY <1>1
<1>4. s = "completed" => /\ Summaries(t, "completed")' = Summaries(t, "completed") + 1
                         /\ Summaries(t, "errored")' = Summaries(t, "errored")
  BY <1>1, <1>2
<1>5. s = "errored" => /\ Summaries(t, "errored")' = Summaries(t, "errored") + 1
                       /\ Summaries(t, "completed")' = Summaries(t, "completed")
  BY <1>1, <1>2
<1>6. QED
  BY <1>2, <1>3, <1>4, <1>5, Summarised DEF ToldOf

LEMMA SameTold ==
  ASSUME UNCHANGED branches
  PROVE  \A t, m, n : ToldOf(t, m, n)' <=> ToldOf(t, m, n)
BY DEF ToldOf, Summaries

-------------------------------------------------------------------------------
LEMMA SubInitHolds == SubInit => SubInv
<1> SUFFICES ASSUME SubInit PROVE SubInv
  OBVIOUS
<1>1. \A t \in Children : ToldOf(t, 0, 0)
  BY NothingTold DEF SubInit
<1>2. SubTypeOK
  BY DEF SubInit, SubTypeOK, ChildStages, Status
<1>3. QED
  BY <1>1, <1>2 DEF SubInit, SubInv, ChildTold

\* A child's step changes where it stands, and no other child.
LEMMA ChildStepKeeps ==
  ASSUME SubInv, subStage = "running", NEW t \in Children, t \in tasks, NEW to \in ChildStages,
         Becomes(t, to), SubTypeOK', ChildTold(t)',
         \A u \in Children \ {t} : /\ \A m, n \in Nat : ToldOf(u, m, n)' <=> ToldOf(u, m, n)
                                   /\ u \in loops' <=> u \in loops
                                   /\ u \in transcripts' <=> u \in transcripts
  PROVE  SubInv'
<1>1. /\ child' = [child EXCEPT ![t] = to] /\ child \in [Children -> ChildStages]
      /\ UNCHANGED <<subStage, batch, tasks, callerSignal, outputs>>
  BY DEF SubInv, SubTypeOK, Becomes
<1>2. ASSUME NEW u \in Children \ {t} PROVE ChildTold(u)'
  <2>1. child'[u] = child[u] /\ ChildTold(u)
    BY <1>1 DEF SubInv
  <2>2. /\ ToldOf(u, 0, 0)' <=> ToldOf(u, 0, 0)
        /\ ToldOf(u, 1, 0)' <=> ToldOf(u, 1, 0)
        /\ ToldOf(u, 0, 1)' <=> ToldOf(u, 0, 1)
        /\ ToldOf(u, 1, 1)' <=> ToldOf(u, 1, 1)
    OBVIOUS
  <2> HIDE DEF ToldOf
  <2>3. QED
    BY <1>1, <2>1, <2>2 DEF ChildTold
<1>3. QED
  BY <1>1, <1>2 DEF SubInv

\* A child runs only while the call does, and has a task.
LEMMA ChildRunning ==
  ASSUME SubInv, NEW t \in Children, child[t] \in {"looping", "saving"}
  PROVE  subStage = "running" /\ t \in tasks /\ ChildTold(t)
BY DEF SubInv, SubTypeOK, ChildTold

LEMMA CatchKeeps ==
  ASSUME SubInv, NEW t \in Children, child[t] \in {"looping", "saving"},
         NEW late \in BOOLEAN, Catch(t, late), UNCHANGED transcripts,
         loops' = loops \/ loops' = loops \ {t},
         child[t] = "looping" /\ t \in loops' =>
           (callerSignal = "timeout" /\ late) \/ (callerSignal = "user" /\ ~late)
  PROVE  SubInv'
<1>1. subStage = "running" /\ t \in tasks /\ ChildTold(t)
  BY ChildRunning
<1>2. SubTypeOK /\ child \in [Children -> ChildStages] /\ callerSignal \in {"on", "user", "timeout"}
  BY DEF SubInv, SubTypeOK
<1>3. CASE callerSignal = "user" /\ ~late
  <2>1. Becomes(t, "threw") /\ UNCHANGED branches
    BY <1>3 DEF Catch
  <2>2. SubTypeOK'
    BY <1>2, <2>1 DEF SubTypeOK, Becomes, ChildStages
  <2>3. ChildTold(t)'
    <3>1. \A m, n \in Nat : ToldOf(t, m, n)' <=> ToldOf(t, m, n)
      BY <2>1, SameTold
    <3>2. child'[t] = "threw" /\ UNCHANGED <<callerSignal, tasks>>
      BY <1>2, <2>1 DEF Becomes
    <3>3. QED
      BY <1>1, <1>3, <3>1, <3>2 DEF ChildTold
  <2>4. QED
    BY <1>1, <2>1, <2>2, <2>3, SameTold, ChildStepKeeps DEF ChildStages
<1>4. CASE ~ (callerSignal = "user" /\ ~late)
  <2>1. Becomes(t, "errored") /\ Summarise(t, "errored")
    BY <1>4 DEF Catch
  <2>2. /\ branches' \in Seq(Entries)
        /\ \A u \in Children \ {t} : \A m, n \in Nat : ToldOf(u, m, n)' <=> ToldOf(u, m, n)
        /\ ToldOf(t, 0, 0) => ToldOf(t, 0, 0 + 1)'
        /\ ToldOf(t, 1, 0) => ToldOf(t, 1, 0 + 1)'
    BY <1>2, <2>1, ToldAgain DEF Status
  <2>3. SubTypeOK'
    BY <1>2, <2>1, <2>2 DEF SubTypeOK, Becomes, ChildStages
  <2>4. ChildTold(t)'
    <3>1. child'[t] = "errored" /\ UNCHANGED <<callerSignal, tasks>>
      BY <1>2, <2>1 DEF Becomes
    <3>2. ToldOf(t, 0, 0) => ToldOf(t, 0, 1)'
      BY <2>2
    <3>3. ToldOf(t, 1, 0) => ToldOf(t, 1, 1)'
      BY <2>2
    <3>4. QED
      BY <1>1, <1>4, <3>1, <3>2, <3>3 DEF ChildTold
  <2>5. QED
    BY <1>1, <2>1, <2>2, <2>3, <2>4, ChildStepKeeps DEF ChildStages
<1>5. QED
  BY <1>3, <1>4

LEMMA ChildAnswersKeeps ==
  ASSUME SubInv, NEW t \in Children, ChildAnswers(t)
  PROVE  SubInv'
<1> DEFINE to == IF Keeps THEN "saving" ELSE "completed"
<1>1. /\ child[t] = "looping" /\ Becomes(t, to) /\ loops' = loops \ {t}
      /\ Summarise(t, "completed") /\ UNCHANGED transcripts /\ to \in ChildStages
  BY DEF ChildAnswers, ChildStages
<1>2. subStage = "running" /\ t \in tasks /\ ChildTold(t)
  BY <1>1, ChildRunning
<1>3. SubTypeOK /\ child \in [Children -> ChildStages]
  BY DEF SubInv, SubTypeOK
<1>4. /\ branches' \in Seq(Entries)
      /\ \A u \in Children \ {t} : \A m, n \in Nat : ToldOf(u, m, n)' <=> ToldOf(u, m, n)
      /\ ToldOf(t, 0, 0) => ToldOf(t, 0 + 1, 0)'
  BY <1>1, <1>3, ToldAgain DEF Status
<1>5. SubTypeOK'
  BY <1>1, <1>3, <1>4 DEF SubTypeOK, Becomes
<1>6. ChildTold(t)'
  <2>1. child'[t] = to /\ UNCHANGED <<callerSignal, tasks, transcripts>>
    BY <1>1, <1>3 DEF Becomes
  <2>2. ToldOf(t, 0, 0) => ToldOf(t, 1, 0)'
    BY <1>4
  <2>3. ToldOf(t, 1, 0)' /\ t \notin transcripts' /\ t \notin loops' /\ t \in tasks'
    BY <1>1, <1>2, <2>1, <2>2 DEF ChildTold
  <2>4. QED
    BY <2>1, <2>3, SubagentAssumption DEF ChildTold
<1>7. QED
  BY <1>1, <1>2, <1>4, <1>5, <1>6, ChildStepKeeps

LEMMA SavedKeeps ==
  ASSUME SubInv, NEW t \in Children, Saved(t)
  PROVE  SubInv'
<1>1. /\ child[t] = "saving" /\ Becomes(t, "completed") /\ transcripts' = transcripts \cup {t}
      /\ UNCHANGED <<loops, branches>> /\ "completed" \in ChildStages
  BY DEF Saved, ChildStages
<1>2. subStage = "running" /\ t \in tasks /\ ChildTold(t)
  BY <1>1, ChildRunning
<1>3. SubTypeOK /\ child \in [Children -> ChildStages]
  BY DEF SubInv, SubTypeOK
<1>4. SubTypeOK'
  BY <1>1, <1>2, <1>3 DEF SubTypeOK, Becomes
<1>5. ChildTold(t)'
  <2>1. child'[t] = "completed" /\ UNCHANGED <<callerSignal, tasks>> /\ t \in transcripts'
    BY <1>1, <1>3 DEF Becomes
  <2>2. ToldOf(t, 1, 0)' <=> ToldOf(t, 1, 0)
    BY <1>1, SameTold
  <2>3. QED
    BY <1>1, <1>2, <2>1, <2>2 DEF ChildTold
<1>6. QED
  BY <1>1, <1>2, <1>4, <1>5, SameTold, ChildStepKeeps

LEMMA TranscriptFailsKeeps ==
  ASSUME SubInv, NEW t \in Children, TranscriptFails(t)
  PROVE  SubInv'
<1>1. child[t] = "saving" /\ UNCHANGED <<loops, transcripts>>
  BY DEF TranscriptFails
<1>2. CASE callerSignal = "on"
  BY <1>1, <1>2, CatchKeeps DEF TranscriptFails
<1>3. CASE callerSignal # "on"
  <2>1. Becomes(t, "threw") /\ UNCHANGED branches /\ "threw" \in ChildStages
    BY <1>3 DEF TranscriptFails, ChildStages
  <2>2. subStage = "running" /\ t \in tasks /\ ChildTold(t)
    BY <1>1, ChildRunning
  <2>3. SubTypeOK /\ child \in [Children -> ChildStages]
    BY DEF SubInv, SubTypeOK
  <2>4. SubTypeOK'
    BY <1>1, <2>1, <2>3 DEF SubTypeOK, Becomes
  <2>5. ChildTold(t)'
    <3>1. child'[t] = "threw" /\ UNCHANGED <<callerSignal, tasks>>
      BY <2>1, <2>3 DEF Becomes
    <3>2. ToldOf(t, 1, 0)' <=> ToldOf(t, 1, 0)
      BY <2>1, SameTold
    <3>3. QED
      BY <1>1, <2>2, <3>1, <3>2 DEF ChildTold
  <2>6. QED
    BY <1>1, <2>1, <2>2, <2>4, <2>5, SameTold, ChildStepKeeps
<1>4. QED
  BY <1>2, <1>3

\* The end of a loop that nobody waits for, or the abort, tells nothing.
LEMMA NobodyHears ==
  ASSUME SubInv, subStage # "blank", UNCHANGED <<subStage, batch, tasks, child, branches, transcripts, outputs>>,
         \/ loops' = loops /\ callerSignal' = callerSignal
         \/ \E t \in Children : /\ t \in loops /\ child[t] # "looping" /\ loops' = loops \ {t}
                                /\ callerSignal' = callerSignal
         \/ loops' = loops /\ callerSignal = "on" /\ callerSignal' \in {"user", "timeout"}
  PROVE  SubInv'
<1>1. SubTypeOK'
  BY DEF SubInv, SubTypeOK
<1>2. ASSUME NEW u \in Children PROVE ChildTold(u)'
  <2>1. ChildTold(u)
    BY DEF SubInv
  <2>2. /\ ToldOf(u, 0, 0)' <=> ToldOf(u, 0, 0)
        /\ ToldOf(u, 1, 0)' <=> ToldOf(u, 1, 0)
        /\ ToldOf(u, 0, 1)' <=> ToldOf(u, 0, 1)
        /\ ToldOf(u, 1, 1)' <=> ToldOf(u, 1, 1)
    BY SameTold
  <2> HIDE DEF ToldOf
  <2>3. QED
    BY <2>1, <2>2 DEF ChildTold
<1>3. QED
  BY <1>1, <1>2 DEF SubInv

LEMMA SubStepKeeps == SubInv /\ [SubNext]_subVars => SubInv'
<1> SUFFICES ASSUME SubInv, [SubNext]_subVars PROVE SubInv'
  OBVIOUS
<1>1. CASE Delegate
  <2>1. PICK n \in Children, unknown \in SUBSET Children :
          /\ tasks' = 1 .. n
          /\ child' = [t \in Children |-> IF t > n THEN "none"
                                          ELSE IF t \in unknown THEN "threw" ELSE "looping"]
          /\ loops' = (1 .. n) \ unknown
    BY <1>1 DEF Delegate
  <2>2. /\ subStage = "blank" /\ subStage' = "running"
        /\ UNCHANGED <<branches, transcripts, callerSignal, outputs>>
        /\ branches = <<>> /\ transcripts = {} /\ callerSignal = "on"
    BY <1>1 DEF Delegate, SubInv
  <2>3. 1 .. n \subseteq Children /\ \A t \in Children : t > n <=> t \notin 1 .. n
    BY SubagentAssumption DEF Children
  <2>4. SubTypeOK'
    BY <2>1, <2>2, <2>3 DEF SubInv, SubTypeOK, ChildStages
  <2>5. ASSUME NEW t \in Children PROVE ChildTold(t)'
    <3>1. ToldOf(t, 0, 0)'
      BY <2>2, NothingTold, SameTold
    <3>2. QED
      BY <2>1, <2>2, <2>3, <3>1 DEF ChildTold
  <2>6. QED
    BY <2>2, <2>4, <2>5 DEF SubInv
<1>2. CASE Misuse
  <2>1. /\ subStage = "blank" /\ subStage' = "threw"
        /\ UNCHANGED <<batch, tasks, child, loops, branches, transcripts, callerSignal, outputs>>
    BY <1>2 DEF Misuse
  <2>2. \A t \in Children : ChildTold(t)'
    BY <2>1, SameTold DEF SubInv, ChildTold
  <2>3. QED
    BY <2>1, <2>2 DEF SubInv, SubTypeOK
<1>3. CASE AbortParent
  BY <1>3, NobodyHears DEF AbortParent
<1>4. CASE Answer
  <2>1. /\ subStage = "running" /\ ChildrenSettled /\ subStage' \in {"answered", "threw"}
        /\ UNCHANGED <<batch, tasks, child, loops, branches, transcripts, callerSignal>>
    BY <1>4 DEF Answer
  <2>2. \A t \in Children : child[t] \in {"none", "completed", "errored", "threw"}
    BY <2>1 DEF ChildrenSettled, SubInv, ChildTold
  <2>3. \A t \in Children : ChildTold(t)'
    BY <2>1, SameTold DEF SubInv, ChildTold
  <2>4. outputs' \in [Children -> Status \cup {"none"}]
    BY <1>4, <2>2 DEF Answer, Status, SubInv, SubTypeOK
  <2>5. QED
    BY <2>1, <2>2, <2>3, <2>4 DEF SubInv, SubTypeOK
<1>5. CASE \E t \in Children : ChildAnswers(t)
  BY <1>5, ChildAnswersKeeps
<1>6. CASE \E t \in Children : Saved(t)
  BY <1>6, SavedKeeps
<1>7. CASE \E t \in Children : TranscriptFails(t)
  BY <1>7, TranscriptFailsKeeps
<1>8. CASE \E t \in Children : LoopFails(t)
  BY <1>8, CatchKeeps DEF LoopFails
<1>9. CASE \E t \in Children : GivenUp(t)
  <2>1. callerSignal \in {"on", "user", "timeout"}
    BY DEF SubInv, SubTypeOK
  <2>2. PICK t \in Children : GivenUp(t)
    BY <1>9
  <2> DEFINE late == callerSignal = "timeout"
  <2>3. /\ child[t] = "looping" /\ callerSignal # "on" /\ Catch(t, late)
        /\ UNCHANGED <<loops, transcripts>> /\ late \in BOOLEAN
    BY <2>2 DEF GivenUp
  <2>4. (callerSignal = "timeout" /\ late) \/ (callerSignal = "user" /\ ~late)
    BY <2>1, <2>3
  <2> HIDE DEF late
  <2>5. QED
    BY <2>3, <2>4, CatchKeeps
<1>10. CASE \E t \in Children : ZombieEnds(t)
  <2>1. PICK t \in Children : ZombieEnds(t)
    BY <1>10
  <2>2. subStage # "blank"
    BY <2>1 DEF ZombieEnds, SubInv
  <2>3. QED
    BY <2>1, <2>2, NobodyHears DEF ZombieEnds
<1>11. CASE UNCHANGED subVars
  <2>1. \A t \in Children : ChildTold(t)'
    BY <1>11, SameTold DEF SubInv, ChildTold, subVars
  <2>2. QED
    BY <1>11, <2>1 DEF SubInv, SubTypeOK, subVars
<1>12. QED
  BY <1>1, <1>2, <1>3, <1>4, <1>5, <1>6, <1>7, <1>8, <1>9, <1>10, <1>11 DEF SubNext, SubStep

LEMMA SubInvAccounts == SubInv => DelegationAccounted
<1> SUFFICES ASSUME SubInv PROVE DelegationAccounted
  OBVIOUS
<1>1. \A t \in tasks : t \in Children /\ ChildTold(t)
  BY DEF SubInv, SubTypeOK
<1>2. callerSignal \in {"on", "user", "timeout"}
  BY DEF SubInv, SubTypeOK
<1>3. BranchesAgree
  BY <1>1 DEF BranchesAgree, ChildTold, ToldOf
<1>4. AbortLeavesNoBranch
  BY <1>1 DEF AbortLeavesNoBranch, ChildTold, ToldOf
<1>5. QED
  BY <1>3, <1>4 DEF SubInv, DelegationAccounted

\* Whatever its children do, in whatever order their answers, their saves and an
\* abort meet: a delegation tells the parent's session of each child what it
\* answers the model.
THEOREM DelegationIsAccounted == SubSpec => []DelegationAccounted
BY SubInitHolds, SubStepKeeps, SubInvAccounts, PTL DEF SubSpec

\* After the call's answer no child is heard of again.
THEOREM AbandonedStaySilent == SubSpec => AbandonedSilent
<1>1. SubInv /\ [SubNext]_subVars =>
        [(subStage \in {"answered", "threw"}) => branches' = branches]_subVars
  <2> SUFFICES ASSUME SubInv, SubNext, subStage \in {"answered", "threw"}
               PROVE  branches' = branches
    BY DEF subVars
  <2>1. \A t \in Children : child[t] \notin {"looping", "saving"}
    BY DEF SubInv
  <2>2. QED
    BY <2>1 DEF SubNext, SubStep, Delegate, Misuse, AbortParent, Answer, ChildAnswers, Saved,
       TranscriptFails, LoopFails, GivenUp, ZombieEnds
<1>2. QED
  BY <1>1, SubInitHolds, SubStepKeeps, PTL DEF SubSpec, AbandonedSilent

-------------------------------------------------------------------------------
(* Numbers written out, and sums of sizes.                                   *)

\* The lengths of the numbers below n, from the shortest on.
DigitsBelow(n, g) ==
  g = [i \in 0 .. n - 1 |-> IF i < 10 THEN 1 ELSE 1 + g[i \div 10]]

LEMMA TenthIsLess ==
  ASSUME NEW n \in Nat
  PROVE  /\ n \div 10 \in Nat
         /\ n >= 10 => n \div 10 < n
         /\ (n + 1) \div 10 \in {n \div 10, n \div 10 + 1}
OBVIOUS

\* Digits is the function its equation describes.
LEMMA DigitsExist ==
  \E g : g = [n \in Nat |-> IF n < 10 THEN 1 ELSE 1 + g[n \div 10]]
<1> DEFINE Bad == {n \in Nat : ~ \E g : DigitsBelow(n, g)}
<1>1. Bad = {}
  <2>1. SUFFICES ASSUME Bad # {} PROVE FALSE
    OBVIOUS
  <2>2. PICK n \in Bad : \A m \in Bad : n <= m
    <3>1. Bad \subseteq Nat
      OBVIOUS
    <3> HIDE DEF Bad
    <3>2. QED
      BY <2>1, <3>1, LeastExists
  <2>3. n \in Nat /\ ~ \E g : DigitsBelow(n, g)
    BY <2>2
  <2>4. n # 0
    <3>1. DigitsBelow(0, [i \in 0 .. -1 |-> 1])
      BY DEF DigitsBelow
    <3>2. QED
      BY <2>3, <3>1, Zenon
  <2>5. n - 1 \in Nat /\ ~ (n <= n - 1)
    BY <2>3, <2>4
  <2>6. PICK g : DigitsBelow(n - 1, g)
    <3>1. n - 1 \notin Bad
      BY <2>2, <2>5, Zenon
    <3>2. QED
      BY <2>5, <3>1, Zenon
  <2> DEFINE h == [i \in 0 .. n - 1 |-> IF i < 10 THEN 1 ELSE 1 + g[i \div 10]]
  <2>7. \A i \in 0 .. n - 2 : h[i] = g[i]
    BY <2>3, <2>4, <2>6 DEF DigitsBelow
  <2>8. \A i \in 0 .. n - 1 : h[i] = IF i < 10 THEN 1 ELSE 1 + h[i \div 10]
    <3> SUFFICES ASSUME NEW i \in 0 .. n - 1
                 PROVE  h[i] = IF i < 10 THEN 1 ELSE 1 + h[i \div 10]
      OBVIOUS
    <3>1. i >= 10 => i \div 10 \in 0 .. n - 2
      BY <2>3, TenthIsLess
    <3>2. h[i] = IF i < 10 THEN 1 ELSE 1 + g[i \div 10]
      OBVIOUS
    <3>3. i >= 10 => h[i \div 10] = g[i \div 10]
      BY <2>7, <3>1
    <3> HIDE DEF h
    <3>4. QED
      BY <3>2, <3>3
  <2>9. DigitsBelow(n, h)
    <3>1. h = [i \in 0 .. n - 1 |-> h[i]]
      OBVIOUS
    <3> HIDE DEF h
    <3>2. QED
      BY <2>8, <3>1 DEF DigitsBelow
  <2> HIDE DEF h
  <2>10. QED
    BY <2>3, <2>9, Zenon
<1>2. \A n \in Nat : \E g : DigitsBelow(n, g)
  BY <1>1, Zenon
<1> HIDE DEF Bad
<1> DEFINE f(n) == CHOOSE g : DigitsBelow(n, g)
<1>3. \A n \in Nat : DigitsBelow(n, f(n))
  BY <1>2, Zenon
<1> HIDE DEF f
<1>4. \A n \in Nat : \A i \in 0 .. n - 1 : f(n)[i] = IF i < 10 THEN 1 ELSE 1 + f(n)[i \div 10]
  BY <1>3 DEF DigitsBelow
<1>5. \A n, m \in Nat : \A i \in Nat : i < n /\ i < m => f(n)[i] = f(m)[i]
  <2> SUFFICES ASSUME NEW n \in Nat, NEW m \in Nat
               PROVE  \A i \in Nat : i < n /\ i < m => f(n)[i] = f(m)[i]
    OBVIOUS
  <2> DEFINE Apart == {i \in Nat : i < n /\ i < m /\ f(n)[i] # f(m)[i]}
  <2>1. SUFFICES ASSUME Apart # {} PROVE FALSE
    OBVIOUS
  <2>2. PICK i \in Apart : \A j \in Apart : i <= j
    <3>1. Apart \subseteq Nat
      OBVIOUS
    <3> HIDE DEF Apart
    <3>2. QED
      BY <2>1, <3>1, LeastExists
  <2>3. i \in Nat /\ i < n /\ i < m /\ f(n)[i] # f(m)[i]
    BY <2>2
  <2>4. /\ f(n)[i] = IF i < 10 THEN 1 ELSE 1 + f(n)[i \div 10]
        /\ f(m)[i] = IF i < 10 THEN 1 ELSE 1 + f(m)[i \div 10]
    <3>1. i \in 0 .. n - 1 /\ i \in 0 .. m - 1
      BY <2>3
    <3>2. QED
      BY <1>4, <3>1
  <2>5. i >= 10
    BY <2>3, <2>4
  <2>6. i \div 10 \in Nat /\ i \div 10 < i
    BY <2>3, <2>5, TenthIsLess
  <2>7. i \div 10 \notin Apart
    <3>1. ~ (i <= i \div 10)
      BY <2>3, <2>6
    <3>2. QED
      BY <2>2, <3>1, Zenon
  <2>8. f(n)[i \div 10] = f(m)[i \div 10]
    <3>1. i \div 10 < n /\ i \div 10 < m
      BY <2>3, <2>6
    <3>2. QED
      BY <2>6, <2>7, <3>1
  <2>9. QED
    BY <2>3, <2>4, <2>8
<1> DEFINE d == [n \in Nat |-> f(n + 1)[n]]
<1>6. \A n \in Nat : d[n] = IF n < 10 THEN 1 ELSE 1 + d[n \div 10]
  <2> SUFFICES ASSUME NEW n \in Nat
               PROVE  d[n] = IF n < 10 THEN 1 ELSE 1 + d[n \div 10]
    OBVIOUS
  <2>1. f(n + 1)[n] = IF n < 10 THEN 1 ELSE 1 + f(n + 1)[n \div 10]
    <3>1. n + 1 \in Nat /\ n \in 0 .. (n + 1) - 1
      OBVIOUS
    <3>2. QED
      BY <1>4, <3>1
  <2>2. n >= 10 => f(n + 1)[n \div 10] = f(n \div 10 + 1)[n \div 10]
    <3>1. SUFFICES ASSUME n >= 10 PROVE f(n + 1)[n \div 10] = f(n \div 10 + 1)[n \div 10]
      OBVIOUS
    <3>2. n \div 10 \in Nat /\ n \div 10 < n
      BY <3>1, TenthIsLess
    <3>3. n + 1 \in Nat /\ n \div 10 + 1 \in Nat /\ n \div 10 < n + 1 /\ n \div 10 < n \div 10 + 1
      BY <3>2
    <3>4. QED
      BY <1>5, <3>2, <3>3
  <2>3. d[n] = f(n + 1)[n] /\ (n >= 10 => d[n \div 10] = f(n \div 10 + 1)[n \div 10])
    BY TenthIsLess
  <2> HIDE DEF d
  <2>4. QED
    BY <2>1, <2>2, <2>3
<1>7. d = [n \in Nat |-> IF n < 10 THEN 1 ELSE 1 + d[n \div 10]]
  <2>1. d = [n \in Nat |-> d[n]]
    OBVIOUS
  <2> HIDE DEF d
  <2>2. QED
    BY <1>6, <2>1
<1> HIDE DEF d
<1>8. QED
  BY <1>7, Zenon

LEMMA DigitsOf ==
  \A n \in Nat : Digits[n] = IF n < 10 THEN 1 ELSE 1 + Digits[n \div 10]
<1>1. Digits = [n \in Nat |-> IF n < 10 THEN 1 ELSE 1 + Digits[n \div 10]]
  BY DigitsExist, Zenon DEF Digits
<1>2. QED
  BY <1>1, Zenon

\* A number has at most one digit more than the one before it.
LEMMA DigitsStep ==
  \A n \in Nat : Digits[n] \in Nat /\ Digits[n + 1] \in {Digits[n], Digits[n] + 1}
<1> DEFINE Bad == {n \in Nat : ~ (Digits[n] \in Nat /\ Digits[n + 1] \in {Digits[n], Digits[n] + 1})}
<1>1. SUFFICES ASSUME Bad # {} PROVE FALSE
  OBVIOUS
<1>2. PICK n \in Bad : \A m \in Bad : n <= m
  <2>1. Bad \subseteq Nat
    OBVIOUS
  <2> HIDE DEF Bad
  <2>2. QED
    BY <1>1, <2>1, LeastExists
<1>3. n \in Nat /\ ~ (Digits[n] \in Nat /\ Digits[n + 1] \in {Digits[n], Digits[n] + 1})
  BY <1>2
<1>4. /\ Digits[n] = IF n < 10 THEN 1 ELSE 1 + Digits[n \div 10]
      /\ Digits[n + 1] = IF n + 1 < 10 THEN 1 ELSE 1 + Digits[(n + 1) \div 10]
  <2>1. n + 1 \in Nat
    BY <1>3
  <2>2. QED
    BY <1>3, <2>1, DigitsOf
<1>5. CASE n >= 10
  <2>1. n \div 10 \in Nat /\ n \div 10 < n
    BY <1>3, <1>5, TenthIsLess
  <2>2. n \div 10 \notin Bad
    <3>1. ~ (n <= n \div 10)
      BY <1>3, <2>1
    <3>2. QED
      BY <1>2, <3>1, Zenon
  <2>3. Digits[n \div 10] \in Nat /\ Digits[n \div 10 + 1] \in {Digits[n \div 10], Digits[n \div 10] + 1}
    BY <2>1, <2>2, Zenon
  <2>4. (n + 1) \div 10 = n \div 10 \/ (n + 1) \div 10 = n \div 10 + 1
    BY <1>3, TenthIsLess
  <2> HIDE DEF Bad
  <2>5. Digits[n] = 1 + Digits[n \div 10] /\ Digits[n + 1] = 1 + Digits[(n + 1) \div 10]
    BY <1>3, <1>4, <1>5
  <2>6. Digits[(n + 1) \div 10] \in {Digits[n \div 10], Digits[n \div 10] + 1}
    BY <2>3, <2>4
  <2>7. QED
    BY <1>3, <2>3, <2>5, <2>6
<1>6. CASE n = 9
  <2>1. (n + 1) \div 10 = 1 /\ 1 \in Nat
    BY <1>6
  <2>2. Digits[1] = 1
    BY DigitsOf
  <2> HIDE DEF Bad
  <2>3. Digits[n] = 1 /\ Digits[n + 1] = 1 + Digits[(n + 1) \div 10]
    BY <1>4, <1>6
  <2>4. Digits[n + 1] = 2
    BY <2>1, <2>2, <2>3
  <2>5. QED
    BY <1>3, <2>3, <2>4
<1>7. CASE n < 9
  <2>1. Digits[n] = 1 /\ Digits[n + 1] = 1
    BY <1>3, <1>4, <1>7
  <2> HIDE DEF Bad
  <2>2. QED
    BY <1>3, <2>1
<1>8. QED
  BY <1>3, <1>5, <1>6, <1>7

\* A number smaller by d has at most d digits less, and never more.
LEMMA DigitsGrow ==
  ASSUME NEW a \in Nat, NEW b \in Nat, a <= b
  PROVE  /\ Digits[a] \in Nat /\ Digits[b] \in Nat
         /\ Digits[a] <= Digits[b] /\ Digits[b] - Digits[a] <= b - a
<1> DEFINE Bad == {d \in Nat : ~ (Digits[a] <= Digits[a + d] /\ Digits[a + d] - Digits[a] <= d)}
<1>1. Bad = {}
  <2>1. SUFFICES ASSUME Bad # {} PROVE FALSE
    OBVIOUS
  <2>2. PICK d \in Bad : \A e \in Bad : d <= e
    <3>1. Bad \subseteq Nat
      OBVIOUS
    <3> HIDE DEF Bad
    <3>2. QED
      BY <2>1, <3>1, LeastExists
  <2>3. d \in Nat /\ ~ (Digits[a] <= Digits[a + d] /\ Digits[a + d] - Digits[a] <= d)
    BY <2>2
  <2>4. Digits[a] \in Nat
    BY DigitsStep
  <2>5. d # 0
    <3>1. d = 0 => a + d = a
      OBVIOUS
    <3>2. QED
      BY <2>3, <2>4, <3>1
  <2>6. d - 1 \in Nat /\ ~ (d <= d - 1)
    BY <2>3, <2>5
  <2>7. d - 1 \notin Bad
    BY <2>2, <2>6, Zenon
  <2>8. Digits[a] <= Digits[a + (d - 1)] /\ Digits[a + (d - 1)] - Digits[a] <= d - 1
    BY <2>6, <2>7, Zenon
  <2> HIDE DEF Bad
  <2>9. a + (d - 1) \in Nat /\ (a + (d - 1)) + 1 = a + d
    BY <2>3, <2>6
  <2>10. /\ Digits[a + (d - 1)] \in Nat
         /\ Digits[a + d] \in {Digits[a + (d - 1)], Digits[a + (d - 1)] + 1}
    <3>1. Digits[(a + (d - 1)) + 1] \in {Digits[a + (d - 1)], Digits[a + (d - 1)] + 1}
      BY <2>9, DigitsStep
    <3>2. QED
      BY <2>9, <3>1, DigitsStep
  <2>11. QED
    BY <2>3, <2>4, <2>8, <2>10
<1>2. b - a \in Nat /\ a + (b - a) = b
  OBVIOUS
<1>3. Digits[a] <= Digits[a + (b - a)] /\ Digits[a + (b - a)] - Digits[a] <= b - a
  <2>1. b - a \notin Bad
    BY <1>1, Zenon
  <2>2. QED
    BY <1>2, <2>1, Zenon
<1> HIDE DEF Bad
<1>4. QED
  BY <1>2, <1>3, DigitsStep

\* TotalOf adds up from the front.
IsTotal(f, sizes) ==
  f = [i \in 0 .. Len(sizes) |-> IF i = 0 THEN 0 ELSE f[i - 1] + sizes[i]]

LEMMA TotalsExist ==
  ASSUME NEW sizes, Len(sizes) \in Nat
  PROVE  \E f : IsTotal(f, sizes)
<1> DEFINE Upto(f, n) == f = [i \in 0 .. n |-> IF i = 0 THEN 0 ELSE f[i - 1] + sizes[i]]
           Bad == {n \in Nat : ~ \E f : Upto(f, n)}
<1>1. SUFFICES ASSUME Bad # {} PROVE FALSE
  <2>1. Len(sizes) \notin Bad
    BY <1>1, Zenon
  <2>2. \E f : Upto(f, Len(sizes))
    BY <2>1, Zenon
  <2>3. QED
    BY <2>2, Zenon DEF IsTotal
<1>2. PICK n \in Bad : \A m \in Bad : n <= m
  <2>1. Bad \subseteq Nat
    OBVIOUS
  <2> HIDE DEF Bad
  <2>2. QED
    BY <1>1, <2>1, LeastExists
<1>3. n \in Nat /\ ~ \E f : Upto(f, n)
  BY <1>2
<1>4. n # 0
  <2>1. Upto([i \in 0 .. 0 |-> 0], 0)
    OBVIOUS
  <2>2. QED
    BY <1>3, <2>1, Zenon
<1>5. n - 1 \in Nat /\ ~ (n <= n - 1)
  BY <1>3, <1>4
<1>6. PICK g : Upto(g, n - 1)
  <2>1. n - 1 \notin Bad
    BY <1>2, <1>5, Zenon
  <2>2. QED
    BY <1>5, <2>1, Zenon
<1> DEFINE h == [i \in 0 .. n |-> IF i < n THEN g[i] ELSE g[i - 1] + sizes[i]]
<1>7. \A i \in 0 .. n : h[i] = IF i = 0 THEN 0 ELSE h[i - 1] + sizes[i]
  <2> SUFFICES ASSUME NEW i \in 0 .. n
               PROVE  h[i] = IF i = 0 THEN 0 ELSE h[i - 1] + sizes[i]
    OBVIOUS
  <2>1. CASE i < n
    <3>1. i \in 0 .. n - 1 /\ h[i] = g[i]
      BY <1>3, <2>1
    <3>2. g[i] = IF i = 0 THEN 0 ELSE g[i - 1] + sizes[i]
      BY <1>6, <3>1
    <3>3. i # 0 => h[i - 1] = g[i - 1]
      BY <1>3, <3>1
    <3>4. QED
      BY <3>1, <3>2, <3>3
  <2>2. CASE i = n
    <3>1. h[i] = g[i - 1] + sizes[i] /\ h[i - 1] = g[i - 1] /\ i # 0
      BY <1>3, <1>4, <2>2
    <3>2. QED
      BY <3>1
  <2>3. QED
    BY <1>3, <2>1, <2>2
<1>8. h = [i \in 0 .. n |-> IF i = 0 THEN 0 ELSE h[i - 1] + sizes[i]]
  <2>1. h = [i \in 0 .. n |-> h[i]]
    OBVIOUS
  <2> HIDE DEF h
  <2>2. QED
    BY <1>7, <2>1
<1> HIDE DEF h
<1>9. QED
  BY <1>3, <1>8, Zenon

LEMMA TotalIsTotal ==
  ASSUME NEW sizes, Len(sizes) \in Nat
  PROVE  \E f : IsTotal(f, sizes) /\ TotalOf(sizes) = f[Len(sizes)]
<1> DEFINE f == CHOOSE f : f = [i \in 0 .. Len(sizes) |-> IF i = 0 THEN 0 ELSE f[i - 1] + sizes[i]]
<1>1. IsTotal(f, sizes)
  BY TotalsExist, Zenon DEF IsTotal
<1>2. TotalOf(sizes) = f[Len(sizes)]
  BY Zenon DEF TotalOf
<1>3. QED
  BY <1>1, <1>2, Zenon

\* The total of a stretch of sizes is the difference of two of the whole's.
LEMMA TotalOfStretch ==
  ASSUME NEW sizes \in Seq(Nat), NEW f \in [0 .. Len(sizes) -> Nat], IsTotal(f, sizes),
         NEW i \in 0 .. Len(sizes), NEW j \in i .. Len(sizes),
         NEW stretch \in Seq(Nat), Len(stretch) = j - i,
         \A k \in 1 .. Len(stretch) : stretch[k] = sizes[i + k]
  PROVE  TotalOf(stretch) = f[j] - f[i]
<1>1. Len(stretch) \in Nat /\ Len(sizes) \in Nat
  OBVIOUS
<1>2. PICK g : IsTotal(g, stretch) /\ TotalOf(stretch) = g[Len(stretch)]
  BY <1>1, TotalIsTotal
<1>3. /\ \A k \in 0 .. Len(stretch) : g[k] = IF k = 0 THEN 0 ELSE g[k - 1] + stretch[k]
      /\ \A k \in 0 .. Len(sizes) : f[k] = IF k = 0 THEN 0 ELSE f[k - 1] + sizes[k]
  BY <1>2 DEF IsTotal
<1> DEFINE Bad == {k \in Nat : k <= Len(stretch) /\ g[k] # f[i + k] - f[i]}
<1>4. Bad = {}
  <2>1. SUFFICES ASSUME Bad # {} PROVE FALSE
    OBVIOUS
  <2>2. PICK k \in Bad : \A m \in Bad : k <= m
    <3>1. Bad \subseteq Nat
      OBVIOUS
    <3> HIDE DEF Bad
    <3>2. QED
      BY <2>1, <3>1, LeastExists
  <2>3. k \in Nat /\ k <= Len(stretch) /\ g[k] # f[i + k] - f[i]
    BY <2>2
  <2>4. k # 0
    <3> HIDE DEF Bad
    <3>1. 0 \in 0 .. Len(stretch) /\ i \in 0 .. Len(sizes)
      BY <1>1
    <3>2. g[0] = 0 /\ f[i] \in Nat
      BY <1>3, <3>1
    <3>3. k = 0 => i + k = i
      OBVIOUS
    <3>4. QED
      BY <2>3, <3>2, <3>3
  <2>5. k - 1 \in Nat /\ k - 1 <= Len(stretch) /\ ~ (k <= k - 1)
    BY <1>1, <2>3, <2>4
  <2>6. k - 1 \notin Bad
    BY <2>2, <2>5, Zenon
  <2>7. g[k - 1] = f[i + (k - 1)] - f[i]
    BY <2>5, <2>6, Zenon
  <2> HIDE DEF Bad
  <2>0. /\ Len(stretch) \in Nat /\ Len(sizes) \in Nat
        /\ i \in Nat /\ i + Len(stretch) <= Len(sizes)
    BY <1>1
  <2>8. k \in 1 .. Len(stretch) /\ i + k \in 1 .. Len(sizes) /\ i + (k - 1) = (i + k) - 1
    <3> DEFINE m == Len(stretch)
               n == Len(sizes)
    <3>1. m \in Nat /\ n \in Nat /\ i \in Nat /\ i + m <= n /\ k \in Nat /\ k # 0 /\ k <= m
      BY <2>0, <2>3, <2>4
    <3> HIDE DEF m, n
    <3>2. k \in 1 .. m /\ i + k \in 1 .. n /\ i + (k - 1) = (i + k) - 1
      BY <3>1
    <3>3. QED
      BY <3>2 DEF m, n
  <2>9. g[k] = g[k - 1] + stretch[k] /\ stretch[k] = sizes[i + k] /\ stretch[k] \in Nat
    <3>1. k \in 0 .. Len(stretch) /\ k # 0
      BY <1>1, <2>3, <2>4
    <3>2. g[k] = g[k - 1] + stretch[k]
      BY <1>3, <3>1
    <3>3. stretch[k] = sizes[i + k] /\ stretch[k] \in Nat
      BY <2>8, SMTT(20)
    <3>4. QED
      BY <3>2, <3>3
  <2>10. f[i + k] = f[i + (k - 1)] + sizes[i + k]
    BY <1>3, <2>8
  <2>11. f[i + (k - 1)] \in Nat /\ f[i] \in Nat /\ f[i + k] \in Nat
    <3> DEFINE n == Len(sizes)
    <3>1. n \in Nat /\ i \in Nat /\ k \in Nat /\ k # 0 /\ i + k \in 1 .. n
      BY <2>0, <2>3, <2>4, <2>8
    <3> HIDE DEF n
    <3>2. i + (k - 1) \in 0 .. n /\ i \in 0 .. n /\ i + k \in 0 .. n
      BY <3>1
    <3>3. QED
      BY <3>2 DEF n
  <2>12. g[k] = f[i + k] - f[i]
    <3> DEFINE a == f[i + (k - 1)]
               b == f[i]
               c == f[i + k]
               x == stretch[k]
    <3>1. a \in Nat /\ b \in Nat /\ c \in Nat /\ x \in Nat
      BY <2>9, <2>11
    <3>2. g[k] = (a - b) + x /\ c = a + x
      BY <2>7, <2>9, <2>10
    <3> HIDE DEF a, b, c, x
    <3>3. g[k] = c - b
      BY <3>1, <3>2
    <3>4. QED
      BY <3>3 DEF b, c
  <2>13. QED
    BY <2>3, <2>12
<1>5. Len(stretch) \notin Bad
  BY <1>4, Zenon
<1>6. g[Len(stretch)] = f[i + Len(stretch)] - f[i] /\ i + Len(stretch) = j
  BY <1>1, <1>5
<1> HIDE DEF Bad
<1>7. QED
  BY <1>2, <1>6

\* The totals of natural numbers are natural numbers.
LEMMA TotalsTyped ==
  ASSUME NEW sizes \in Seq(Nat), NEW f, IsTotal(f, sizes)
  PROVE  f \in [0 .. Len(sizes) -> Nat]
<1>1. \A k \in 0 .. Len(sizes) : f[k] = IF k = 0 THEN 0 ELSE f[k - 1] + sizes[k]
  BY DEF IsTotal
<1> DEFINE Bad == {k \in Nat : k <= Len(sizes) /\ f[k] \notin Nat}
<1>2. Bad = {}
  <2>1. SUFFICES ASSUME Bad # {} PROVE FALSE
    OBVIOUS
  <2>2. PICK k \in Bad : \A m \in Bad : k <= m
    <3>1. Bad \subseteq Nat
      OBVIOUS
    <3> HIDE DEF Bad
    <3>2. QED
      BY <2>1, <3>1, LeastExists
  <2>3. k \in Nat /\ k <= Len(sizes) /\ f[k] \notin Nat /\ k # 0
    BY <1>1, <2>2
  <2>4. k - 1 \in Nat /\ k - 1 <= Len(sizes) /\ ~ (k <= k - 1) /\ k \in 1 .. Len(sizes)
    BY <2>3
  <2>5. k - 1 \notin Bad
    BY <2>2, <2>4, Zenon
  <2>6. f[k - 1] \in Nat
    BY <2>4, <2>5, Zenon
  <2> HIDE DEF Bad
  <2>7. QED
    BY <1>1, <2>3, <2>4, <2>6, SMTT(20)
<1>3. \A k \in 0 .. Len(sizes) : f[k] \in Nat
  BY <1>2
<1>4. f = [k \in 0 .. Len(sizes) |-> IF k = 0 THEN 0 ELSE f[k - 1] + sizes[k]]
  BY DEF IsTotal
<1> HIDE DEF Bad
<1>5. DOMAIN f = 0 .. Len(sizes) /\ f = [k \in 0 .. Len(sizes) |-> f[k]]
  BY <1>4
<1>6. QED
  BY <1>3, <1>5

-------------------------------------------------------------------------------
(* Texts by their sizes: B and J tell the bytes of a text's beginnings, as   *)
(* they are and inside a JSON string.                                        *)

Chars == Characters \cup {Plain}

LEMMA CharSizes ==
  \A ch \in Chars : ch.bytes \in Nat \ {0} /\ ch.json \in Nat /\ ch.json >= ch.bytes
BY OutputAssumption DEF Chars, Plain

Measures(v, B, J) ==
  /\ B \in [0 .. Len(v) -> Nat] /\ J \in [0 .. Len(v) -> Nat]
  /\ B[0] = 0 /\ J[0] = 0
  /\ \A i, j \in 0 .. Len(v) : i <= j => B[j] - B[i] >= j - i /\ J[j] - J[i] >= B[j] - B[i]
  /\ \A i, j \in 0 .. Len(v) : i <= j =>
       /\ Size(SubSeq(v, i + 1, j)) = B[j] - B[i]
       /\ JsonSize(SubSeq(v, i + 1, j)) = J[j] - J[i]

LEMMA FunctionIsSequence ==
  ASSUME NEW S, NEW n \in Nat, NEW f \in [1 .. n -> S]
  PROVE  f \in Seq(S) /\ Len(f) = n
OBVIOUS

\* A function that grows by at least as much as another at each step does so over
\* any stretch.
LEMMA GrowsFaster ==
  ASSUME NEW n \in Nat, NEW F \in [0 .. n -> Nat], NEW G \in [0 .. n -> Nat],
         \A k \in 1 .. n : F[k] - F[k - 1] >= G[k] - G[k - 1]
  PROVE  \A i, j \in 0 .. n : i <= j => F[j] - F[i] >= G[j] - G[i]
<1> SUFFICES ASSUME NEW i \in 0 .. n
             PROVE  \A j \in 0 .. n : i <= j => F[j] - F[i] >= G[j] - G[i]
  OBVIOUS
<1> DEFINE Bad == {j \in Nat : j \in i .. n /\ ~ (F[j] - F[i] >= G[j] - G[i])}
<1>1. SUFFICES ASSUME Bad # {} PROVE FALSE
  <2>1. \A j \in 0 .. n : i <= j => j \in Nat /\ j \in i .. n
    OBVIOUS
  <2>2. QED
    BY <1>1, <2>1
<1>2. PICK j \in Bad : \A k \in Bad : j <= k
  <2>1. Bad \subseteq Nat
    OBVIOUS
  <2> HIDE DEF Bad
  <2>2. QED
    BY <1>1, <2>1, LeastExists
<1>3. j \in i .. n /\ ~ (F[j] - F[i] >= G[j] - G[i])
  BY <1>2
<1>4. F[i] \in Nat /\ G[i] \in Nat
  OBVIOUS
<1>5. j # i
  BY <1>3, <1>4
<1>6. j - 1 \in i .. n /\ j - 1 \in Nat /\ ~ (j <= j - 1) /\ j \in 1 .. n
  BY <1>3, <1>5
<1>7. j - 1 \notin Bad
  BY <1>2, <1>6, Zenon
<1>8. F[j - 1] - F[i] >= G[j - 1] - G[i]
  BY <1>6, <1>7, Zenon
<1>9. /\ F[j] \in Nat /\ G[j] \in Nat /\ F[j - 1] \in Nat /\ G[j - 1] \in Nat
      /\ F[j] - F[j - 1] >= G[j] - G[j - 1]
  <2> HIDE DEF Bad
  <2>1. j \in 0 .. n /\ j - 1 \in 0 .. n
    BY <1>6
  <2>2. QED
    BY <1>6, <2>1
<1> HIDE DEF Bad
<1>10. F[j] - F[i] >= G[j] - G[i]
  <2> DEFINE a == F[i]  b == F[j - 1]  c == F[j]
             p == G[i]  q == G[j - 1]  r == G[j]
  <2>1. /\ a \in Int /\ b \in Int /\ c \in Int /\ p \in Int /\ q \in Int /\ r \in Int
        /\ b - a >= q - p /\ c - b >= r - q
    BY <1>4, <1>8, <1>9
  <2> HIDE DEF a, b, c, p, q, r
  <2>2. c - a >= r - p
    BY <2>1
  <2>3. QED
    BY <2>2 DEF a, c, p, r
<1>11. QED
  BY <1>3, <1>10

LEMMA Measurable ==
  ASSUME NEW v \in Seq(Chars)
  PROVE  \E B, J : Measures(v, B, J)
<1> DEFINE bytes == [k \in 1 .. Len(v) |-> v[k].bytes]
           json == [k \in 1 .. Len(v) |-> v[k].json]
<1>1. Len(v) \in Nat /\ \A k \in 1 .. Len(v) : v[k] \in Chars
  OBVIOUS
<1>2. /\ bytes \in Seq(Nat) /\ Len(bytes) = Len(v)
      /\ json \in Seq(Nat) /\ Len(json) = Len(v)
  BY <1>1, CharSizes
<1>3. \A k \in 1 .. Len(v) : /\ bytes[k] = v[k].bytes /\ json[k] = v[k].json
                             /\ bytes[k] \in Nat /\ json[k] \in Nat
                             /\ bytes[k] >= 1 /\ json[k] >= bytes[k]
  BY <1>1, CharSizes
<1> HIDE DEF bytes, json
<1>4. PICK B : IsTotal(B, bytes)
  BY <1>2, TotalsExist
<1>5. PICK J : IsTotal(J, json)
  BY <1>2, TotalsExist
<1>6. B \in [0 .. Len(v) -> Nat] /\ J \in [0 .. Len(v) -> Nat]
  BY <1>2, <1>4, <1>5, TotalsTyped
<1>7. /\ \A k \in 0 .. Len(v) : B[k] = IF k = 0 THEN 0 ELSE B[k - 1] + bytes[k]
      /\ \A k \in 0 .. Len(v) : J[k] = IF k = 0 THEN 0 ELSE J[k - 1] + json[k]
  BY <1>2, <1>4, <1>5 DEF IsTotal
<1>8. B[0] = 0 /\ J[0] = 0
  <2>1. 0 \in 0 .. Len(v)
    BY <1>1
  <2>2. QED
    BY <1>7, <2>1
<1>9. \A k \in 1 .. Len(v) : /\ B[k] \in Nat /\ B[k - 1] \in Nat /\ J[k] \in Nat /\ J[k - 1] \in Nat
                             /\ B[k] - B[k - 1] = bytes[k] /\ J[k] - J[k - 1] = json[k]
  <2> SUFFICES ASSUME NEW k \in 1 .. Len(v)
               PROVE  /\ B[k] \in Nat /\ B[k - 1] \in Nat /\ J[k] \in Nat /\ J[k - 1] \in Nat
                      /\ B[k] - B[k - 1] = bytes[k] /\ J[k] - J[k - 1] = json[k]
    OBVIOUS
  <2>1. k \in 0 .. Len(v) /\ k - 1 \in 0 .. Len(v) /\ k # 0
    BY <1>1
  <2>2. B[k] = B[k - 1] + bytes[k] /\ J[k] = J[k - 1] + json[k]
    BY <1>7, <2>1
  <2>3. B[k] \in Nat /\ B[k - 1] \in Nat /\ J[k] \in Nat /\ J[k - 1] \in Nat
    BY <1>6, <2>1
  <2>4. QED
    BY <1>3, <2>2, <2>3
<1>10. \A i, j \in 0 .. Len(v) : i <= j => J[j] - J[i] >= B[j] - B[i]
  <2>1. \A k \in 1 .. Len(v) : J[k] - J[k - 1] >= B[k] - B[k - 1]
    BY <1>3, <1>9
  <2>2. QED
    BY <1>1, <1>6, <2>1, GrowsFaster
<1>11. \A i, j \in 0 .. Len(v) : i <= j => B[j] - B[i] >= j - i
  <2> DEFINE id == [k \in 0 .. Len(v) |-> k]
  <2>1. id \in [0 .. Len(v) -> Nat] /\ \A k \in 0 .. Len(v) : id[k] = k
    BY <1>1
  <2> HIDE DEF id
  <2>2. \A k \in 1 .. Len(v) : B[k] - B[k - 1] >= id[k] - id[k - 1]
    <3> SUFFICES ASSUME NEW k \in 1 .. Len(v)
                 PROVE  B[k] - B[k - 1] >= id[k] - id[k - 1]
      OBVIOUS
    <3>1. k \in 0 .. Len(v) /\ k - 1 \in 0 .. Len(v)
      BY <1>1
    <3>2. id[k] = k /\ id[k - 1] = k - 1
      BY <2>1, <3>1
    <3>3. QED
      BY <1>3, <1>9, <3>2
  <2>3. \A i, j \in 0 .. Len(v) : i <= j => B[j] - B[i] >= id[j] - id[i]
    BY <1>1, <1>6, <2>1, <2>2, GrowsFaster
  <2>4. QED
    BY <2>1, <2>3
<1>12. ASSUME NEW i \in 0 .. Len(v), NEW j \in 0 .. Len(v), i <= j
       PROVE  /\ Size(SubSeq(v, i + 1, j)) = B[j] - B[i]
              /\ JsonSize(SubSeq(v, i + 1, j)) = J[j] - J[i]
  <2> DEFINE s == SubSeq(v, i + 1, j)
             b == [k \in DOMAIN s |-> s[k].bytes]
             q == [k \in DOMAIN s |-> s[k].json]
  <2>1. /\ Len(s) = j - i /\ DOMAIN s = 1 .. Len(s) /\ Len(s) \in Nat
        /\ \A k \in 1 .. Len(s) : s[k] = v[i + k] /\ i + k \in 1 .. Len(v)
    BY <1>1, <1>12, SMTT(20)
  <2> HIDE DEF s
  <2>2. /\ b \in Seq(Nat) /\ Len(b) = j - i /\ \A k \in 1 .. Len(b) : b[k] = bytes[i + k]
        /\ q \in Seq(Nat) /\ Len(q) = j - i /\ \A k \in 1 .. Len(q) : q[k] = json[i + k]
    <3>1. \A k \in 1 .. Len(s) : /\ s[k].bytes = bytes[i + k] /\ bytes[i + k] \in Nat
                                 /\ s[k].json = json[i + k] /\ json[i + k] \in Nat
      BY <1>3, <2>1
    <3>2. b = [k \in 1 .. Len(s) |-> s[k].bytes] /\ q = [k \in 1 .. Len(s) |-> s[k].json]
      BY <2>1
    <3> HIDE DEF b, q
    <3>3. b \in Seq(Nat) /\ Len(b) = Len(s) /\ q \in Seq(Nat) /\ Len(q) = Len(s)
      <4>1. \A k \in 1 .. Len(s) : s[k].bytes \in Nat /\ s[k].json \in Nat
        BY <3>1, Zenon
      <4>2. b \in [1 .. Len(s) -> Nat] /\ q \in [1 .. Len(s) -> Nat]
        BY <3>2, <4>1
      <4>3. QED
        BY <2>1, <4>2, FunctionIsSequence
    <3>4. \A k \in 1 .. Len(s) : b[k] = bytes[i + k] /\ q[k] = json[i + k]
      BY <3>1, <3>2
    <3>5. QED
      BY <2>1, <3>3, <3>4
  <2>3. Size(s) = TotalOf(b) /\ JsonSize(s) = TotalOf(q)
    BY DEF Size, JsonSize
  <2> HIDE DEF b, q
  <2>4. TotalOf(b) = B[j] - B[i]
    <3>1. i \in 0 .. Len(bytes) /\ j \in i .. Len(bytes)
      BY <1>2, <1>12
    <3>2. QED
      BY <1>2, <1>4, <1>6, <2>2, <3>1, TotalOfStretch
  <2>5. TotalOf(q) = J[j] - J[i]
    <3>1. i \in 0 .. Len(json) /\ j \in i .. Len(json)
      BY <1>2, <1>12
    <3>2. QED
      BY <1>2, <1>5, <1>6, <2>2, <3>1, TotalOfStretch
  <2>6. QED
    BY <2>3, <2>4, <2>5 DEF s
<1>13. Measures(v, B, J)
  BY <1>6, <1>8, <1>10, <1>11, <1>12 DEF Measures
<1>14. QED
  BY <1>13

\* The most of a text that goes into so many bytes, from its front or its back.
HeadCut(B, n, b, k) ==
  k \in 0 .. n /\ B[k] <= b /\ (k = n \/ B[k + 1] > b)
TailCut(B, n, b, k) ==
  k \in 0 .. n /\ B[n] - B[n - k] <= b /\ (k = n \/ B[n] - B[n - (k + 1)] > b)

LEMMA FillExists ==
  ASSUME NEW n \in Nat, NEW f \in [0 .. n -> Nat], f[0] = 0, NEW b \in Nat
  PROVE  \E k \in 0 .. n : f[k] <= b /\ (k = n \/ f[k + 1] > b)
<1> DEFINE Over == {k \in Nat : k <= n /\ f[k] > b}
<1>1. CASE Over = {}
  <2>1. n \in 0 .. n /\ n \in Nat /\ f[n] \in Nat
    OBVIOUS
  <2>2. ~ (f[n] > b)
    BY <1>1, <2>1
  <2>3. f[n] <= b
    BY <2>1, <2>2
  <2>4. QED
    BY <2>1, <2>3
<1>2. CASE Over # {}
  <2>1. PICK k \in Over : \A m \in Over : k <= m
    <3>1. Over \subseteq Nat
      OBVIOUS
    <3> HIDE DEF Over
    <3>2. QED
      BY <1>2, <3>1, LeastExists
  <2>2. k \in Nat /\ k <= n /\ f[k] > b
    BY <2>1
  <2>3. k # 0
    BY <2>2
  <2>4. k - 1 \in Nat /\ k - 1 <= n /\ ~ (k <= k - 1) /\ k - 1 \in 0 .. n
    BY <2>2, <2>3
  <2>5. k - 1 \notin Over
    BY <2>1, <2>4, Zenon
  <2>6. ~ (f[k - 1] > b)
    BY <2>4, <2>5, Zenon
  <2> HIDE DEF Over
  <2>7. f[k - 1] <= b
    BY <2>4, <2>6
  <2>8. (k - 1) + 1 = k
    BY <2>2
  <2>9. f[(k - 1) + 1] > b
    BY <2>2, <2>8
  <2>10. QED
    BY <2>4, <2>7, <2>9, Zenon
<1>3. QED
  BY <1>1, <1>2, Zenon

LEMMA HeadOfCuts ==
  ASSUME NEW v \in Seq(Chars), NEW B, NEW J, Measures(v, B, J), NEW b \in Nat
  PROVE  \E k : HeadCut(B, Len(v), b, k) /\ HeadOf(v, b) = SubSeq(v, 1, k)
<1> DEFINE Fit(k) == Size(FirstOf(v, k)) <= b /\ (k = Len(v) \/ Size(FirstOf(v, k + 1)) > b)
           k0 == CHOOSE k \in 0 .. Len(v) : Fit(k)
<1>1. Len(v) \in Nat
  OBVIOUS
<1>2. \A k \in 0 .. Len(v) : Size(FirstOf(v, k)) = B[k]
  <2> SUFFICES ASSUME NEW k \in 0 .. Len(v) PROVE Size(FirstOf(v, k)) = B[k]
    OBVIOUS
  <2>1. 0 \in 0 .. Len(v) /\ 0 <= k /\ 0 + 1 = 1
    BY <1>1
  <2>2. Size(SubSeq(v, 0 + 1, k)) = B[k] - B[0] /\ B[0] = 0 /\ B[k] \in Nat
    BY <2>1 DEF Measures
  <2>3. QED
    BY <2>1, <2>2 DEF FirstOf
<1>3. \E k \in 0 .. Len(v) : Fit(k)
  <2>1. B \in [0 .. Len(v) -> Nat] /\ B[0] = 0
    BY DEF Measures
  <2>2. PICK k \in 0 .. Len(v) : B[k] <= b /\ (k = Len(v) \/ B[k + 1] > b)
    BY <1>1, <2>1, FillExists
  <2>3. k = Len(v) \/ k + 1 \in 0 .. Len(v)
    BY <1>1
  <2>4. Size(FirstOf(v, k)) = B[k] /\ (k = Len(v) \/ Size(FirstOf(v, k + 1)) = B[k + 1])
    BY <1>2, <2>3
  <2>5. QED
    BY <2>2, <2>4
<1>4. k0 \in 0 .. Len(v) /\ Fit(k0)
  BY <1>3, Zenon
<1>5. HeadOf(v, b) = SubSeq(v, 1, k0)
  BY Zenon DEF HeadOf, FirstOf
<1> HIDE DEF k0
<1>6. k0 = Len(v) \/ k0 + 1 \in 0 .. Len(v)
  BY <1>1, <1>4
<1>7. Size(FirstOf(v, k0)) = B[k0] /\ (k0 = Len(v) \/ Size(FirstOf(v, k0 + 1)) = B[k0 + 1])
  BY <1>2, <1>4, <1>6
<1>8. HeadCut(B, Len(v), b, k0)
  BY <1>4, <1>7 DEF HeadCut
<1>9. QED
  BY <1>5, <1>8

LEMMA TailOfCuts ==
  ASSUME NEW v \in Seq(Chars), NEW B, NEW J, Measures(v, B, J), NEW b \in Nat
  PROVE  \E k : TailCut(B, Len(v), b, k) /\ TailOf(v, b) = SubSeq(v, Len(v) - k + 1, Len(v))
<1> DEFINE Fit(k) == Size(LastOf(v, k)) <= b /\ (k = Len(v) \/ Size(LastOf(v, k + 1)) > b)
           k0 == CHOOSE k \in 0 .. Len(v) : Fit(k)
           T == [k \in 0 .. Len(v) |-> B[Len(v)] - B[Len(v) - k]]
<1>1. Len(v) \in Nat
  OBVIOUS
<1>2. \A k \in 0 .. Len(v) : Size(LastOf(v, k)) = T[k] /\ T[k] \in Nat
  <2> SUFFICES ASSUME NEW k \in 0 .. Len(v) PROVE Size(LastOf(v, k)) = T[k] /\ T[k] \in Nat
    OBVIOUS
  <2>1. Len(v) - k \in 0 .. Len(v) /\ Len(v) \in 0 .. Len(v) /\ Len(v) - k <= Len(v)
    BY <1>1
  <2>2. /\ Size(SubSeq(v, (Len(v) - k) + 1, Len(v))) = B[Len(v)] - B[Len(v) - k]
        /\ B[Len(v)] - B[Len(v) - k] >= Len(v) - (Len(v) - k)
        /\ B[Len(v)] \in Nat /\ B[Len(v) - k] \in Nat
    BY <2>1 DEF Measures
  <2>3. T[k] = B[Len(v)] - B[Len(v) - k]
    OBVIOUS
  <2>4. T[k] \in Nat
    BY <1>1, <2>2, <2>3
  <2>5. QED
    BY <2>2, <2>3, <2>4 DEF LastOf
<1>3. T \in [0 .. Len(v) -> Nat] /\ T[0] = 0
  <2>1. T \in [0 .. Len(v) -> Nat]
    BY <1>2
  <2>2. T[0] = B[Len(v)] - B[Len(v) - 0] /\ Len(v) - 0 = Len(v) /\ B[Len(v)] \in Nat
    BY <1>1 DEF Measures
  <2> HIDE DEF T
  <2>3. QED
    BY <2>1, <2>2
<1>4. \A k \in 0 .. Len(v) : T[k] = B[Len(v)] - B[Len(v) - k]
  OBVIOUS
<1> HIDE DEF T
<1>5. \E k \in 0 .. Len(v) : Fit(k)
  <2>1. PICK k \in 0 .. Len(v) : T[k] <= b /\ (k = Len(v) \/ T[k + 1] > b)
    BY <1>1, <1>3, FillExists
  <2>2. k = Len(v) \/ k + 1 \in 0 .. Len(v)
    BY <1>1
  <2>3. Size(LastOf(v, k)) = T[k] /\ (k = Len(v) \/ Size(LastOf(v, k + 1)) = T[k + 1])
    BY <1>2, <2>2
  <2>4. QED
    BY <2>1, <2>3
<1>6. k0 \in 0 .. Len(v) /\ Fit(k0)
  BY <1>5, Zenon
<1>7. TailOf(v, b) = SubSeq(v, Len(v) - k0 + 1, Len(v))
  BY Zenon DEF TailOf, LastOf
<1> HIDE DEF k0
<1>8. k0 = Len(v) \/ k0 + 1 \in 0 .. Len(v)
  BY <1>1, <1>6
<1>9. /\ Size(LastOf(v, k0)) = B[Len(v)] - B[Len(v) - k0]
      /\ k0 = Len(v) \/ Size(LastOf(v, k0 + 1)) = B[Len(v)] - B[Len(v) - (k0 + 1)]
  BY <1>2, <1>4, <1>6, <1>8
<1>10. TailCut(B, Len(v), b, k0)
  BY <1>6, <1>9 DEF TailCut
<1>11. QED
  BY <1>7, <1>10

\* More bytes never make a cut shorter.
LEMMA CutsGrow ==
  ASSUME NEW v \in Seq(Chars), NEW B, NEW J, Measures(v, B, J),
         NEW a \in Nat, NEW b \in Nat, a <= b, NEW k, NEW l
  PROVE  /\ HeadCut(B, Len(v), a, k) /\ HeadCut(B, Len(v), b, l) => k <= l
         /\ TailCut(B, Len(v), a, k) /\ TailCut(B, Len(v), b, l) => k <= l
<1>1. Len(v) \in Nat /\ \A i \in 0 .. Len(v) : B[i] \in Nat
  <2>1. B \in [0 .. Len(v) -> Nat]
    BY Zenon DEF Measures
  <2>2. QED
    BY <2>1
<1>2. \A i, j \in 0 .. Len(v) : i <= j => B[i] <= B[j]
  <2> SUFFICES ASSUME NEW i \in 0 .. Len(v), NEW j \in 0 .. Len(v), i <= j PROVE B[i] <= B[j]
    OBVIOUS
  <2>1. B[j] - B[i] >= j - i
    BY DEF Measures
  <2>2. QED
    BY <1>1, <2>1
<1>3. ASSUME HeadCut(B, Len(v), a, k), HeadCut(B, Len(v), b, l), ~ (k <= l) PROVE FALSE
  <2>1. k \in 0 .. Len(v) /\ l \in 0 .. Len(v) /\ B[k] <= a /\ (l = Len(v) \/ B[l + 1] > b)
    BY <1>3 DEF HeadCut
  <2>2. l + 1 <= k /\ l + 1 \in 0 .. Len(v) /\ l # Len(v)
    BY <1>1, <1>3, <2>1
  <2>3. B[l + 1] <= B[k] /\ B[l + 1] \in Nat /\ B[k] \in Nat
    BY <1>1, <1>2, <2>1, <2>2
  <2>4. QED
    BY <2>1, <2>2, <2>3
<1>4. ASSUME TailCut(B, Len(v), a, k), TailCut(B, Len(v), b, l), ~ (k <= l) PROVE FALSE
  <2>1. /\ k \in 0 .. Len(v) /\ l \in 0 .. Len(v) /\ B[Len(v)] - B[Len(v) - k] <= a
        /\ l = Len(v) \/ B[Len(v)] - B[Len(v) - (l + 1)] > b
    BY <1>4 DEF TailCut
  <2>2. /\ l # Len(v) /\ Len(v) - (l + 1) \in 0 .. Len(v) /\ Len(v) - k \in 0 .. Len(v)
        /\ Len(v) - k <= Len(v) - (l + 1) /\ Len(v) \in 0 .. Len(v)
    BY <1>1, <1>4, <2>1
  <2>3. /\ B[Len(v) - k] <= B[Len(v) - (l + 1)]
        /\ B[Len(v) - k] \in Nat /\ B[Len(v) - (l + 1)] \in Nat /\ B[Len(v)] \in Nat
    BY <1>1, <1>2, <2>2
  <2> DEFINE x == B[Len(v) - k]
             y == B[Len(v) - (l + 1)]
             z == B[Len(v)]
  <2>4. x <= y /\ x \in Nat /\ y \in Nat /\ z \in Nat /\ z - x <= a /\ z - y > b
    BY <2>1, <2>2, <2>3
  <2> HIDE DEF x, y, z
  <2>5. QED
    BY <2>4
<1>5. QED
  BY <1>3, <1>4

-------------------------------------------------------------------------------
(* splitBytes: of every byte more, one side gets all.                        *)

LEMMA ProductGrows ==
  ASSUME NEW d \in Nat, NEW q \in Int, NEW r \in Int, q < r
  PROVE  d * q + d <= d * r
<1>1. d * (r - q) >= d
  <2>1. r - q \in Nat \ {0}
    OBVIOUS
  <2>2. \A x \in Nat \ {0} : d * x >= d
    OBVIOUS
  <2>3. QED
    BY <2>1, <2>2
<1>2. d * (r - q) = d * r - d * q /\ d * r \in Int /\ d * q \in Int
  OBVIOUS
<1>3. QED
  BY <1>1, <1>2

LEMMA Quotient ==
  ASSUME NEW a \in Nat, NEW d \in Nat \ {0}
  PROVE  /\ a \div d \in Nat
         /\ d * (a \div d) <= a /\ a < d * (a \div d) + d
         /\ a % d = 0 => a = d * (a \div d)
<1>1. a = d * (a \div d) + (a % d) /\ a % d \in 0 .. d - 1 /\ a \div d \in Int
  OBVIOUS
<1>2. a \div d \in Nat
  OBVIOUS
<1>3. QED
  BY <1>1, <1>2

LEMMA QuotientIs ==
  ASSUME NEW a \in Nat, NEW d \in Nat \ {0}, NEW q \in Int, d * q <= a, a < d * q + d
  PROVE  a \div d = q
<1> DEFINE r == a \div d
<1>1. r \in Nat /\ d * r <= a /\ a < d * r + d
  BY Quotient
<1> HIDE DEF r
<1>2. d * r \in Int /\ d * q \in Int
  BY <1>1
<1>3. ~ (q < r)
  BY <1>1, <1>2, ProductGrows
<1>4. ~ (r < q)
  BY <1>1, <1>2, ProductGrows
<1>5. r = q
  BY <1>1, <1>3, <1>4
<1>6. QED
  BY <1>5 DEF r

\* The head's share is the quotient, or one less where that is whole.
IsShare(m, h, t, q) ==
  /\ (h + t) * q <= m * h /\ m * h < (h + t) * q + (h + t)
  /\ \/ Share(m, h, t) = q
     \/ /\ Share(m, h, t) = q - 1
        /\ m # 0 /\ h # 0 /\ t # 0 /\ m * h = (h + t) * q

LEMMA ShareIs ==
  ASSUME NEW m \in Nat, NEW h \in Nat, NEW t \in Nat, h + t # 0
  PROVE  \E q \in Nat : IsShare(m, h, t, q)
<1> DEFINE q == (m * h) \div (h + t)
<1>1. m * h \in Nat /\ h + t \in Nat \ {0}
  OBVIOUS
<1>2. /\ q \in Nat /\ (h + t) * q <= m * h /\ m * h < (h + t) * q + (h + t)
      /\ (m * h) % (h + t) = 0 => m * h = (h + t) * q
  BY <1>1, Quotient
<1>3. <<m, h, t>> \notin FallsShort => Share(m, h, t) = q
  <2>1. <<m, h, t>> \notin FallsShort => Share(m, h, t) = q - 0
    BY DEF Share
  <2>2. QED
    BY <1>2, <2>1
<1>4. <<m, h, t>> \in FallsShort =>
        Share(m, h, t) = q - 1 /\ m # 0 /\ h # 0 /\ t # 0 /\ m * h = (h + t) * q
  <2>1. SUFFICES ASSUME <<m, h, t>> \in FallsShort
                 PROVE  Share(m, h, t) = q - 1 /\ m # 0 /\ h # 0 /\ t # 0 /\ m * h = (h + t) * q
    OBVIOUS
  <2>2. /\ <<m, h, t>> \in (Nat \ {0}) \X (Nat \ {0}) \X (Nat \ {0})
        /\ (m * h) % (h + t) = 0
    BY <2>1, OutputAssumption
  <2>3. m # 0 /\ h # 0 /\ t # 0
    BY <2>2
  <2>4. Share(m, h, t) = q - 1
    BY <2>1 DEF Share
  <2>5. QED
    BY <1>2, <2>2, <2>3, <2>4
<1>5. IsShare(m, h, t, q)
  <2> HIDE DEF q
  <2>1. QED
    BY <1>2, <1>3, <1>4, Zenon DEF IsShare
<1>6. QED
  BY <1>2, <1>5, Zenon

LEMMA ShareBounds ==
  ASSUME NEW m \in Nat, NEW h \in Nat, NEW t \in Nat, h + t # 0, m <= h + t
  PROVE  Share(m, h, t) \in Nat /\ Share(m, h, t) <= h /\ Share(m, h, t) <= m
<1> DEFINE d == h + t
<1>0. PICK q \in Nat : IsShare(m, h, t, q)
  BY ShareIs
<1>1. /\ q \in Nat /\ d * q <= m * h
      /\ \/ Share(m, h, t) = q
         \/ /\ Share(m, h, t) = q - 1
            /\ m # 0 /\ h # 0 /\ t # 0 /\ m * h = d * q
  BY <1>0, Zenon DEF IsShare
<1>2. d \in Nat \ {0} /\ h <= d /\ m <= d
  OBVIOUS
<1> HIDE DEF d
<1>3. m * h \in Nat /\ d * q \in Nat /\ d * h \in Nat /\ d * m \in Nat
  BY <1>1, <1>2
<1>4. m * h <= d * h /\ m * h <= d * m
  <2>1. \A x, y, z \in Nat : x <= y => x * z <= y * z
    OBVIOUS
  <2>2. m * h <= d * h /\ h * m <= d * m
    BY <1>2, <2>1
  <2>3. QED
    BY <2>2
<1>5. q <= h
  <2>1. SUFFICES ASSUME h < q PROVE FALSE
    BY <1>1
  <2>2. d * h + d <= d * q
    BY <1>1, <1>2, <2>1, ProductGrows
  <2>3. QED
    BY <1>1, <1>2, <1>3, <1>4, <2>2
<1>6. q <= m
  <2>1. SUFFICES ASSUME m < q PROVE FALSE
    BY <1>1
  <2>2. d * m + d <= d * q
    BY <1>1, <1>2, <2>1, ProductGrows
  <2>3. QED
    BY <1>1, <1>2, <1>3, <1>4, <2>2
<1>7. CASE Share(m, h, t) = q
  BY <1>1, <1>5, <1>6, <1>7
<1>8. CASE Share(m, h, t) = q - 1 /\ m # 0 /\ h # 0 /\ m * h = d * q
  <2>1. q # 0
    <3>1. SUFFICES ASSUME q = 0 PROVE FALSE
      OBVIOUS
    <3>2. m * h = 0
      BY <1>2, <1>8, <3>1
    <3>3. \A x, y \in Nat \ {0} : x * y # 0
      OBVIOUS
    <3>4. QED
      BY <1>8, <3>2, <3>3
  <2>2. QED
    BY <1>1, <1>5, <1>6, <1>8, <2>1
<1>9. QED
  BY <1>1, <1>7, <1>8

LEMMA ShareSteps ==
  ASSUME NEW m \in Nat, NEW h \in Nat, NEW t \in Nat, h + t # 0, m + 1 <= h + t
  PROVE  Share(m + 1, h, t) \in {Share(m, h, t), Share(m, h, t) + 1}
<1> DEFINE d == h + t
<1>0. PICK q \in Nat, r \in Nat : IsShare(m, h, t, q) /\ IsShare(m + 1, h, t, r)
  <2>1. m + 1 \in Nat
    OBVIOUS
  <2>2. QED
    BY <2>1, ShareIs
<1>1. /\ q \in Nat /\ d * q <= m * h /\ m * h < d * q + d
      /\ \/ Share(m, h, t) = q
         \/ Share(m, h, t) = q - 1 /\ t # 0 /\ m * h = d * q
  BY <1>0, Zenon DEF IsShare
<1>2. /\ r \in Nat /\ d * r <= (m + 1) * h /\ (m + 1) * h < d * r + d
      /\ \/ Share(m + 1, h, t) = r
         \/ Share(m + 1, h, t) = r - 1 /\ h # 0 /\ (m + 1) * h = d * r
  BY <1>0, Zenon DEF IsShare
<1>3. d \in Nat \ {0} /\ h <= d /\ (t # 0 => h < d)
  OBVIOUS
<1> HIDE DEF d
<1>4. (m + 1) * h = m * h + h /\ m * h \in Nat
  OBVIOUS
<1>5. d * q \in Int /\ d * r \in Int /\ d * (r - 1) = d * r - d /\ d * (q + 1) = d * q + d
  BY <1>1, <1>2, <1>3
<1>6. q <= r
  <2>1. SUFFICES ASSUME r < q PROVE FALSE
    BY <1>1, <1>2
  <2>2. d * r + d <= d * q
    BY <1>1, <1>2, <1>3, <2>1, ProductGrows
  <2>3. QED
    BY <1>1, <1>2, <1>3, <1>4, <1>5, <2>2
<1>7. r <= q + 1
  <2>1. SUFFICES ASSUME q + 1 < r PROVE FALSE
    BY <1>1, <1>2
  <2>2. d * (q + 1) + d <= d * r
    BY <1>1, <1>2, <1>3, <2>1, ProductGrows
  <2>3. QED
    BY <1>1, <1>2, <1>3, <1>4, <1>5, <2>2
<1>8. Share(m, h, t) = q - 1 /\ t # 0 /\ m * h = d * q => r = q
  <2>1. SUFFICES ASSUME t # 0, m * h = d * q, q < r PROVE FALSE
    BY <1>1, <1>2, <1>6
  <2>2. d * q + d <= d * r
    BY <1>1, <1>2, <1>3, <2>1, ProductGrows
  <2>3. QED
    BY <1>2, <1>3, <1>4, <1>5, <2>1, <2>2
<1>9. Share(m + 1, h, t) = r - 1 /\ h # 0 /\ (m + 1) * h = d * r => r = q + 1
  <2>1. SUFFICES ASSUME h # 0, (m + 1) * h = d * r, r = q PROVE FALSE
    BY <1>1, <1>2, <1>6, <1>7
  <2>2. QED
    BY <1>1, <1>3, <1>4, <1>5, <2>1
<1>10. r = q \/ r = q + 1
  BY <1>1, <1>2, <1>6, <1>7
<1>11. CASE Share(m, h, t) = q
  <2>1. CASE Share(m + 1, h, t) = r
    BY <1>10, <1>11, <2>1
  <2>2. CASE Share(m + 1, h, t) = r - 1 /\ h # 0 /\ (m + 1) * h = d * r
    BY <1>1, <1>9, <1>11, <2>2
  <2>3. QED
    BY <1>2, <2>1, <2>2
<1>12. CASE Share(m, h, t) = q - 1 /\ t # 0 /\ m * h = d * q
  <2>1. r = q
    BY <1>8, <1>12
  <2>2. CASE Share(m + 1, h, t) = r
    BY <1>1, <1>12, <2>1, <2>2
  <2>3. CASE Share(m + 1, h, t) = r - 1
    BY <1>12, <2>1, <2>3
  <2>4. QED
    BY <1>2, <2>2, <2>3
<1>13. QED
  BY <1>1, <1>11, <1>12

\* What both sides get adds up to the total, and grows with it.
LEMMA SplitIs ==
  ASSUME NEW m \in Nat, NEW h \in Nat, NEW t \in Nat, m <= h + t
  PROVE  LET s == Split(m, h, t)
             w == Least(t, m - (IF h + t = 0 THEN 0 ELSE Share(m, h, t)))
         IN s.tail = w /\ s.head = m - w /\ w \in Nat /\ w <= t /\ m - w \in Nat /\ m - w <= h
<1>1. CASE h + t = 0
  <2>1. m = 0 /\ h = 0 /\ t = 0
    BY <1>1
  <2>2. Share(0, 0, 0) = 0
    <3>1. <<0, 0, 0>> \notin FallsShort
      BY OutputAssumption
    <3>2. (0 * 0) \div 1 = 0 /\ 0 + 0 = 0
      OBVIOUS
    <3>3. Share(0, 0, 0) = (0 * 0) \div 1 - 0
      BY <3>1, <3>2, Zenon DEF Share
    <3>4. QED
      BY <3>2, <3>3
  <2>3. QED
    BY <2>1, <2>2 DEF Split, Least
<1>2. CASE h + t # 0
  <2>1. Share(m, h, t) \in Nat /\ Share(m, h, t) <= h /\ Share(m, h, t) <= m
    BY <1>2, ShareBounds
  <2> DEFINE x == Share(m, h, t)
             w == Least(t, m - x)
  <2>2. x \in Nat /\ x <= h /\ x <= m
    BY <2>1
  <2>3. Split(m, h, t) = LET add == Least(h - Least(h, x), m - Least(h, x) - Least(t, m - Least(h, x)))
                         IN [head |-> Least(h, x) + add,
                             tail |-> Least(t, m - Least(h, x))
                               + Least(t - Least(t, m - Least(h, x)),
                                       m - Least(h, x) - add - Least(t, m - Least(h, x)))]
    BY DEF Split
  <2> HIDE DEF x
  <2>4. Least(h, x) = x
    BY <2>2 DEF Least
  <2>5. w \in Nat /\ w <= t /\ w <= m - x /\ (w = t \/ w = m - x)
    BY <2>2 DEF Least
  <2>6. Least(h - x, m - x - w) = m - x - w
    <3>1. m - x - w <= h - x
      BY <2>2, <2>5
    <3> HIDE DEF w
    <3>2. QED
      BY <2>2, <2>5, <3>1 DEF Least
  <2>7. Least(t - w, m - x - (m - x - w) - w) = 0
    <3> HIDE DEF w
    <3>1. m - x - (m - x - w) - w = 0 /\ t - w >= 0
      BY <2>2, <2>5
    <3>2. QED
      BY <2>5, <3>1 DEF Least
  <2>8. Split(m, h, t) = [head |-> x + (m - x - w), tail |-> w + 0]
    BY <2>3, <2>4, <2>6, <2>7
  <2>9. /\ Split(m, h, t).tail = w /\ Split(m, h, t).head = m - w
        /\ m - w \in Nat /\ m - w <= h
    <3> HIDE DEF w
    <3>1. x + (m - x - w) = m - w /\ w + 0 = w /\ m - w \in Nat /\ m - w <= h
      BY <2>2, <2>5
    <3>2. QED
      BY <2>8, <3>1
  <2>10. QED
    BY <1>2, <2>5, <2>9 DEF x
<1>3. QED
  BY <1>1, <1>2

LEMMA SplitGrows ==
  ASSUME NEW m \in Nat, NEW h \in Nat, NEW t \in Nat, m + 1 <= h + t
  PROVE  /\ Split(m, h, t).head <= Split(m + 1, h, t).head
         /\ Split(m, h, t).tail <= Split(m + 1, h, t).tail
<1> DEFINE x == Share(m, h, t)
           y == Share(m + 1, h, t)
           w == Least(t, m - x)
           z == Least(t, (m + 1) - y)
<1>1. h + t # 0 /\ m <= h + t /\ m + 1 \in Nat
  OBVIOUS
<1>2. Split(m, h, t).tail = w /\ Split(m, h, t).head = m - w
  BY <1>1, SplitIs
<1>3. Split(m + 1, h, t).tail = z /\ Split(m + 1, h, t).head = (m + 1) - z
  BY <1>1, SplitIs
<1>4. x \in Nat /\ x <= m /\ (y = x \/ y = x + 1)
  BY <1>1, ShareBounds, ShareSteps
<1> HIDE DEF x, y
<1>5. w \in Int /\ z \in Int /\ (z = w \/ z = w + 1)
  BY <1>4 DEF Least
<1> HIDE DEF w, z
<1>6. QED
  BY <1>2, <1>3, <1>5

LEMMA SplitMonotone ==
  ASSUME NEW h \in Nat, NEW t \in Nat, NEW m \in 0 .. h + t, NEW l \in 0 .. h + t, m <= l
  PROVE  /\ Split(m, h, t).head \in Nat /\ Split(m, h, t).tail \in Nat
         /\ Split(m, h, t).head + Split(m, h, t).tail = m
         /\ Split(m, h, t).head <= Split(l, h, t).head
         /\ Split(m, h, t).tail <= Split(l, h, t).tail
<1> DEFINE H == [i \in 0 .. h + t |-> Split(i, h, t).head]
           T == [i \in 0 .. h + t |-> Split(i, h, t).tail]
           Z == [i \in 0 .. h + t |-> 0]
<1>1. \A i \in 0 .. h + t : /\ Split(i, h, t).head \in Nat /\ Split(i, h, t).tail \in Nat
                            /\ Split(i, h, t).head + Split(i, h, t).tail = i
  <2> SUFFICES ASSUME NEW i \in 0 .. h + t
               PROVE  /\ Split(i, h, t).head \in Nat /\ Split(i, h, t).tail \in Nat
                      /\ Split(i, h, t).head + Split(i, h, t).tail = i
    OBVIOUS
  <2> DEFINE w == Least(t, i - (IF h + t = 0 THEN 0 ELSE Share(i, h, t)))
  <2>1. i \in Nat /\ i <= h + t
    OBVIOUS
  <2>2. Split(i, h, t).tail = w /\ Split(i, h, t).head = i - w /\ w \in Nat /\ i - w \in Nat
    BY <2>1, SplitIs, ZenonT(30)
  <2> HIDE DEF w
  <2>3. QED
    BY <2>1, <2>2
<1>2. H \in [0 .. h + t -> Nat] /\ T \in [0 .. h + t -> Nat] /\ Z \in [0 .. h + t -> Nat]
  BY <1>1
<1>3. \A i \in 0 .. h + t : H[i] = Split(i, h, t).head /\ T[i] = Split(i, h, t).tail /\ Z[i] = 0
  OBVIOUS
<1> HIDE DEF H, T, Z
<1>4. \A i \in 1 .. h + t : H[i] - H[i - 1] >= Z[i] - Z[i - 1] /\ T[i] - T[i - 1] >= Z[i] - Z[i - 1]
  <2> SUFFICES ASSUME NEW i \in 1 .. h + t
               PROVE  H[i] - H[i - 1] >= Z[i] - Z[i - 1] /\ T[i] - T[i - 1] >= Z[i] - Z[i - 1]
    OBVIOUS
  <2>1. i - 1 \in Nat /\ (i - 1) + 1 = i /\ i - 1 \in 0 .. h + t /\ i \in 0 .. h + t
    OBVIOUS
  <2>2. /\ Split(i - 1, h, t).head <= Split(i, h, t).head
        /\ Split(i - 1, h, t).tail <= Split(i, h, t).tail
    <3>1. (i - 1) + 1 <= h + t
      BY <2>1
    <3>2. /\ Split(i - 1, h, t).head <= Split((i - 1) + 1, h, t).head
          /\ Split(i - 1, h, t).tail <= Split((i - 1) + 1, h, t).tail
      BY <2>1, <3>1, SplitGrows
    <3>3. QED
      BY <2>1, <3>2
  <2>3. /\ H[i] \in Nat /\ H[i - 1] \in Nat /\ T[i] \in Nat /\ T[i - 1] \in Nat
        /\ Z[i] = 0 /\ Z[i - 1] = 0 /\ H[i - 1] <= H[i] /\ T[i - 1] <= T[i]
    BY <1>1, <1>3, <2>1, <2>2
  <2>4. QED
    BY <2>3
<1>5. H[l] - H[m] >= Z[l] - Z[m] /\ T[l] - T[m] >= Z[l] - Z[m]
  <2>1. h + t \in Nat
    OBVIOUS
  <2>2. \A i, j \in 0 .. h + t : i <= j => H[j] - H[i] >= Z[j] - Z[i]
    BY <1>2, <1>4, <2>1, GrowsFaster
  <2>3. \A i, j \in 0 .. h + t : i <= j => T[j] - T[i] >= Z[j] - Z[i]
    BY <1>2, <1>4, <2>1, GrowsFaster
  <2>4. QED
    BY <2>2, <2>3
<1>6. QED
  BY <1>1, <1>3, <1>5

-------------------------------------------------------------------------------
(* The search for the largest share of a text that fits.                     *)

AllOptions ==
  [max : Nat, strategy : {"head-tail", "head-only"}, head : Nat \cup {-1}, tail : Nat \cup {-1},
   plain : BOOLEAN]

Span == HeadBytes(options) + TailBytes(options)
Measured(m) == Built(Kept(m))

LEMMA LimitsTyped ==
  ASSUME options \in AllOptions
  PROVE  /\ HeadBytes(options) \in Nat /\ TailBytes(options) \in Nat
         /\ Span \in Nat /\ Span <= options.max /\ options.max \in Nat
<1>1. /\ options.max \in Nat /\ options.head \in Nat \cup {-1} /\ options.tail \in Nat \cup {-1}
  BY DEF AllOptions
<1>2. options.max \div 2 \in Nat
  BY <1>1
<1>3. HeadBytes(options) \in Nat /\ HeadBytes(options) <= options.max
  BY <1>1, <1>2 DEF HeadBytes, Least
<1>4. TailBytes(options) \in Nat /\ TailBytes(options) <= options.max - HeadBytes(options)
  BY <1>1, <1>3 DEF TailBytes, Least
<1>5. QED
  BY <1>1, <1>3, <1>4 DEF Span

\* A share is kept as k characters of the front and l of the back, apart.
KeptBy(B, J, m, k, l) ==
  /\ HeadCut(B, Len(value), Split(m, HeadBytes(options), TailBytes(options)).head, k)
  /\ TailCut(B, Len(value), Split(m, HeadBytes(options), TailBytes(options)).tail, l)
  /\ Kept(m) = [head |-> SubSeq(value, 1, k), tail |-> SubSeq(value, Len(value) - l + 1, Len(value))]
  /\ k \in 0 .. Len(value) /\ l \in 0 .. Len(value) /\ k <= Len(value) - l

LEMMA WholeSize ==
  ASSUME value \in Seq(Chars), NEW B, NEW J, Measures(value, B, J)
  PROVE  Size(value) = B[Len(value)] /\ Size(value) \in Nat
<1>1. Len(value) \in Nat /\ SubSeq(value, 0 + 1, Len(value)) = value
  OBVIOUS
<1>2. 0 \in 0 .. Len(value) /\ Len(value) \in 0 .. Len(value) /\ 0 <= Len(value)
  BY <1>1
<1>3. /\ Size(SubSeq(value, 0 + 1, Len(value))) = B[Len(value)] - B[0]
      /\ B[0] = 0 /\ B[Len(value)] \in Nat
  BY <1>2 DEF Measures
<1>4. Size(value) = B[Len(value)] - B[0]
  BY <1>1, <1>3, Zenon
<1>5. QED
  BY <1>3, <1>4

LEMMA KeptIs ==
  ASSUME value \in Seq(Chars), options \in AllOptions, NeedsFit,
         NEW B, NEW J, Measures(value, B, J), NEW m \in 0 .. Span
  PROVE  \E k, l : KeptBy(B, J, m, k, l)
<1> DEFINE s == Split(m, HeadBytes(options), TailBytes(options))
           n == Len(value)
<1>1. /\ s.head \in Nat /\ s.tail \in Nat /\ s.head + s.tail = m
      /\ m <= options.max /\ options.max \in Nat
  <2>1. /\ HeadBytes(options) \in Nat /\ TailBytes(options) \in Nat
        /\ Span \in Nat /\ Span <= options.max /\ options.max \in Nat
    BY LimitsTyped
  <2>2. m \in 0 .. HeadBytes(options) + TailBytes(options) /\ m <= m
    BY <2>1 DEF Span
  <2>3. s.head \in Nat /\ s.tail \in Nat /\ s.head + s.tail = m
    BY <2>1, <2>2, SplitMonotone
  <2>4. QED
    BY <2>1, <2>3
<1> HIDE DEF s
<1>2. PICK k : HeadCut(B, n, s.head, k) /\ HeadOf(value, s.head) = SubSeq(value, 1, k)
  BY <1>1, HeadOfCuts
<1>3. PICK l : TailCut(B, n, s.tail, l) /\ TailOf(value, s.tail) = SubSeq(value, n - l + 1, n)
  BY <1>1, TailOfCuts
<1>4. n \in Nat /\ k \in 0 .. n /\ B[k] <= s.head /\ l \in 0 .. n /\ B[n] - B[n - l] <= s.tail
  BY <1>2, <1>3 DEF HeadCut, TailCut
<1>5. k <= n - l
  <2>1. SUFFICES ASSUME n - l < k PROVE FALSE
    BY <1>4
  <2>2. n - l \in 0 .. n /\ n \in 0 .. n /\ n - l <= k
    BY <1>4, <2>1
  <2>3. B[k] - B[n - l] >= k - (n - l) /\ B[k] \in Nat /\ B[n - l] \in Nat /\ B[n] \in Nat
    BY <1>4, <2>2 DEF Measures
  <2>4. B[n] > options.max
    BY WholeSize DEF NeedsFit
  <2> DEFINE x == B[k]
             y == B[n - l]
             z == B[n]
  <2>5. x - y >= k - (n - l) /\ x \in Nat /\ y \in Nat /\ z \in Nat /\ z > options.max
        /\ x <= s.head /\ z - y <= s.tail
    BY <1>4, <2>3, <2>4
  <2> HIDE DEF x, y, z, n
  <2>6. QED
    BY <1>1, <1>4, <2>1, <2>5, SMTT(20)
<1>6. Kept(m) = [head |-> SubSeq(value, 1, k), tail |-> SubSeq(value, n - l + 1, n)]
  BY <1>2, <1>3 DEF Kept, s
<1>7. QED
  BY <1>2, <1>3, <1>4, <1>5, <1>6 DEF KeptBy, s

\* What is built of k characters of the front and l of the back.
Cost(B, J, n, k, l) ==
  LET kept == B[k] + (B[n] - B[n - l])
  IN IF options.plain THEN Frame + Digits[B[n] - kept] + kept
     ELSE Frame + Digits[B[n]] + Digits[kept] + Digits[B[n] - kept] + J[k] + (J[n] - J[n - l])

LEMMA MeasuredIs ==
  ASSUME value \in Seq(Chars), NEW B, NEW J, Measures(value, B, J),
         NEW m, NEW k, NEW l, KeptBy(B, J, m, k, l)
  PROVE  Measured(m) = Cost(B, J, Len(value), k, l)
<1> DEFINE n == Len(value)
<1>1. /\ Kept(m) = [head |-> SubSeq(value, 1, k), tail |-> SubSeq(value, n - l + 1, n)]
      /\ k \in 0 .. n /\ l \in 0 .. n /\ k <= n - l /\ n \in Nat
  BY DEF KeptBy
<1>2. Size(SubSeq(value, 1, k)) = B[k] /\ JsonSize(SubSeq(value, 1, k)) = J[k]
  <2>1. 0 \in 0 .. n /\ 0 <= k /\ 0 + 1 = 1
    BY <1>1
  <2>2. /\ Size(SubSeq(value, 0 + 1, k)) = B[k] - B[0] /\ B[0] = 0 /\ B[k] \in Nat
        /\ JsonSize(SubSeq(value, 0 + 1, k)) = J[k] - J[0] /\ J[0] = 0 /\ J[k] \in Nat
    BY <1>1, <2>1 DEF Measures
  <2>3. QED
    BY <2>1, <2>2
<1>3. /\ Size(SubSeq(value, n - l + 1, n)) = B[n] - B[n - l]
      /\ JsonSize(SubSeq(value, n - l + 1, n)) = J[n] - J[n - l]
  <2>1. n - l \in 0 .. n /\ n \in 0 .. n /\ n - l <= n
    BY <1>1
  <2>2. QED
    BY <2>1 DEF Measures
<1>4. Size(value) = B[n]
  BY WholeSize
<1> HIDE DEF n
<1>5. QED
  BY <1>1, <1>2, <1>3, <1>4 DEF Measured, Built, Cost, n

LEMMA MeasuresGrow ==
  ASSUME NEW v \in Seq(Chars), NEW B, NEW J, Measures(v, B, J),
         NEW i \in 0 .. Len(v), NEW j \in 0 .. Len(v), i <= j
  PROVE  /\ B[i] \in Nat /\ B[j] \in Nat /\ J[i] \in Nat /\ J[j] \in Nat
         /\ B[j] - B[i] >= 0 /\ J[j] - J[i] >= B[j] - B[i]
<1>1. B[i] \in Nat /\ B[j] \in Nat /\ J[i] \in Nat /\ J[j] \in Nat
  BY DEF Measures
<1>2. B[j] - B[i] >= j - i /\ J[j] - J[i] >= B[j] - B[i]
  BY DEF Measures
<1>3. j - i >= 0 /\ j - i \in Int
  OBVIOUS
<1>4. B[j] - B[i] >= 0
  BY <1>1, <1>2, <1>3
<1>5. QED
  BY <1>1, <1>2, <1>4

\* What is built grows with what is kept: a number in it gets shorter by at most
\* as many digits as characters are added, each of at least one byte.
LEMMA CostGrows ==
  ASSUME NEW v \in Seq(Chars), NEW B, NEW J, Measures(v, B, J),
         NEW k \in 0 .. Len(v), NEW l \in 0 .. Len(v),
         NEW p \in k .. Len(v), NEW q \in l .. Len(v), p <= Len(v) - q
  PROVE  /\ Cost(B, J, Len(v), k, l) \in Int /\ Cost(B, J, Len(v), p, q) \in Int
         /\ Cost(B, J, Len(v), k, l) <= Cost(B, J, Len(v), p, q)
<1> DEFINE n == Len(v)
           less == B[k] + (B[n] - B[n - l])
           more == B[p] + (B[n] - B[n - q])
           jless == J[k] + (J[n] - J[n - l])
           jmore == J[p] + (J[n] - J[n - q])
<1>1. /\ n \in Nat /\ n \in 0 .. n /\ p \in 0 .. n /\ q \in 0 .. n /\ n - l \in 0 .. n /\ n - q \in 0 .. n
      /\ k <= p /\ n - q <= n - l /\ p <= n - q /\ n - l <= n
  OBVIOUS
<1>2. /\ B[k] \in Nat /\ B[p] \in Nat /\ B[n] \in Nat /\ B[n - l] \in Nat /\ B[n - q] \in Nat
      /\ J[k] \in Nat /\ J[p] \in Nat /\ J[n] \in Nat /\ J[n - l] \in Nat /\ J[n - q] \in Nat
  BY <1>1 DEF Measures
<1>3. /\ B[p] - B[k] >= 0 /\ J[p] - J[k] >= B[p] - B[k]
      /\ B[n - l] - B[n - q] >= 0 /\ J[n - l] - J[n - q] >= B[n - l] - B[n - q]
      /\ B[n - q] - B[p] >= 0
      /\ B[n] - B[n - l] >= 0
  <2>1. B[p] - B[k] >= 0 /\ J[p] - J[k] >= B[p] - B[k]
    BY <1>1, MeasuresGrow
  <2>2. B[n - l] - B[n - q] >= 0 /\ J[n - l] - J[n - q] >= B[n - l] - B[n - q]
    BY <1>1, MeasuresGrow
  <2>3. B[n - q] - B[p] >= 0 /\ B[n] - B[n - l] >= 0
    BY <1>1, MeasuresGrow
  <2>4. QED
    BY <2>1, <2>2, <2>3
<1>4. /\ less \in Nat /\ more \in Nat /\ less <= more /\ more <= B[n]
      /\ jless \in Int /\ jmore \in Int /\ jmore - jless >= more - less
  <2> DEFINE bk == B[k]  bp == B[p]  bn == B[n]  bl == B[n - l]  bq == B[n - q]
             jk == J[k]  jp == J[p]  jn == J[n]  jl == J[n - l]  jq == J[n - q]
  <2>1. /\ bk \in Nat /\ bp \in Nat /\ bn \in Nat /\ bl \in Nat /\ bq \in Nat
        /\ jk \in Nat /\ jp \in Nat /\ jn \in Nat /\ jl \in Nat /\ jq \in Nat
        /\ bp - bk >= 0 /\ jp - jk >= bp - bk /\ bl - bq >= 0 /\ jl - jq >= bl - bq
        /\ bq - bp >= 0 /\ bn - bl >= 0
    BY <1>2, <1>3
  <2>2. /\ less = bk + (bn - bl) /\ more = bp + (bn - bq)
        /\ jless = jk + (jn - jl) /\ jmore = jp + (jn - jq) /\ B[n] = bn
    OBVIOUS
  <2> HIDE DEF bk, bp, bn, bl, bq, jk, jp, jn, jl, jq, less, more, jless, jmore, n
  <2>3. QED
    BY <2>1, <2>2
<1> HIDE DEF less, more, jless, jmore
<1> DEFINE bn == B[n]
<1>5. bn \in Nat /\ bn - more \in Nat /\ bn - less \in Nat /\ bn - more <= bn - less /\ more <= bn
  <2>1. bn \in Nat /\ more <= bn
    BY <1>2, <1>4
  <2> HIDE DEF bn
  <2>2. QED
    BY <1>4, <2>1
<1> HIDE DEF bn
<1>6. /\ Digits[bn - more] \in Nat /\ Digits[bn - less] \in Nat
      /\ Digits[bn - less] - Digits[bn - more] <= (bn - less) - (bn - more)
  BY <1>5, DigitsGrow
<1>7. Digits[less] \in Nat /\ Digits[more] \in Nat /\ Digits[less] <= Digits[more] /\ Digits[bn] \in Nat
  BY <1>4, <1>5, DigitsGrow, DigitsStep
<1>8. /\ Cost(B, J, n, k, l) =
           IF options.plain THEN Frame + Digits[bn - less] + less
           ELSE Frame + Digits[bn] + Digits[less] + Digits[bn - less] + J[k] + (J[n] - J[n - l])
      /\ Cost(B, J, n, p, q) =
           IF options.plain THEN Frame + Digits[bn - more] + more
           ELSE Frame + Digits[bn] + Digits[more] + Digits[bn - more] + J[p] + (J[n] - J[n - q])
  BY DEF Cost, less, more, bn
<1>9. jless = J[k] + (J[n] - J[n - l]) /\ jmore = J[p] + (J[n] - J[n - q])
  BY DEF jless, jmore
<1> DEFINE a == Digits[bn - less]  b == Digits[bn - more]  c == Digits[less]  d == Digits[more]
           e == Digits[bn]
           x == Cost(B, J, n, k, l)  y == Cost(B, J, n, p, q)
           ja == J[k] jb == J[n] jc == J[n - l] jd == J[p] je == J[n - q]
<1>10. /\ a \in Nat /\ b \in Nat /\ c \in Nat /\ d \in Nat /\ e \in Nat /\ Frame \in Nat
       /\ a - b <= more - less /\ c <= d
       /\ ja \in Nat /\ jb \in Nat /\ jc \in Nat /\ jd \in Nat /\ je \in Nat
       /\ jless = ja + (jb - jc) /\ jmore = jd + (jb - je)
       /\ x = IF options.plain THEN Frame + a + less ELSE Frame + e + c + a + ja + (jb - jc)
       /\ y = IF options.plain THEN Frame + b + more ELSE Frame + e + d + b + jd + (jb - je)
  <2>1. (bn - less) - (bn - more) = more - less
    BY <1>4, <1>5
  <2>2. QED
    BY <1>2, <1>6, <1>7, <1>8, <1>9, <2>1, OutputAssumption
<1> HIDE DEF a, b, c, d, e, x, y, ja, jb, jc, jd, je
<1>11. x \in Int /\ y \in Int /\ x <= y
  BY <1>4, <1>10
<1>12. QED
  BY <1>11 DEF x, y, n

LEMMA MeasuredGrows ==
  ASSUME value \in Seq(Chars), options \in AllOptions, NeedsFit,
         NEW m \in 0 .. Span, NEW u \in 0 .. Span, m <= u
  PROVE  Measured(m) \in Int /\ Measured(u) \in Int /\ Measured(m) <= Measured(u)
<1> DEFINE n == Len(value)
           h == HeadBytes(options)
           t == TailBytes(options)
<1>1. PICK B, J : Measures(value, B, J)
  BY Measurable
<1>2. PICK k, l : KeptBy(B, J, m, k, l)
  BY <1>1, KeptIs
<1>3. PICK p, q : KeptBy(B, J, u, p, q)
  BY <1>1, KeptIs
<1>4. /\ Split(m, h, t).head \in Nat /\ Split(m, h, t).tail \in Nat
      /\ Split(u, h, t).head \in Nat /\ Split(u, h, t).tail \in Nat
      /\ Split(m, h, t).head <= Split(u, h, t).head
      /\ Split(m, h, t).tail <= Split(u, h, t).tail
  <2>1. h \in Nat /\ t \in Nat
    BY LimitsTyped
  <2>2. m \in 0 .. h + t /\ u \in 0 .. h + t /\ u <= u
    BY <2>1 DEF Span
  <2> HIDE DEF h, t
  <2>3. QED
    BY <2>1, <2>2, SplitMonotone
<1>5. /\ HeadCut(B, n, Split(m, h, t).head, k) /\ HeadCut(B, n, Split(u, h, t).head, p)
      /\ TailCut(B, n, Split(m, h, t).tail, l) /\ TailCut(B, n, Split(u, h, t).tail, q)
      /\ k \in 0 .. n /\ l \in 0 .. n /\ p \in 0 .. n /\ q \in 0 .. n /\ p <= n - q
  BY <1>2, <1>3 DEF KeptBy
<1>6. k <= p /\ l <= q
  BY <1>1, <1>4, <1>5, CutsGrow
<1>7. n \in Nat /\ p \in k .. n /\ q \in l .. n
  BY <1>5, <1>6
<1>8. /\ Cost(B, J, n, k, l) \in Int /\ Cost(B, J, n, p, q) \in Int
      /\ Cost(B, J, n, k, l) <= Cost(B, J, n, p, q)
  BY <1>1, <1>5, <1>7, CostGrows
<1>9. QED
  BY <1>1, <1>2, <1>3, <1>8, MeasuredIs

Unsearched == low = 0 /\ high = 0 /\ best = -1

\* What a search has found out: every share above its interval is too large, and
\* the last one below it fits.
Searched ==
  /\ low \in 0 .. high + 1 /\ high \in -1 .. Span
  /\ best = low - 1
  /\ best >= 0 => Measured(best) <= options.max
  /\ \A m \in 0 .. Span : m > high => Measured(m) > options.max

OutInv ==
  /\ outStage \in {"blank", "produced", "kept", "fitting", "done"}
  /\ disk \in {"none", "saved", "refused"}
  /\ value \in Seq(Chars) /\ options \in AllOptions
  /\ outStage \in {"blank", "produced", "kept"} => Unsearched
  /\ outStage = "produced" => value = original
  /\ outStage = "fitting" => NeedsFit /\ Searched
  /\ outStage = "done" => IF NeedsFit THEN Searched /\ low > high ELSE Unsearched
  /\ value = original \/ disk = "saved"

\* The state the program starts in.
LEMMA OutInitially == OutInit => OutInv
<1> SUFFICES ASSUME OutInit PROVE OutInv
  OBVIOUS
<1>1. value \in Seq(Chars) /\ value = original
  BY DEF OutInit
<1>2. options \in AllOptions
  BY DEF OutInit, AllOptions
<1>3. QED
  BY <1>1, <1>2 DEF OutInit, OutInv, Unsearched

\* What is told of a text and its options stays so while they do.
LEMMA MeasuredStays ==
  ASSUME value' = value, options' = options
  PROVE  /\ \A m : Measured(m)' = Measured(m)
         /\ Span' = Span /\ (NeedsFit <=> NeedsFit')
BY DEF Measured, Built, Kept, Span, NeedsFit

LEMMA OutputsTyped ==
  /\ \A v \in Texts(MaxLength) : v \in Seq(Chars)
  /\ \A o \in OutOptions : o \in AllOptions
  /\ [i \in 1 .. Preview |-> Plain] \in Seq(Chars)
<1>1. ASSUME NEW v \in Texts(MaxLength) PROVE v \in Seq(Chars)
  <2>1. PICK k \in 0 .. MaxLength : v \in [1 .. k -> Characters]
    BY DEF Texts
  <2>2. k \in Nat /\ v \in [1 .. k -> Chars]
    BY <2>1, OutputAssumption DEF Chars
  <2>3. QED
    BY <2>2, FunctionIsSequence
<1>2. ASSUME NEW o \in OutOptions PROVE o \in AllOptions
  BY OutputAssumption DEF OutOptions, AllOptions
<1>3. [i \in 1 .. Preview |-> Plain] \in Seq(Chars)
  <2>1. Preview \in Nat /\ [i \in 1 .. Preview |-> Plain] \in [1 .. Preview -> Chars]
    BY OutputAssumption DEF Chars
  <2>2. QED
    BY <2>1, FunctionIsSequence
<1>4. QED
  BY <1>1, <1>2, <1>3

LEMMA FitStepSearches ==
  ASSUME OutInv, FitStep
  PROVE  Searched'
<1> DEFINE mid == (low + high) \div 2
<1>1. /\ Searched /\ NeedsFit /\ value \in Seq(Chars) /\ options \in AllOptions
      /\ low <= high /\ value' = value /\ options' = options
  BY DEF OutInv, FitStep
<1>2. /\ low \in 0 .. high + 1 /\ high \in -1 .. Span /\ Span \in Nat
      /\ options.max \in Nat
      /\ \A m \in 0 .. Span : m > high => Measured(m) > options.max
  BY <1>1, LimitsTyped DEF Searched
<1>3. mid \in low .. high /\ mid \in 0 .. Span
  BY <1>1, <1>2
<1>4. /\ \A m : Measured(m)' = Measured(m)
      /\ Span' = Span /\ options.max' = options.max
  BY <1>1, MeasuredStays
<1>5. IF Measured(mid) <= options.max
      THEN best' = mid /\ low' = mid + 1 /\ high' = high
      ELSE high' = mid - 1 /\ low' = low /\ best' = best
  BY DEF FitStep, Measured
<1> HIDE DEF mid
<1>6. CASE Measured(mid) <= options.max
  <2>1. best' = mid /\ low' = mid + 1 /\ high' = high
    BY <1>5, <1>6
  <2>2. low' \in 0 .. high' + 1 /\ high' \in -1 .. Span' /\ best' = low' - 1
    BY <1>2, <1>3, <1>4, <2>1
  <2>3. Measured(best)' <= options.max'
    <3>1. Measured(best)' = Measured(mid)
      BY <1>1, <2>1 DEF Measured, Kept, Built
    <3>2. QED
      BY <1>4, <1>6, <3>1
  <2>4. \A m \in 0 .. Span' : m > high' => Measured(m)' > options.max'
    BY <1>2, <1>4, <2>1
  <2>5. QED
    BY <2>2, <2>3, <2>4 DEF Searched
<1>7. CASE ~ (Measured(mid) <= options.max)
  <2>1. high' = mid - 1 /\ low' = low /\ best' = best
    BY <1>5, <1>7
  <2>2. low' \in 0 .. high' + 1 /\ high' \in -1 .. Span' /\ best' = low' - 1
    BY <1>1, <1>2, <1>3, <1>4, <2>1 DEF Searched
  <2>3. best' >= 0 => Measured(best)' <= options.max'
    <3>1. best >= 0 => Measured(best) <= options.max
      BY <1>1 DEF Searched
    <3>2. Measured(best)' = Measured(best)
      BY <1>1, <2>1 DEF Measured, Kept, Built
    <3>3. QED
      BY <1>4, <2>1, <3>1, <3>2
  <2>4. \A m \in 0 .. Span : m > mid - 1 => Measured(m) > options.max
    <3> SUFFICES ASSUME NEW m \in 0 .. Span, m > mid - 1
                 PROVE  Measured(m) > options.max
      OBVIOUS
    <3>1. mid <= m
      BY <1>2, <1>3
    <3>2. Measured(mid) \in Int /\ Measured(m) \in Int /\ Measured(mid) <= Measured(m)
      BY <1>1, <1>3, <3>1, MeasuredGrows
    <3>3. QED
      BY <1>2, <1>7, <3>2
  <2>5. \A m \in 0 .. Span' : m > high' => Measured(m)' > options.max'
    BY <1>4, <2>1, <2>4
  <2>6. QED
    BY <2>2, <2>3, <2>5 DEF Searched
<1>8. QED
  BY <1>6, <1>7

\* Every step keeps it.
LEMMA OutStepKeeps == OutInv /\ [OutNext]_outVars => OutInv'
<1> SUFFICES ASSUME OutInv, [OutNext]_outVars PROVE OutInv'
  OBVIOUS
<1>0. /\ value \in Seq(Chars) /\ options \in AllOptions
      /\ outStage \in {"blank", "produced", "kept", "fitting", "done"}
      /\ disk \in {"none", "saved", "refused"}
      /\ value = original \/ disk = "saved"
  BY DEF OutInv
<1>1. CASE Produce
  <2>1. value' \in Seq(Chars) /\ options' \in AllOptions /\ value' = original'
    BY <1>1, OutputsTyped DEF Produce
  <2>2. QED
    BY <1>1, <2>1 DEF Produce, OutInv, Unsearched
<1>2. CASE NotSaved
  BY <1>2 DEF NotSaved, OutInv, Unsearched
<1>3. CASE SaveFails
  BY <1>3 DEF SaveFails, OutInv, Unsearched
<1>4. CASE Save
  <2>1. value' \in Seq(Chars)
    BY <1>4, OutputsTyped DEF Save
  <2>2. QED
    BY <1>4, <2>1 DEF Save, OutInv, Unsearched
<1>5. CASE Fits
  <2>1. ~ NeedsFit' /\ Unsearched'
    BY <1>5, MeasuredStays DEF Fits, OutInv, Unsearched
  <2>2. QED
    BY <1>5, <2>1 DEF Fits, OutInv
<1>6. CASE StartFit
  <2>1. NeedsFit' /\ Span' = Span
    BY <1>6, MeasuredStays DEF StartFit
  <2>2. Span \in Nat /\ low' = 0 /\ high' = Span /\ best' = -1
    BY <1>0, <1>6, LimitsTyped DEF StartFit, OutInv, Unsearched, Span
  <2>3. Searched'
    <3>1. \A m \in 0 .. Span' : ~ (m > high')
      BY <2>1, <2>2
    <3>2. ~ (best' >= 0)
      BY <2>2
    <3>3. low' \in 0 .. high' + 1 /\ high' \in -1 .. Span' /\ best' = low' - 1
      BY <2>1, <2>2
    <3>4. QED
      BY <3>1, <3>2, <3>3 DEF Searched
  <2>4. QED
    BY <1>0, <1>6, <2>1, <2>3 DEF StartFit, OutInv
<1>7. CASE FitStep
  <2>1. Searched'
    BY <1>7, FitStepSearches
  <2>2. NeedsFit'
    BY <1>7, MeasuredStays DEF FitStep, OutInv
  <2>3. /\ outStage' = "fitting" /\ value' = value /\ options' = options
        /\ original' = original /\ disk' = disk
    BY <1>7 DEF FitStep
  <2>4. QED
    BY <1>0, <2>1, <2>2, <2>3 DEF OutInv
<1>8. CASE EndFit
  <2>1. NeedsFit' /\ Searched' /\ low' > high'
    <3>1. /\ NeedsFit /\ Searched /\ low > high /\ low' = low /\ high' = high /\ best' = best
          /\ value' = value /\ options' = options
      BY <1>8 DEF EndFit, OutInv
    <3>2. QED
      BY <3>1, MeasuredStays DEF Searched, Measured, Kept, Built
  <2>2. QED
    BY <1>0, <1>8, <2>1 DEF EndFit, OutInv
<1>9. CASE UNCHANGED outVars
  <2>1. /\ UNCHANGED <<outStage, value, original, disk, options, low, high, best>>
    BY <1>9 DEF outVars
  <2>2. (NeedsFit <=> NeedsFit') /\ (Searched <=> Searched') /\ (Unsearched <=> Unsearched')
    BY <2>1, MeasuredStays DEF Searched, Unsearched, Measured, Kept, Built
  <2>3. QED
    BY <2>1, <2>2 DEF OutInv
<1>10. QED
  BY <1>1, <1>2, <1>3, <1>4, <1>5, <1>6, <1>7, <1>8, <1>9 DEF OutNext

LEMMA NothingIsSmall ==
  ASSUME value \in Seq(Chars)
  PROVE  Built([head |-> <<>>, tail |-> <<>>]) \in Nat /\ Size(value) \in Nat
<1>1. PICK B, J : Measures(value, B, J)
  BY Measurable
<1>2. 0 \in 0 .. Len(value) /\ 0 <= 0 /\ SubSeq(value, 0 + 1, 0) = <<>>
  OBVIOUS
<1>3. /\ Size(SubSeq(value, 0 + 1, 0)) = B[0] - B[0] /\ B[0] = 0
      /\ JsonSize(SubSeq(value, 0 + 1, 0)) = J[0] - J[0] /\ J[0] = 0
  BY <1>1, <1>2 DEF Measures
<1>4. Size(<<>>) = 0 /\ JsonSize(<<>>) = 0
  <2>1. B[0] - B[0] = 0 /\ J[0] - J[0] = 0
    BY <1>3
  <2>2. QED
    BY <1>2, <1>3, <2>1, Zenon
<1>5. Size(value) \in Nat
  BY <1>1, WholeSize
<1>6. Digits[Size(value)] \in Nat /\ Digits[0] \in Nat
  BY <1>5, DigitsStep
<1> DEFINE none == [head |-> <<>>, tail |-> <<>>]
<1>7. none.head = <<>> /\ none.tail = <<>>
  OBVIOUS
<1> HIDE DEF none
<1>8. Size(none.head) + Size(none.tail) = 0 /\ Size(value) - 0 = Size(value)
      /\ JsonSize(none.head) + JsonSize(none.tail) = 0
  BY <1>4, <1>5, <1>7
<1>9. Built(none) = IF options.plain THEN Frame + Digits[Size(value)] + 0
                    ELSE Frame + Digits[Size(value)] + Digits[0] + Digits[Size(value)]
                         + JsonSize(none.head) + JsonSize(none.tail)
  BY <1>8 DEF Built
<1>10. Built(none) \in Nat
  BY <1>4, <1>6, <1>7, <1>9, OutputAssumption, SMTT(20)
<1>11. QED
  BY <1>5, <1>10 DEF none

LEMMA OutInvGives == OutInv => OutputFits
<1> SUFFICES ASSUME OutInv PROVE OutputFits
  OBVIOUS
<1>0. value \in Seq(Chars) /\ options \in AllOptions
  BY DEF OutInv
<1>1. Span \in Nat /\ options.max \in Nat /\ Size(value) \in Nat
  BY <1>0, LimitsTyped, NothingIsSmall
<1>2. OutTypeOK
  <2>1. CASE Unsearched
    BY <2>1 DEF OutInv, OutTypeOK, Unsearched
  <2>2. CASE Searched
    BY <1>1, <2>2 DEF OutInv, OutTypeOK, Searched
  <2>3. QED
    BY <2>1, <2>2 DEF OutInv
<1>3. ContentFits
  <2> SUFFICES ASSUME outStage = "done"
               PROVE  /\ ContentSize <= options.max
                      /\ best >= 0 =>
                           /\ Len(Kept(best).head) + Len(Kept(best).tail) <= Len(value)
                           /\ Kept(best).head = SubSeq(value, 1, Len(Kept(best).head))
                           /\ Kept(best).tail =
                                SubSeq(value, Len(value) - Len(Kept(best).tail) + 1, Len(value))
    BY DEF ContentFits
  <2>1. CASE ~ NeedsFit
    <3>1. best = -1
      BY <2>1 DEF OutInv, Unsearched
    <3>2. ContentSize <= options.max
      BY <1>1, <2>1 DEF ContentSize, NeedsFit
    <3>3. QED
      BY <3>1, <3>2
  <2>2. CASE NeedsFit /\ best >= 0
    <3>1. Searched
      BY <2>2 DEF OutInv
    <3>2. ContentSize = Measured(best)
      BY <2>2 DEF ContentSize, Measured
    <3>3. best \in 0 .. Span
      BY <1>1, <2>2, <3>1 DEF Searched
    <3>4. PICK B, J : Measures(value, B, J)
      BY <1>0, Measurable
    <3>5. PICK k, l : KeptBy(B, J, best, k, l)
      BY <1>0, <2>2, <3>3, <3>4, KeptIs
    <3>6. /\ Kept(best) = [head |-> SubSeq(value, 1, k),
                           tail |-> SubSeq(value, Len(value) - l + 1, Len(value))]
          /\ k \in 0 .. Len(value) /\ l \in 0 .. Len(value) /\ k <= Len(value) - l
      BY <3>5 DEF KeptBy
    <3>7. /\ Kept(best).head = SubSeq(value, 1, k)
          /\ Kept(best).tail = SubSeq(value, Len(value) - l + 1, Len(value))
      BY <3>6
    <3>8. Len(SubSeq(value, 1, k)) = k /\ Len(SubSeq(value, Len(value) - l + 1, Len(value))) = l
      BY <1>0, <3>6
    <3>9. Measured(best) <= options.max
      BY <2>2, <3>1 DEF Searched
    <3>10. Len(Kept(best).head) = k /\ Len(Kept(best).tail) = l
      BY <3>7, <3>8, Zenon
    <3>11. k + l <= Len(value)
      BY <1>0, <3>6
    <3>12. ContentSize <= options.max
      BY <3>2, <3>9, Zenon
    <3>13. Len(Kept(best).head) + Len(Kept(best).tail) <= Len(value)
      BY <3>10, <3>11
    <3>14. QED
      BY <3>7, <3>10, <3>12, <3>13, Zenon
  <2>3. CASE NeedsFit /\ ~ (best >= 0)
    <3>1. ContentSize = Least(Built([head |-> <<>>, tail |-> <<>>]), options.max)
      BY <2>3 DEF ContentSize
    <3>2. ContentSize <= options.max
      BY <1>0, <1>1, <3>1, NothingIsSmall DEF Least
    <3>3. QED
      BY <2>3, <3>2
  <2>4. QED
    BY <2>1, <2>2, <2>3
<1>4. FitIsLargest
  <2> SUFFICES ASSUME outStage = "done", NeedsFit, NEW m \in 0 .. Span, Measured(m) <= options.max
               PROVE  m <= best
    BY DEF FitIsLargest, Span, Measured
  <2>1. Searched /\ low > high
    BY DEF OutInv
  <2>2. best = high /\ high \in -1 .. Span
    BY <1>1, <2>1 DEF Searched
  <2>3. ~ (m > high)
    <3>1. SUFFICES ASSUME m > high PROVE FALSE
      OBVIOUS
    <3>2. Measured(m) > options.max
      BY <2>1, <3>1 DEF Searched
    <3>3. Measured(m) \in Int
      BY <1>0, MeasuredGrows
    <3>4. QED
      BY <1>1, <3>2, <3>3
  <2>4. QED
    BY <1>1, <2>2, <2>3
<1>5. NothingLostUnmarked
  BY DEF OutInv, NothingLostUnmarked
<1>6. QED
  BY <1>2, <1>3, <1>4, <1>5 DEF OutputFits

\* Whatever a tool returns, whatever its budget and limits, what the model is shown
\* of it fits the budget, cuts no character, keeps as much of its front and back as
\* fits, and hides no loss (src/tools/truncation.ts, src/runtime/tool-persistence.ts).
THEOREM OutputAlwaysFits == OutSpec => []OutputFits
BY OutInitially, OutStepKeeps, OutInvGives, PTL DEF OutSpec

-------------------------------------------------------------------------------
(* Side by side.                                                             *)

\* Whatever part a behaviour exercises, each of them behaves as it does alone.
THEOREM ToolsRunsItsParts ==
  ToolsSpec => /\ RegistrySpec /\ SopSpec /\ McpSpec /\ SubSpec
               /\ FileSpec /\ BashSpec /\ OutSpec /\ FetchSpec
<1>1. ToolsInit => /\ RegistryInit /\ SopInit /\ McpInit /\ SubInit
                   /\ FileInit /\ BashInit /\ OutInit /\ FetchInit
  BY DEF ToolsInit
<1>2. [ToolsNext]_toolsVars =>
        /\ [RegistryNext]_registryVars /\ [SopNext]_sopVars /\ [McpNext]_mcpVars
        /\ [SubNext]_subVars /\ [FileNext]_fileVars /\ [BashNext]_bashVars
        /\ [OutNext]_outVars /\ [FetchNext]_fetchVars
  BY DEF ToolsNext, toolsVars
<1>3. QED
  BY <1>1, <1>2, PTL DEF ToolsSpec, RegistrySpec, SopSpec, McpSpec, SubSpec, FileSpec, BashSpec,
     OutSpec, FetchSpec

\* The registry charges no call beyond the limit and launches none that was not
\* permitted, whatever else is done for the model.
THEOREM ToolsWithinLimits == ToolsSpec => [](LimitHolds /\ LaunchPermitted)
BY ToolsRunsItsParts, RegistryLimit, RegistryPermits, PTL

\* A call's result is never replaced by another.
THEOREM ToolsResultsFinal == ToolsSpec => ResultIsFinal
BY ToolsRunsItsParts, RegistryResultsFinal

\* Calls, files, commands and fetches are accounted for.
THEOREM ToolsAccountForCalls == ToolsSpec => []CallsAccounted
<1>1. ToolsSpec => [](/\ RegistryTypeOK /\ FileTypeOK /\ OneAtATime
                      /\ (BashTypeOK /\ CommandAccounted) /\ FetchAccounted)
  BY ToolsRunsItsParts, RegistryTyped, FilesTyped, FilesOneAtATime, BashAccounted,
     FetchIsAccounted, PTL
<1>2. (/\ RegistryTypeOK /\ FileTypeOK /\ OneAtATime
       /\ (BashTypeOK /\ CommandAccounted) /\ FetchAccounted) => CallsAccounted
  BY DEF CallsAccounted
<1>3. QED
  BY <1>1, <1>2, PTL

\* What MCP servers, delegations and SOPs report is what happened.
THEOREM ToolsAccountForServers == ToolsSpec => []McpAccounted
BY ToolsRunsItsParts, McpIsAccounted

THEOREM ToolsAccountForDelegations == ToolsSpec => []DelegationAccounted
BY ToolsRunsItsParts, DelegationIsAccounted

THEOREM ToolsTellOfSops == ToolsSpec => []SopHonest
BY ToolsRunsItsParts, SopIsHonest

\* What the model is shown of an output fits its budget.
THEOREM ToolsFitOutputs == ToolsSpec => []OutputFits
BY ToolsRunsItsParts, OutputAlwaysFits

\* No file is seen half written by another call.
THEOREM ToolsWriteAtomically == ToolsSpec => RefinesAtomicFiles
BY ToolsRunsItsParts, FilesAtomic

\* Each part heeds an abort.
THEOREM ToolsHeedEveryAbort == ToolsSpec => ToolsHeedAbort
BY ToolsRunsItsParts, SopHeedsAbort, FetchGoesQuiet, AbandonedStaySilent DEF ToolsHeedAbort

===============================================================================
