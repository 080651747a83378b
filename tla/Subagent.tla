------------------------------- MODULE Subagent --------------------------------
(***************************************************************************)
(* The subagent tool (src/tools/subagent.ts): one child, or a batch of     *)
(* them side by side, each running an agent loop of its own inside one     *)
(* tool call of the parent.  raceAbort gives a child up when the parent's  *)
(* signal aborts; its loop goes on for a while, unheard.  A child's end is *)
(* summarised in the parent's session, then its transcript is saved.  The  *)
(* signal may be aborted by the user or by the run's timeout: isAbortError *)
(* (src/runtime/timeout.ts) takes only the first for an abort.             *)
(***************************************************************************)
EXTENDS Naturals, Sequences, FiniteSets, SequencesExt

CONSTANTS
  MaxChildren,   \* tasks of one batch
  Keeps          \* options.transcriptStore is given

ASSUME SubagentAssumption == MaxChildren \in Nat \ {0} /\ Keeps \in BOOLEAN

Children == 1 .. MaxChildren

VARIABLES
  subStage,       \* "blank", "running" inside execute, then what it ended with
  batch,          \* the input has tasks[]
  tasks,          \* the children the call asks for
  child,          \* where runSingleSubagent stands for each
  loops,          \* children whose agent loop has not ended
  branches,       \* branch_summary entries of the parent's session
  transcripts,    \* children whose transcript has been saved
  callerSignal,   \* "on", or why the parent's signal was aborted
  outputs         \* what the call answered: a status for each task

subVars == <<subStage, batch, tasks, child, loops, branches, transcripts, callerSignal, outputs>>

ChildStages == {"none", "looping", "saving", "completed", "errored", "threw"}
Status == {"completed", "errored"}
Entries == [child: Children, status: Status]

SubInit ==
  /\ subStage = "blank"
  /\ batch = FALSE
  /\ tasks = {}
  /\ child = [t \in Children |-> "none"]
  /\ loops = {}
  /\ branches = <<>>
  /\ transcripts = {}
  /\ callerSignal = "on"
  /\ outputs = [t \in Children |-> "none"]

(* parseInput accepts the input and every child's run is started; a child  *)
(* whose subagent is not in the bundle throws at once.                     *)
Delegate ==
  /\ subStage = "blank"
  /\ \E many \in BOOLEAN, n \in Children, unknown \in SUBSET Children :
       /\ many \/ n = 1
       /\ batch' = many
       /\ tasks' = 1 .. n
       /\ child' = [t \in Children |-> IF t > n THEN "none"
                                       ELSE IF t \in unknown THEN "threw" ELSE "looping"]
       /\ loops' = (1 .. n) \ unknown
  /\ subStage' = "running"
  /\ UNCHANGED <<branches, transcripts, callerSignal, outputs>>

(* parseInput throws: no child runs.                                       *)
Misuse ==
  /\ subStage = "blank"
  /\ subStage' = "threw"
  /\ UNCHANGED <<batch, tasks, child, loops, branches, transcripts, callerSignal, outputs>>

Summarise(t, status) == branches' = Append(branches, [child |-> t, status |-> status])

Becomes(t, stage) ==
  /\ child' = [child EXCEPT ![t] = stage]
  /\ UNCHANGED <<subStage, batch, tasks, callerSignal, outputs>>

\* The child's answer wins the race: the branch is summarised before anything
\* is saved, and before the parent's call has a result.
ChildAnswers(t) ==
  /\ child[t] = "looping" /\ t \in loops
  /\ Becomes(t, IF Keeps THEN "saving" ELSE "completed")
  /\ loops' = loops \ {t}
  /\ Summarise(t, "completed")
  /\ UNCHANGED transcripts

Saved(t) ==
  /\ child[t] = "saving"
  /\ Becomes(t, "completed")
  /\ transcripts' = transcripts \cup {t}
  /\ UNCHANGED <<loops, branches>>

\* Mutated form of Catch: a timeout is taken for an abort.
CatchSignal(t, timedOut) ==
  IF callerSignal # "on"
  THEN Becomes(t, "threw") /\ UNCHANGED branches
  ELSE Becomes(t, "errored") /\ Summarise(t, "errored")

(* The catch of runSingleSubagent: an abort is passed on, anything else is *)
(* summarised and becomes an output.                                       *)
Catch(t, timedOut) ==
  IF callerSignal = "user" /\ ~timedOut
  THEN Becomes(t, "threw") /\ UNCHANGED branches
  ELSE Becomes(t, "errored") /\ Summarise(t, "errored")

\* An ordinary error while the signal is aborted counts as an abort too.
TranscriptFails(t) ==
  /\ child[t] = "saving"
  /\ IF callerSignal = "on" THEN Catch(t, FALSE) ELSE Becomes(t, "threw") /\ UNCHANGED branches
  /\ UNCHANGED <<loops, transcripts>>

LoopFails(t) ==
  /\ child[t] = "looping" /\ t \in loops /\ callerSignal = "on"
  /\ Catch(t, FALSE)
  /\ loops' = loops \ {t}
  /\ UNCHANGED transcripts

\* The abort wins the race: the child is given up while its loop goes on.
GivenUp(t) ==
  /\ child[t] = "looping" /\ callerSignal # "on"
  /\ Catch(t, callerSignal = "timeout")
  /\ UNCHANGED <<loops, transcripts>>

\* Mutated form of ZombieEnds: a child given up reports in the end.
ZombieSummarised(t) ==
  /\ t \in loops /\ child[t] # "looping"
  /\ loops' = loops \ {t}
  /\ Summarise(t, "completed")
  /\ UNCHANGED <<subStage, batch, tasks, child, transcripts, callerSignal, outputs>>

(* A loop that nobody waits for comes to its end.                          *)
ZombieEnds(t) ==
  /\ t \in loops /\ child[t] # "looping"
  /\ loops' = loops \ {t}
  /\ UNCHANGED <<subStage, batch, tasks, child, branches, transcripts, callerSignal, outputs>>

AbortParent ==
  /\ subStage = "running" /\ callerSignal = "on"
  /\ callerSignal' \in {"user", "timeout"}
  /\ UNCHANGED <<subStage, batch, tasks, child, loops, branches, transcripts, outputs>>

ChildrenSettled == \A t \in tasks : child[t] \in {"completed", "errored", "threw"}

\* A batch answers for every task: what one threw is an errored output of it,
\* an abort included; a single task's abort is thrown on.
Answer ==
  /\ subStage = "running" /\ ChildrenSettled
  /\ \/ /\ batch \/ child[1] # "threw"
        /\ subStage' = "answered"
        /\ outputs' = [t \in Children |-> IF child[t] = "threw" THEN "errored" ELSE child[t]]
     \/ /\ ~batch /\ child[1] = "threw"
        /\ subStage' = "threw"
        /\ UNCHANGED outputs
  /\ UNCHANGED <<batch, tasks, child, loops, branches, transcripts, callerSignal>>

SubStep ==
  \/ Answer
  \/ \E t \in Children :
       ChildAnswers(t) \/ Saved(t) \/ TranscriptFails(t) \/ LoopFails(t) \/ GivenUp(t) \/ ZombieEnds(t)

SubNext == Delegate \/ Misuse \/ AbortParent \/ SubStep

SubSpec == SubInit /\ [][SubNext]_subVars

\* Model calls and files settle, and an abandoned loop heeds the signal in the end;
\* a child that never answers is waited for until somebody aborts.
SubFairness ==
  /\ WF_subVars(Answer)
  /\ \A t \in Children : /\ WF_subVars(Saved(t) \/ TranscriptFails(t))
                         /\ WF_subVars(GivenUp(t))
                         /\ WF_subVars(ZombieEnds(t))

-------------------------------------------------------------------------------
(* Type correctness.                                                       *)
SubTypeOK ==
  /\ subStage \in {"blank", "running", "answered", "threw"}
  /\ tasks \subseteq Children /\ loops \subseteq tasks /\ transcripts \subseteq tasks
  /\ child \in [Children -> ChildStages]
  /\ branches \in Seq(Entries)
  /\ callerSignal \in {"on", "user", "timeout"}
  /\ outputs \in [Children -> Status \cup {"none"}]

Summaries(t, s) == Cardinality({i \in 1 .. Len(branches) : branches[i] = [child |-> t, status |-> s]})

\* What the parent's session tells the model about a branch agrees with what the
\* call answers: a completed task is summarised once, as completed, and its
\* transcript is saved first; a task that ran and is answered as errored has at
\* most one summary of each kind, and one as completed only if its save failed.
BranchesAgree ==
  \A t \in tasks :
    /\ child[t] = "completed" => /\ Summaries(t, "completed") = 1
                                 /\ Summaries(t, "errored") = 0
                                 /\ Keeps => t \in transcripts
    /\ child[t] \in {"errored", "threw"} => /\ t \notin transcripts
                                            /\ Summaries(t, "errored") <= 1
                                            /\ Summaries(t, "completed") = 1 => Keeps
    /\ child[t] = "looping" => Summaries(t, "completed") + Summaries(t, "errored") = 0

\* A child that was given up never speaks again: from the answer of the call on
\* nothing of it reaches the parent's session, although its loop may go on.
AbandonedSilent ==
  [][(subStage \in {"answered", "threw"}) => branches' = branches]_subVars

\* A user's abort of a child is never told as the child's own failure in the
\* parent's session; a timeout is, once.
AbortLeavesNoBranch ==
  \A t \in tasks :
    /\ callerSignal = "user" /\ t \in loops => Summaries(t, "errored") = 0
    /\ callerSignal = "timeout" /\ t \in loops /\ child[t] # "looping" => Summaries(t, "errored") = 1

\* A delegation (src/tools/subagent.ts) is told to the parent as it went.
DelegationAccounted == SubTypeOK /\ BranchesAgree /\ AbortLeavesNoBranch

===============================================================================
