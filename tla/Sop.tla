---------------------------------- MODULE Sop ----------------------------------
(***************************************************************************)
(* The SOP engine: validateSOPSpec (src/sop/validator.ts), runSOP          *)
(* (src/sop/runner.ts) and the verifications it asks for.  A step's        *)
(* precondition, action and verification are awaited; between two awaits   *)
(* the user may abort.  What a step does is open: its action returns or    *)
(* throws, its verification passes, fails or throws.                       *)
(***************************************************************************)
EXTENDS Naturals, Sequences, SequencesExt, FiniteSets

CONSTANT MaxSteps   \* steps of a specification, numbered in the order of the file

ASSUME SopAssumption == MaxSteps \in Nat \ {0}

Steps == 1 .. MaxSteps
Undefined == 0      \* an id that dependsOn names and no step has

VARIABLES
  sopStage,    \* what runSOP awaits
  plan,        \* dependsOn of each step, executionMode, whether the SOP has a verification
  order,       \* orderedSteps
  outcome,     \* status of each step's result
  sopStatus,   \* overallStatus
  stopEarly,
  sopAborted   \* options.signal.aborted

sopVars == <<sopStage, plan, order, outcome, sopStatus, stopEarly, sopAborted>>

Plans == [deps: [Steps -> SUBSET (Steps \cup {Undefined})], stop: BOOLEAN, verified: BOOLEAN]
SopStages == {"blank", "loop", "precondition", "acting", "verifying", "final",
              "done", "rejected", "thrown"}
StepStatuses == {"none", "passed", "failed", "skipped", "error"}

\* A cycle-free dependsOn can be ranked; detectCycles and topoSort throw otherwise.
Acyclic(deps) ==
  \E rank \in [Steps -> Steps] :
    \A s \in Steps : \A d \in deps[s] \cap Steps : rank[d] < rank[s]

Accepted(deps) ==
  /\ \A s \in Steps : deps[s] \subseteq Steps \ {s}
  /\ Acyclic(deps)

\* Visits the steps S one after the other, each behind its dependencies, and
\* appends those that are not done; dependsOn lists its steps in the order of the file.
Visits(deps) ==
  LET visited[S \in SUBSET Steps] == [done \in Seq(Steps) |->
        IF S = {} THEN done
        ELSE LET s      == Max(S)
                 before == visited[S \ {s}][done]
             IN IF s \in Range(before) THEN before
                ELSE Append(visited[deps[s] \cap Steps][before], s)]
  IN visited

TopoSort(deps) == Visits(deps)[Steps][<<>>]

Settled == {s \in Steps : outcome[s] # "none"}
Current == order[Cardinality(Settled) + 1]
Failing == {"failed", "error"}
DepsFailed == {d \in plan.deps[Current] : outcome[d] \in {"none"} \cup Failing}

SopInit ==
  /\ sopStage = "blank"
  /\ plan = [deps |-> [s \in Steps |-> {}], stop |-> FALSE, verified |-> FALSE]
  /\ order = <<>>
  /\ outcome = [s \in Steps |-> "none"]
  /\ sopStatus = "passed"
  /\ stopEarly = FALSE
  /\ sopAborted = FALSE

(* The specification is loaded, validated and sorted.                      *)
StartSop ==
  /\ sopStage = "blank"
  /\ \E p \in Plans :
       /\ plan' = p
       /\ \/ Accepted(p.deps) /\ sopStage' = "loop" /\ order' = TopoSort(p.deps)
          \/ ~Accepted(p.deps) /\ sopStage' = "rejected" /\ UNCHANGED order
  /\ UNCHANGED <<outcome, sopStatus, stopEarly, sopAborted>>

Settle(status, overall) ==
  /\ outcome' = [outcome EXCEPT ![Current] = status]
  /\ sopStatus' = overall
  /\ sopStage' = "loop"
  /\ UNCHANGED <<plan, order, sopAborted>>

Await(stage) ==
  /\ sopStage' = stage
  /\ UNCHANGED <<plan, order, outcome, sopStatus, stopEarly, sopAborted>>

AtStep == sopStage = "loop" /\ Settled # Steps

SkipStopped == AtStep /\ stopEarly /\ Settle("skipped", sopStatus) /\ UNCHANGED stopEarly

SkipAborted ==
  AtStep /\ ~stopEarly /\ sopAborted /\ Settle("skipped", "failed") /\ UNCHANGED stopEarly

AskPrecondition == AtStep /\ ~stopEarly /\ ~sopAborted /\ Await("precondition")

PreconditionUnmet ==
  sopStage = "precondition" /\ Settle("skipped", sopStatus) /\ UNCHANGED stopEarly

\* Only a failed dependency blocks a step, a skipped one does not.
SkipDependent ==
  /\ sopStage = "precondition" /\ DepsFailed # {}
  /\ Settle("skipped", "partial") /\ UNCHANGED stopEarly

StartAction == sopStage = "precondition" /\ DepsFailed = {} /\ Await("acting")

\* Mutated form of StepThrows: the error is forgotten once the next step passes.
StepThrowsUnnoticed ==
  /\ sopStage \in {"acting", "verifying"}
  /\ Settle("error", sopStatus)
  /\ stopEarly' = (stopEarly \/ plan.stop)

(* The catch around action and verification.                               *)
StepThrows ==
  /\ sopStage \in {"acting", "verifying"}
  /\ Settle("error", "failed")
  /\ stopEarly' = (stopEarly \/ plan.stop)

ActionReturns == sopStage = "acting" /\ Await("verifying")

StepVerified ==
  /\ sopStage = "verifying"
  /\ \/ Settle("passed", sopStatus)
     \/ Settle("failed", "partial")
  /\ UNCHANGED stopEarly

\* The verification of the whole SOP is not asked for once it has failed.
EndOfSteps ==
  /\ sopStage = "loop" /\ Settled = Steps
  /\ Await(IF plan.verified /\ sopStatus # "failed" THEN "final" ELSE "done")

FinalVerified ==
  /\ sopStage = "final"
  /\ \/ Await("done")
     \/ /\ sopStage' = "done"
        /\ sopStatus' = IF sopStatus = "passed" THEN "failed" ELSE sopStatus
        /\ UNCHANGED <<plan, order, outcome, stopEarly, sopAborted>>

\* No catch: runSOP itself rejects, and the results of the steps are gone.
FinalThrows == sopStage = "final" /\ Await("thrown")

AbortSop ==
  /\ sopStage \notin {"blank", "done", "rejected", "thrown"} /\ ~sopAborted
  /\ sopAborted' = TRUE
  /\ UNCHANGED <<sopStage, plan, order, outcome, sopStatus, stopEarly>>

SopStep ==
  \/ SkipStopped \/ SkipAborted \/ AskPrecondition \/ PreconditionUnmet
  \/ SkipDependent \/ StartAction \/ StepThrows \/ ActionReturns \/ StepVerified
  \/ EndOfSteps \/ FinalVerified \/ FinalThrows

SopNext == StartSop \/ SopStep \/ AbortSop

SopSpec == SopInit /\ [][SopNext]_sopVars

-------------------------------------------------------------------------------
\* Every step stands in the order, and only once.
EachOnce(seq) == seq \in [Steps -> Steps] /\ \A i, j \in Steps : seq[i] = seq[j] => i = j

(* Type correctness; a step runs only while some step has no result.       *)
SopTypeOK ==
  /\ sopStage \in SopStages
  /\ plan \in Plans
  /\ IF sopStage \in {"blank", "rejected"} THEN order = <<>> ELSE EachOnce(order)
  /\ outcome \in [Steps -> StepStatuses]
  /\ sopStatus \in {"passed", "failed", "partial"}
  /\ stopEarly \in BOOLEAN
  /\ sopAborted \in BOOLEAN
  /\ sopStage \in {"precondition", "acting", "verifying"} => Settled # Steps

Acted == {s \in Steps : outcome[s] \in {"passed"} \cup Failing}
         \cup {s \in Steps : sopStage \in {"acting", "verifying"} /\ s = Current}

\* Whatever order the file gives, an action has only run when every step it
\* depends on had its result, and none of them had failed: the sort, the check
\* of the results and the place of a result in the list agree.
DependenciesHeld ==
  \A s \in Acted : \A d \in plan.deps[s] : outcome[d] \in {"passed", "skipped"}

\* The status of a finished SOP hides nothing: "passed" means that no step
\* failed or threw; with stop_on_failure a step that threw makes it "failed",
\* which no later step overwrites.
StatusHonest ==
  sopStage = "done" =>
    /\ sopStatus = "passed" => \A s \in Steps : outcome[s] \notin Failing
    /\ plan.stop /\ (\E s \in Steps : outcome[s] = "error") => sopStatus = "failed"

\* After an abort at most the step under way is carried on with: no other step's
\* precondition is asked and no other step's action starts, and an SOP the
\* abort has cut short ends as "failed".
AbortCutsShort ==
  [][sopAborted => /\ sopStage' = "precondition" => sopStage = "precondition"
                   /\ sopStage = "loop" /\ ~stopEarly /\ outcome' # outcome
                        => sopStatus' = "failed"]_sopVars

\* What a run of an SOP tells of its steps (src/sop/runner.ts) is what happened:
\* the order they ran in and the status that sums them up.
SopHonest == SopTypeOK /\ DependenciesHeld /\ StatusHonest

===============================================================================
