----------------------------- MODULE Evolution -----------------------------
(***************************************************************************)
(* `evoa evolve`: evolution/engine.ts runs the suite with the baseline     *)
(* agent and with a candidate (benchmark/runner.ts), compares the runs and *)
(* recommends; cli/commands.ts does so for one candidate ("compare"), for  *)
(* every candidate of a generator ("generate"), or again and again with    *)
(* the best candidate as the next baseline ("auto").  verification/        *)
(* verifier.ts gives a second opinion on a comparison.                     *)
(*                                                                         *)
(* An agent is its allowed and its denied tools, the part that candidates  *)
(* of a generator change in steps that undo one another, and that a run    *)
(* changes too: runtime/agent-runtime.ts allows the agent it runs the      *)
(* "subagent" tool when its bundle has subagents, in the agent's own       *)
(* object, so the candidate that is adopted hands it on.                   *)
(***************************************************************************)
EXTENDS Integers, FiniteSets, Sequences, Functions

CONSTANTS
  SuiteTasks,      \* number of tasks of the suite
  MaxCandidates,   \* bound: candidates of one generation
  MaxIterations,   \* bound: the N of --auto N
  MaxRetooled,     \* bound: candidates of one generation with other tools than their parent
  EvoTools,        \* tools the mutations name, beside "subagent"
  BaselineRuns,    \* the runs of a task a baseline may have
  CandidateRuns    \* and those a candidate may have

Tools == EvoTools \union {"subagent"}

Sides == {"baseline", "candidate"}

\* A run of a task: how it ended, its score, the memory issues its grader counted,
\* and whether its trace holds what the verifier blocks: a tool call that policy
\* denied, or the compaction breaker open.  A graded run may have any score, a
\* failed one too; a run that threw scores nothing and has lost the runtime's trace.
Run(status, score, memory, marred) ==
  [status |-> status, score |-> score, memory |-> memory, marred |-> marred]
GradedRuns == [status : {"passed", "failed"}, score : Nat, memory : Nat, marred : BOOLEAN]
ThrownRuns == {Run(status, 0, 0, FALSE) : status \in {"errored", "timeout", "interrupted"}}

Runs == BaselineRuns \union CandidateRuns

ASSUME EvolutionAssumption ==
  /\ SuiteTasks \in Nat \ {0} /\ MaxCandidates \in Nat \ {0} /\ MaxIterations \in Nat \ {0}
  /\ Runs \subseteq GradedRuns \union ThrownRuns

Agents == [allowed : SUBSET Tools, denied : SUBSET Tools]

VARIABLES
  evoStage,     \* "blank", "generating", "opening", "running", "closing", "comparing",
                \* "saving", "deciding", "done", "thrown"
  evoMode,      \* "compare", "generate", "auto"
  historyKept,  \* --history was given
  delegating,   \* the sides whose bundle has subagents
  iteration,    \* of "auto", from 1
  baseAgent,    \* the baseline
  candidates,   \* the agents still to compare in this generation; the first is at it
  open,         \* the runners whose runtime is open
  runs,         \* the runs of each side so far
  comparisons,  \* of this generation, in order
  made,         \* number of comparisons the process has made
  history,      \* number of comparisons in the history file
  adopted,      \* which of `comparisons` became the baseline, 0 while none did
  evoExit       \* exit code, or 9 while there is none

evoVars == <<evoStage, evoMode, historyKept, delegating, iteration, baseAgent, candidates, open, runs,
             comparisons, made, history, adopted, evoExit>>

NoRuns == [s \in Sides |-> << >>]

EvoInit ==
  /\ evoStage = "blank" /\ evoMode = "auto" /\ historyKept = FALSE
  /\ delegating = {} /\ iteration = 0
  /\ baseAgent = [allowed |-> {}, denied |-> {}]
  /\ candidates = << >> /\ open = {} /\ runs = NoRuns
  /\ comparisons = << >> /\ made = 0 /\ history = 0 /\ adopted = 0 /\ evoExit = 9

(***************************************************************************)
(* The generator: one mutation of the parent per candidate, of its tools   *)
(* or of a part the comparison does not look at.                           *)
(***************************************************************************)

AllowTools(agent, tools) ==
  [allowed |-> agent.allowed \union tools, denied |-> agent.denied \ tools]
DisallowTools(agent, tools) == [agent EXCEPT !.allowed = @ \ tools]
DenyTools(agent, tools) ==
  [allowed |-> agent.allowed \ tools, denied |-> agent.denied \union tools]
UndenyTools(agent, tools) == [agent EXCEPT !.denied = @ \ tools]

Mutations(agent) ==
  {agent} \union
  UNION {{AllowTools(agent, ts), DisallowTools(agent, ts), DenyTools(agent, ts),
          UndenyTools(agent, ts)} : ts \in SUBSET Tools \ {{}}}

(***************************************************************************)
(* The comparison.                                                         *)
(***************************************************************************)

Scores(rs) == [i \in DOMAIN rs |-> rs[i].score]
Passed(rs) == [i \in DOMAIN rs |-> IF rs[i].status = "passed" THEN 1 ELSE 0]
Issues(rs) == [i \in DOMAIN rs |-> rs[i].memory]

\* summarizeRuns: a number summed over the tasks of a suite
Total(values) == FoldFunction(LAMBDA v, sum : v + sum, 0, values)

\* findRegressions: tasks the baseline passed and the candidate did not
Regressions(base, cand) ==
  {i \in DOMAIN base : base[i].status = "passed" /\ cand[i].status # "passed"}

\* recommend as a bug would have it: regressions come last
RecommendByScore(deltaScore, deltaPass, regressions, memoryDelta) ==
  CASE memoryDelta > 1 -> "reject"
    [] memoryDelta <= 1 /\ (deltaScore > 0 \/ deltaPass > 0) -> "accept"
    [] OTHER -> "needs-review"

Recommend(deltaScore, deltaPass, regressions, memoryDelta) ==
  CASE memoryDelta > 1 -> "reject"
    [] memoryDelta = 1 -> "needs-review"
    [] memoryDelta < 1 /\ regressions # {} ->
         IF deltaScore < 0 \/ deltaPass < 0 THEN "reject" ELSE "needs-review"
    [] memoryDelta < 1 /\ regressions = {} ->
         IF deltaScore > 0 \/ deltaPass > 0 THEN "accept" ELSE "needs-review"

\* verifyEvolutionComparison: what blocks, task by task
Blocking(base, cand) ==
  \E i \in DOMAIN cand :
    \/ base[i].status = "passed" /\ cand[i].status # "passed"
    \/ cand[i].status \in {"errored", "timeout"}
    \/ cand[i].marred
    \/ cand[i].memory > base[i].memory

Comparison(agent, base, cand) ==
  LET score  == Total(Scores(cand)) - Total(Scores(base))
      pass   == Total(Passed(cand)) - Total(Passed(base))
      memory == Total(Issues(cand)) - Total(Issues(base))
  IN  [agent |-> agent, delta |-> score,
       rec |-> Recommend(score, pass, Regressions(base, cand), memory),
       blocking |-> Blocking(base, cand)]

Rank(rec) == CASE rec = "accept" -> 0 [] rec = "needs-review" -> 1 [] OTHER -> 2

\* compareEvolutionResults as a bug would have it: the lowest score first
WorstFirst(c, d) == Rank(c.rec) < Rank(d.rec) \/ (Rank(c.rec) = Rank(d.rec) /\ c.delta < d.delta)

\* compareEvolutionResults: `c` belongs before `d`
Before(c, d) == Rank(c.rec) < Rank(d.rec) \/ (Rank(c.rec) = Rank(d.rec) /\ c.delta > d.delta)

\* the first after a stable sort
Best(cs) ==
  CHOOSE i \in DOMAIN cs : /\ \A j \in DOMAIN cs : ~Before(cs[j], cs[i])
                           /\ \A j \in 1..(i - 1) : Before(cs[i], cs[j])

(***************************************************************************)
(* Actions.                                                                *)
(***************************************************************************)

\* the two files of "compare" have subagents of their own each; else one bundle has
StartEvolve(m, keep, helped, agent) ==
  /\ evoStage = "blank"
  /\ evoMode' = m
  /\ historyKept' = keep
  /\ helped \subseteq Sides /\ (m # "compare" => helped \in {{}, Sides})
  /\ delegating' = helped
  /\ baseAgent' = agent
  /\ evoStage' = "generating"
  /\ UNCHANGED <<iteration, candidates, open, runs, comparisons, made, history, adopted, evoExit>>

\* the candidates of this generation; "compare" has the one of its file, and a
\* generator that gives none ends the process
Generate(agents) ==
  /\ evoStage = "generating"
  /\ iteration' = iteration + 1
  /\ evoMode = "compare" => Len(agents) = 1
  /\ \A i \in DOMAIN agents : evoMode = "compare" \/ agents[i] \in Mutations(baseAgent)
  /\ Cardinality({i \in DOMAIN agents : agents[i] # baseAgent}) <= MaxRetooled
  /\ candidates' = agents
  /\ comparisons' = << >> /\ adopted' = 0
  /\ IF agents = << >> THEN evoStage' = "done" /\ evoExit' = 0
     ELSE evoStage' = "opening" /\ UNCHANGED evoExit
  /\ UNCHANGED <<evoMode, historyKept, delegating, baseAgent, open, runs, made, history>>

\* the generator file, an agent's definition or a mutation is refused
GenerateThrows ==
  /\ evoStage = "generating"
  /\ evoStage' = "thrown" /\ evoExit' = 1
  /\ UNCHANGED <<evoMode, historyKept, delegating, iteration, baseAgent, candidates, open, runs,
                 comparisons, made, history, adopted>>

\* compare: both runners are made before either runs
OpenRunner ==
  /\ evoStage = "opening"
  /\ open' = open \union {IF "baseline" \in open THEN "candidate" ELSE "baseline"}
  /\ evoStage' = IF open' = Sides THEN "running" ELSE "opening"
  /\ UNCHANGED <<evoMode, historyKept, delegating, iteration, baseAgent, candidates, runs,
                 comparisons, made, history, adopted, evoExit>>

\* a required MCP server of the command does not come up
OpenThrows ==
  /\ evoStage = "opening"
  /\ evoStage' = "thrown" /\ evoExit' = 1
  /\ UNCHANGED <<evoMode, historyKept, delegating, iteration, baseAgent, candidates, open, runs,
                 comparisons, made, history, adopted>>

Side == IF Len(runs["baseline"]) < SuiteTasks \/ "baseline" \in open THEN "baseline" ELSE "candidate"

\* runSession: the run's agent object gets "subagent" among its allowed tools
Ran(agent) ==
  IF Side \in delegating THEN [agent EXCEPT !.allowed = @ \union {"subagent"}] ELSE agent

\* runSuite runs the tasks in order; whatever a run throws becomes a run
RunTask(r) ==
  /\ evoStage = "running"
  /\ Len(runs[Side]) < SuiteTasks
  /\ r \in IF Side = "baseline" THEN BaselineRuns ELSE CandidateRuns
  /\ runs' = [runs EXCEPT ![Side] = Append(@, r)]
  /\ IF Side = "baseline" THEN baseAgent' = Ran(baseAgent) /\ UNCHANGED candidates
     ELSE candidates' = [candidates EXCEPT ![1] = Ran(@)] /\ UNCHANGED baseAgent
  /\ UNCHANGED <<evoStage, evoMode, historyKept, delegating, iteration, open,
                 comparisons, made, history, adopted, evoExit>>

\* the end of runSuite closes its runtime
CloseSuite ==
  /\ evoStage = "running"
  /\ Len(runs[Side]) = SuiteTasks
  /\ open' = open \ {Side}
  /\ evoStage' = IF Side = "candidate" THEN "comparing" ELSE "running"
  /\ UNCHANGED <<evoMode, historyKept, delegating, iteration, baseAgent, candidates, runs,
                 comparisons, made, history, adopted, evoExit>>

\* a client of the runtime refuses to close: the suite's result is lost
CloseThrows ==
  /\ evoStage = "running"
  /\ Len(runs[Side]) = SuiteTasks
  /\ open' = open \ {Side}
  /\ evoStage' = "thrown" /\ evoExit' = 1
  /\ UNCHANGED <<evoMode, historyKept, delegating, iteration, baseAgent, candidates, runs,
                 comparisons, made, history, adopted>>

Compare ==
  LET c == Comparison(candidates[1], runs["baseline"], runs["candidate"])
  IN  /\ evoStage = "comparing"
      /\ comparisons' = Append(comparisons, c)
      /\ made' = made + 1
      /\ runs' = NoRuns
      /\ evoStage' = IF historyKept THEN "saving" ELSE "deciding"
      /\ UNCHANGED <<evoMode, historyKept, delegating, iteration, baseAgent, candidates, open,
                     history, adopted, evoExit>>

\* saveComparison appends one line
SaveComparison ==
  /\ evoStage = "saving"
  /\ history' = history + 1
  /\ evoStage' = "deciding"
  /\ UNCHANGED <<evoMode, historyKept, delegating, iteration, baseAgent, candidates, open, runs,
                 comparisons, made, adopted, evoExit>>

SaveThrows ==
  /\ evoStage = "saving"
  /\ evoStage' = "thrown" /\ evoExit' = 1
  /\ UNCHANGED <<evoMode, historyKept, delegating, iteration, baseAgent, candidates, open, runs,
                 comparisons, made, history, adopted>>

\* the loop over the candidates, off by one
LeavesOneOver ==
  /\ evoStage = "deciding"
  /\ Len(candidates) > 2
  /\ candidates' = Tail(candidates)
  /\ evoStage' = "opening"
  /\ UNCHANGED <<evoMode, historyKept, delegating, iteration, baseAgent, open, runs, comparisons,
                 made, history, adopted, evoExit>>

NextCandidate ==
  /\ evoStage = "deciding"
  /\ Len(candidates) > 1
  /\ candidates' = Tail(candidates)
  /\ evoStage' = "opening"
  /\ UNCHANGED <<evoMode, historyKept, delegating, iteration, baseAgent, open, runs, comparisons,
                 made, history, adopted, evoExit>>

\* the end of "compare" and "generate"
Report ==
  /\ evoStage = "deciding"
  /\ Len(candidates) = 1
  /\ evoMode # "auto"
  /\ evoExit' = IF \E i \in DOMAIN comparisons :
                     \/ comparisons[i].rec = "reject"
                     \/ evoMode = "compare" /\ comparisons[i].blocking
                THEN 1 ELSE 0
  /\ evoStage' = "done"
  /\ UNCHANGED <<evoMode, historyKept, delegating, iteration, baseAgent, candidates, open, runs,
                 comparisons, made, history, adopted>>

\* the end of an iteration of "auto": the best candidate is the next baseline
\* unless even it is rejected
Adopt ==
  LET best == Best(comparisons)
      rejected == comparisons[best].rec = "reject"
  IN  /\ evoStage = "deciding"
      /\ Len(candidates) = 1
      /\ evoMode = "auto"
      /\ IF rejected THEN UNCHANGED <<baseAgent, adopted>>
         ELSE baseAgent' = comparisons[best].agent /\ adopted' = best
      /\ IF rejected \/ iteration = MaxIterations
         THEN evoStage' = "done" /\ evoExit' = 0
         ELSE evoStage' = "generating" /\ UNCHANGED evoExit
      /\ UNCHANGED <<evoMode, historyKept, delegating, iteration, candidates, open, runs, comparisons,
                     made, history>>

EvoStep ==
  \/ /\ evoStage = "generating"
     /\ \E n \in 0..MaxCandidates : \E agents \in [1..n -> Agents] : Generate(agents)
  \/ GenerateThrows
  \/ OpenRunner
  \/ OpenThrows
  \/ \E r \in Runs : RunTask(r)
  \/ CloseSuite
  \/ CloseThrows
  \/ Compare
  \/ SaveComparison
  \/ SaveThrows
  \/ NextCandidate
  \/ Report
  \/ Adopt

\* bound: "auto" is run with a history file only
EvoNext ==
  \/ \E m \in {"compare", "generate", "auto"}, keep \in BOOLEAN,
        helped \in SUBSET Sides, agent \in Agents :
       /\ agent.allowed = {} /\ agent.denied = {} /\ (m = "auto" => keep)
       /\ StartEvolve(m, keep, helped, agent)
  \/ EvoStep

EvoSpec == EvoInit /\ [][EvoNext]_evoVars

\* a process that was started goes on: every step is the next one of its own loop
EvoFairness == WF_evoVars(EvoStep)

(***************************************************************************)
(* Properties.                                                             *)
(***************************************************************************)

EvoTypeOK ==
  /\ evoStage \in {"blank", "generating", "opening", "running", "comparing", "saving",
                   "deciding", "done", "thrown"}
  /\ delegating \subseteq Sides
  /\ iteration \in 0..MaxIterations
  /\ baseAgent \in Agents
  /\ Len(candidates) <= MaxCandidates
  /\ open \subseteq Sides
  /\ \A s \in Sides : runs[s] \in Seq(Runs) /\ Len(runs[s]) <= SuiteTasks
  /\ Len(comparisons) <= MaxCandidates
  /\ evoExit \in {0, 1, 9}

\* "auto" goes on with the best it has: the adopted candidate was not rejected,
\* and none it was chosen from has a better recommendation, or the same one and a
\* higher score (commands.ts:372, :397).
BestAdopted ==
  adopted # 0 =>
    LET best == comparisons[adopted]
    IN  /\ best.rec # "reject" /\ baseAgent = best.agent
        /\ \A i \in DOMAIN comparisons :
             \/ Rank(comparisons[i].rec) > Rank(best.rec)
             \/ comparisons[i].rec = best.rec /\ comparisons[i].delta <= best.delta

\* A candidate is recommended only when some task went better, by its score or by
\* passing now, no task the baseline passed fails, and its memory is no worse on the
\* whole suite (engine.ts:100).  Neither number has to rise: a graded run that fails
\* may score more than one that passes.
AcceptedIsBetter ==
  [][Len(comparisons') > Len(comparisons) /\ comparisons'[Len(comparisons')].rec = "accept" =>
       LET base == runs["baseline"]
           cand == runs["candidate"]
       IN  /\ \E i \in DOMAIN base :
                \/ cand[i].score > base[i].score
                \/ cand[i].status = "passed" /\ base[i].status # "passed"
           /\ \A i \in DOMAIN base : base[i].status = "passed" => cand[i].status = "passed"
           /\ Total(Issues(cand)) <= Total(Issues(base))]_evoVars

ApartBut(agent, tools) == agent.allowed \cap agent.denied \subseteq tools
RunAllows == IF delegating # {} THEN {"subagent"} ELSE {}

\* A lineage leaves no tool both allowed and denied, however many generations it
\* has, but the one that a run allows the agent it runs: a candidate that was to
\* lose "subagent" can end with both, where policy denies it
\* (deterministic-generator.ts:60-82, agent-runtime.ts:56).
ToolListsApart ==
  evoMode # "compare" =>
    /\ ApartBut(baseAgent, RunAllows)
    /\ \A i \in DOMAIN candidates : ApartBut(candidates[i], RunAllows)

\* An evolution that ends normally has no runtime left open, however many suites
\* it ran; nothing else keeps the process from exiting (runner.ts:78).
SuitesClosed ==
  evoStage \in {"generating", "deciding", "done"} => open = {}

\* The history file has every comparison the process made, each once, up
\* to the one whose line could not be written (commands.ts:272, :320, :364).
HistoryComplete ==
  historyKept /\ evoStage \notin {"saving"} =>
    history = made \/ (evoStage = "thrown" /\ history = made - 1)

\* The verifier is no milder than the recommendation it stands beside: what it
\* does not block, task by task, was not rejected over the sums of the suite
\* (verifier.ts:61, engine.ts:100), so a comparison that reports nothing blocking
\* never ends the process in failure.
RejectedIsBlocked ==
  \A i \in DOMAIN comparisons : comparisons[i].rec = "reject" => comparisons[i].blocking

\* An evolution (src/evolution, src/cli/commands.ts) adopts the best it found, and
\* leaves a complete record and nothing open.
EvolutionSound ==
  /\ EvoTypeOK /\ BestAdopted /\ ToolListsApart
  /\ SuitesClosed /\ HistoryComplete /\ RejectedIsBlocked

=============================================================================
