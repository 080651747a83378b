---------------------------- MODULE CommandsProofs ----------------------------
(***************************************************************************)
(* Proofs about the command line and the two commands of Commands that     *)
(* keep a state of their own: that a line is refused with a reason or does *)
(* what it says; that `evoa evolve' recommends only what is better, adopts *)
(* the best it found that it does not reject, and leaves a complete        *)
(* record; and that `evoa chat' keeps its conversation, its file and its   *)
(* memory together through interruptions and kills.  What a comparison     *)
(* adds up it adds up by a fold, so the lemmas on totals come first: a     *)
(* fold over the tasks of a suite is a sum, and sums are monotone.  A line *)
(* is about positions: those left when some are taken out keep their       *)
(* order, so what was read of the rest was read of the line.               *)
(***************************************************************************)
EXTENDS Commands, TLAPS, WellFoundedInduction, FiniteSetTheorems, SequenceTheorems

(* Totals.                                                                   *)

\* A nonempty set of numbers has a least one.
LEMMA LeastExists ==
  ASSUME NEW S \in SUBSET Nat, S # {}
  PROVE  \E x \in S : \A y \in S : x <= y
<1> DEFINE R == OpToRel(<, Nat)
<1>1. \E x \in S : \A y \in S : ~ (<<y, x>> \in R)
  BY NatLessThanWellFounded, WFMin, Zenon
<1>2. \A x, y \in Nat : y < x => <<y, x>> \in R
  BY DEF OpToRel
<1>3. \E x \in S : \A y \in S : ~ (y < x)
  <2> HIDE DEF R
  <2> QED
    BY <1>1, <1>2, Zenon
<1>4. QED
  BY <1>3

\* the index a fold takes next
Pick(s) == CHOOSE x \in s : TRUE

\* What FoldFunction goes through: sums over the sets of indices.
Sums(values, sum) ==
  sum = [s \in SUBSET DOMAIN values |->
           IF s = {} THEN 0 ELSE values[Pick(s)] + sum[s \ {Pick(s)}]]

\* Taking it away leaves one index less.
LEMMA Removed ==
  ASSUME NEW s, IsFiniteSet(s), s # {}
  PROVE  /\ Pick(s) \in s
         /\ Cardinality(s) \in Nat \ {0}
         /\ Cardinality(s \ {Pick(s)}) = Cardinality(s) - 1
<1>1. Pick(s) \in s
  BY DEF Pick
<1>2. QED
  BY <1>1, FS_RemoveElement, FS_CardinalityType, FS_EmptySet

\* sums over the sets of up to n indices
SumsUpTo(values, n, g) ==
  \A s \in SUBSET DOMAIN values : Cardinality(s) <= n =>
     g[s] = IF s = {} THEN 0 ELSE values[Pick(s)] + g[s \ {Pick(s)}]

\* There are such sums, for the sets of more and more indices.
LEMMA SumsExist ==
  ASSUME NEW values, IsFiniteSet(DOMAIN values)
  PROVE  \E sum : Sums(values, sum)
<1> DEFINE D == DOMAIN values
           Fails == {n \in Nat : ~ \E g : SumsUpTo(values, n, g)}
           Val(g, s) == IF s = {} THEN 0 ELSE values[Pick(s)] + g[s \ {Pick(s)}]
<1>0. \A s \in SUBSET D : IsFiniteSet(s) /\ Cardinality(s) \in Nat
  BY FS_Subset, FS_CardinalityType
<1>1. Fails = {}
  <2>1. SUFFICES ASSUME Fails # {} PROVE FALSE
    OBVIOUS
  <2>2. PICK n \in Fails : \A m \in Fails : n <= m
    BY <2>1, LeastExists
  <2>3. n # 0
    <3>1. SUFFICES SumsUpTo(values, 0, [s \in SUBSET D |-> 0])
      BY <2>2
    <3>2. ASSUME NEW s \in SUBSET D, Cardinality(s) <= 0  PROVE s = {}
      <4>1. IsFiniteSet(s) /\ Cardinality(s) = 0
        BY <3>2, <1>0
      <4>2. QED
        BY <4>1, FS_EmptySet
    <3>3. QED
      BY <3>2 DEF SumsUpTo
  <2>4. n - 1 \in Nat /\ n - 1 \notin Fails
    BY <2>2, <2>3
  <2>5. PICK g : SumsUpTo(values, n - 1, g)
    BY <2>4
  <2> DEFINE h == [s \in SUBSET D |-> IF Cardinality(s) <= n - 1 THEN g[s] ELSE Val(g, s)]
  <2>6. ASSUME NEW s \in SUBSET D, Cardinality(s) <= n
        PROVE  h[s] = Val(h, s)
    <3>1. CASE s = {}
      BY <3>1, <2>4, <2>5, <1>0, FS_EmptySet DEF SumsUpTo
    <3>2. CASE s # {}
      <4> DEFINE t == s \ {Pick(s)}
      <4>1. t \in SUBSET D /\ Cardinality(t) = Cardinality(s) - 1 /\ Cardinality(s) \in Nat
        BY <3>2, <1>0, Removed
      <4>2. Cardinality(t) <= n - 1
        BY <4>1, <2>6, <2>2
      <4>3. h[t] = g[t]
        BY <4>1, <4>2
      <4>4. CASE Cardinality(s) <= n - 1
        <5>1. h[s] = g[s]
          BY <4>4
        <5>2. g[s] = Val(g, s)
          BY <2>5, <4>4 DEF SumsUpTo
        <5> QED
          BY <5>1, <5>2, <4>3, <3>2
      <4>5. CASE ~ (Cardinality(s) <= n - 1)
        <5>1. h[s] = Val(g, s)
          BY <4>5
        <5> QED
          BY <5>1, <4>3, <3>2
      <4>6. QED
        BY <4>4, <4>5
    <3>3. QED
      BY <3>1, <3>2
  <2>7. SumsUpTo(values, n, h)
    <3> HIDE DEF h
    <3> QED
      BY <2>6 DEF SumsUpTo
  <2>8. QED
    BY <2>7, <2>2
<1>2. PICK g : SumsUpTo(values, Cardinality(D), g)
  <2>1. Cardinality(D) \notin Fails /\ Cardinality(D) \in Nat
    BY <1>1, FS_CardinalityType
  <2>2. QED
    BY <2>1
<1> DEFINE sum == [s \in SUBSET D |-> g[s]]
<1>3. \A s \in SUBSET D : Cardinality(s) <= Cardinality(D)
  BY FS_Subset
<1>4. ASSUME NEW s \in SUBSET D PROVE sum[s] = Val(sum, s)
  <2>1. g[s] = Val(g, s)
    BY <1>2, <1>3 DEF SumsUpTo
  <2>2. CASE s = {}
    BY <2>1, <2>2
  <2>3. CASE s # {}
    <3>1. s \ {Pick(s)} \in SUBSET D
      OBVIOUS
    <3>2. QED
      BY <2>1, <2>3, <3>1
  <2>4. QED
    BY <2>2, <2>3
<1>5. sum = [s \in SUBSET D |-> Val(sum, s)]
  <2> DEFINE other == [s \in SUBSET D |-> Val(sum, s)]
  <2>1. \A s \in SUBSET D : sum[s] = other[s]
    BY <1>4
  <2>2. DOMAIN sum = SUBSET D /\ DOMAIN other = SUBSET D
    OBVIOUS
  <2>3. sum = [s \in SUBSET D |-> sum[s]]  
    OBVIOUS
  <2>4. QED
    BY <1>4, <2>3, Zenon
<1>6. QED
  BY <1>5 DEF Sums

\* Total is one of them.
LEMMA TotalIsASum ==
  ASSUME NEW values, IsFiniteSet(DOMAIN values)
  PROVE  \E sum : Sums(values, sum) /\ Total(values) = sum[DOMAIN values]
<1> DEFINE sum == CHOOSE it : Sums(values, it)
<1>1. Sums(values, sum)
  BY SumsExist
<1>2. Total(values) = sum[DOMAIN values]
  BY Zenon DEF Total, FoldFunction, FoldFunctionOnSet, MapThenFoldSet, Sums, Pick
<1>3. QED
  BY <1>1, <1>2

\* Sums of integers are integers.
LEMMA SumInt ==
  ASSUME NEW values, IsFiniteSet(DOMAIN values), \A i \in DOMAIN values : values[i] \in Int,
         NEW sum, Sums(values, sum)
  PROVE  \A s \in SUBSET DOMAIN values : sum[s] \in Int
<1> DEFINE D == DOMAIN values
           Fails == {n \in Nat : \E s \in SUBSET D : Cardinality(s) = n /\ sum[s] \notin Int}
<1>0. \A s \in SUBSET D : IsFiniteSet(s) /\ Cardinality(s) \in Nat
  BY FS_Subset, FS_CardinalityType
<1>1. Fails = {}
  <2>1. SUFFICES ASSUME Fails # {} PROVE FALSE
    OBVIOUS
  <2>2. PICK n \in Fails : \A m \in Fails : n <= m
    BY <2>1, LeastExists
  <2>3. PICK s \in SUBSET D : Cardinality(s) = n /\ sum[s] \notin Int
    BY <2>2
  <2>4. s # {}
    BY <2>3 DEF Sums
  <2> DEFINE t == s \ {Pick(s)}
  <2>5. Pick(s) \in D /\ t \in SUBSET D /\ Cardinality(t) = n - 1 /\ n - 1 \in Nat
    BY <2>3, <2>4, <1>0, Removed
  <2>6. sum[t] \in Int
    BY <2>2, <2>5
  <2>7. sum[s] = values[Pick(s)] + sum[t]
    BY <2>4 DEF Sums
  <2>8. QED
    BY <2>3, <2>5, <2>6, <2>7
<1>2. QED
  BY <1>0, <1>1

\* So are totals.
LEMMA TotalInt ==
  ASSUME NEW values, IsFiniteSet(DOMAIN values), \A i \in DOMAIN values : values[i] \in Int
  PROVE  Total(values) \in Int
BY TotalIsASum, SumInt

\* No total of smaller numbers is greater.
LEMMA TotalMonotone ==
  ASSUME NEW a, NEW b, IsFiniteSet(DOMAIN a), DOMAIN b = DOMAIN a,
         \A i \in DOMAIN a : a[i] \in Int /\ b[i] \in Int /\ a[i] <= b[i]
  PROVE  Total(a) <= Total(b)
<1> DEFINE D == DOMAIN a
<1>1. PICK sa : Sums(a, sa) /\ Total(a) = sa[D]
  BY TotalIsASum
<1>2. PICK sb : Sums(b, sb) /\ Total(b) = sb[D]
  BY TotalIsASum
<1>3. \A s \in SUBSET D : sa[s] \in Int /\ sb[s] \in Int
  BY <1>1, <1>2, SumInt
<1> DEFINE Fails == {n \in Nat : \E s \in SUBSET D : Cardinality(s) = n /\ ~ (sa[s] <= sb[s])}
<1>0. \A s \in SUBSET D : IsFiniteSet(s) /\ Cardinality(s) \in Nat
  BY FS_Subset, FS_CardinalityType
<1>4. Fails = {}
  <2>1. SUFFICES ASSUME Fails # {} PROVE FALSE
    OBVIOUS
  <2>2. PICK n \in Fails : \A m \in Fails : n <= m
    BY <2>1, LeastExists
  <2>3. PICK s \in SUBSET D : Cardinality(s) = n /\ ~ (sa[s] <= sb[s])
    BY <2>2
  <2>4. s # {}
    BY <2>3, <1>1, <1>2 DEF Sums
  <2> DEFINE t == s \ {Pick(s)}
  <2>5. Pick(s) \in D /\ t \in SUBSET D /\ Cardinality(t) = n - 1 /\ n - 1 \in Nat
    BY <2>3, <2>4, <1>0, Removed
  <2>6. sa[t] <= sb[t]
    BY <2>2, <2>5
  <2>7. sa[s] = a[Pick(s)] + sa[t] /\ sb[s] = b[Pick(s)] + sb[t]
    BY <2>4, <1>1, <1>2 DEF Sums
  <2>8. sa[t] \in Int /\ sb[t] \in Int
    BY <2>5, <1>3
  <2>9. QED
    BY <2>3, <2>5, <2>6, <2>7, <2>8
<1>5. QED
  BY <1>0, <1>1, <1>2, <1>4
-------------------------------------------------------------------------------
(* Evolutions.                                                               *)

Recommendations == {"accept", "needs-review", "reject"}
Comparable ==
  [agent : Agents, delta : Int, rec : Recommendations, blocking : BOOLEAN]

\* A run has a score and a number of issues, however it ended.
LEMMA RunFields ==
  ASSUME NEW r \in Runs
  PROVE  r.score \in Nat /\ r.memory \in Nat
<1>1. CASE r \in GradedRuns
  BY <1>1 DEF GradedRuns
<1>2. CASE r \in ThrownRuns
  BY <1>2 DEF ThrownRuns, Run
<1>3. QED
  BY <1>1, <1>2, EvolutionAssumption

\* The runs of a side have integer scores and issues, whose totals are integers.
LEMMA RunTotals ==
  ASSUME NEW rs \in Seq(Runs)
  PROVE  /\ Total(Scores(rs)) \in Int /\ Total(Passed(rs)) \in Int
         /\ Total(Issues(rs)) \in Int
<1>1. DOMAIN rs = 1 .. Len(rs) /\ IsFiniteSet(DOMAIN rs)
  BY FS_Interval
<1>2. \A i \in DOMAIN rs : rs[i] \in Runs
  OBVIOUS
<1>3. \A i \in DOMAIN rs : rs[i].score \in Int /\ rs[i].memory \in Int
  BY <1>2, RunFields
<1>4. /\ DOMAIN Scores(rs) = DOMAIN rs /\ \A i \in DOMAIN rs : Scores(rs)[i] \in Int
      /\ DOMAIN Passed(rs) = DOMAIN rs /\ \A i \in DOMAIN rs : Passed(rs)[i] \in Int
      /\ DOMAIN Issues(rs) = DOMAIN rs /\ \A i \in DOMAIN rs : Issues(rs)[i] \in Int
  BY <1>3 DEF Scores, Passed, Issues
<1>5. QED
  BY <1>1, <1>4, TotalInt

\* A comparison has a recommendation, whatever the totals.
LEMMA ComparisonTyped ==
  ASSUME NEW agent \in Agents, NEW base \in Seq(Runs), NEW cand \in Seq(Runs)
  PROVE  Comparison(agent, base, cand) \in Comparable
<1> DEFINE score  == Total(Scores(cand)) - Total(Scores(base))
           pass   == Total(Passed(cand)) - Total(Passed(base))
           memory == Total(Issues(cand)) - Total(Issues(base))
<1>1. score \in Int /\ pass \in Int /\ memory \in Int
  BY RunTotals
<1> HIDE DEF score, pass, memory
<1>2. Recommend(score, pass, Regressions(base, cand), memory) \in Recommendations
  BY <1>1 DEF Recommend, Recommendations
<1>3. Blocking(base, cand) \in BOOLEAN
  BY DEF Blocking
<1>4. QED
  BY <1>1, <1>2, <1>3 DEF Comparison, Comparable, score, pass, memory

\* Two suites have the same tasks, each with a run.
LEMMA SuitesAlike ==
  ASSUME NEW rs \in Seq(Runs), Len(rs) = SuiteTasks
  PROVE  /\ DOMAIN rs = 1 .. SuiteTasks /\ IsFiniteSet(1 .. SuiteTasks)
         /\ \A i \in 1 .. SuiteTasks : rs[i].score \in Nat /\ rs[i].memory \in Nat
<1>1. SuiteTasks \in Int /\ 1 \in Int
  BY EvolutionAssumption
<1>2. IsFiniteSet(1 .. SuiteTasks)
  BY <1>1, FS_Interval
<1>3. DOMAIN rs = 1 .. SuiteTasks /\ \A i \in 1 .. SuiteTasks : rs[i] \in Runs
  OBVIOUS
<1>4. QED
  BY <1>2, <1>3, RunFields

\* More issues on the whole suite are more issues on some task, so what is rejected
\* over the sums is blocked at a task.
LEMMA RejectsTheBlocked ==
  ASSUME NEW agent, NEW base \in Seq(Runs), NEW cand \in Seq(Runs),
         Len(base) = SuiteTasks, Len(cand) = SuiteTasks,
         Comparison(agent, base, cand).rec = "reject"
  PROVE  Comparison(agent, base, cand).blocking
<1> DEFINE score  == Total(Scores(cand)) - Total(Scores(base))
           pass   == Total(Passed(cand)) - Total(Passed(base))
           memory == Total(Issues(cand)) - Total(Issues(base))
<1>1. Total(Issues(cand)) \in Int /\ Total(Issues(base)) \in Int
      /\ score \in Int /\ pass \in Int /\ memory \in Int
  BY RunTotals
<1>2. Recommend(score, pass, Regressions(base, cand), memory) = "reject"
  BY DEF Comparison
<1>3. memory > 1 \/ Regressions(base, cand) # {}
  <2> HIDE DEF score, pass, memory
  <2> QED
    BY <1>1, <1>2 DEF Recommend
<1>4. /\ DOMAIN base = 1 .. SuiteTasks /\ DOMAIN cand = 1 .. SuiteTasks /\ IsFiniteSet(1 .. SuiteTasks)
      /\ \A i \in 1 .. SuiteTasks : base[i].memory \in Nat /\ cand[i].memory \in Nat
  BY SuitesAlike
<1>5. Blocking(base, cand)
  <2>1. CASE memory > 1
    <3>1. SUFFICES ASSUME \A i \in 1 .. SuiteTasks : ~ (cand[i].memory > base[i].memory)
                   PROVE  FALSE
      BY <1>4 DEF Blocking
    <3>2. /\ DOMAIN Issues(cand) = 1 .. SuiteTasks /\ DOMAIN Issues(base) = 1 .. SuiteTasks
          /\ \A i \in 1 .. SuiteTasks :
               /\ Issues(cand)[i] \in Int /\ Issues(base)[i] \in Int
               /\ Issues(cand)[i] <= Issues(base)[i]
      BY <1>4, <3>1 DEF Issues
    <3>3. Total(Issues(cand)) <= Total(Issues(base))
      BY <1>4, <3>2, TotalMonotone
    <3>4. QED
      BY <1>1, <2>1, <3>3
  <2>2. CASE Regressions(base, cand) # {}
    BY <1>4, <2>2 DEF Regressions, Blocking
  <2>3. QED
    BY <1>3, <2>1, <2>2
<1>6. QED
  BY <1>5 DEF Comparison

\* The order of the results is a strict weak one.
LEMMA BeforeOrders ==
  ASSUME NEW a \in Comparable, NEW b \in Comparable, NEW c \in Comparable
  PROVE  /\ ~ Before(a, a)
         /\ Before(a, b) /\ ~ Before(c, b) => Before(a, c)
         /\ Before(a, b) => ~ Before(b, a)
BY DEF Comparable, Recommendations, Before, Rank

\* the i-th of the first n comparisons comes first when they are sorted
Leads(cs, n, i) ==
  /\ i \in 1 .. n
  /\ \A j \in 1 .. n : ~ Before(cs[j], cs[i])
  /\ \A j \in 1 .. (i - 1) : Before(cs[i], cs[j])

\* A stable sort of any comparisons has a first one.
LEMMA BestExists ==
  ASSUME NEW cs \in Seq(Comparable), cs # << >>
  PROVE  Best(cs) \in DOMAIN cs /\ \A j \in DOMAIN cs : ~ Before(cs[j], cs[Best(cs)])
<1> DEFINE Fails == {n \in 1 .. Len(cs) : ~ \E i \in 1 .. n : Leads(cs, n, i)}
<1>1. Fails = {}
  <2>1. SUFFICES ASSUME Fails # {} PROVE FALSE
    OBVIOUS
  <2>2. Fails \in SUBSET Nat
    OBVIOUS
  <2>3. PICK n \in Fails : \A m \in Fails : n <= m
    BY <2>1, <2>2, LeastExists
  <2>4. n \in 1 .. Len(cs) /\ cs[n] \in Comparable
    OBVIOUS
  <2>5. CASE n = 1
    <3>1. ~ Before(cs[1], cs[1])
      BY <2>4, <2>5, BeforeOrders
    <3>2. Leads(cs, 1, 1)
      BY <3>1 DEF Leads
    <3>3. QED
      BY <3>2, <2>5
  <2>6. CASE n # 1
    <3>1. n - 1 \in 1 .. Len(cs) /\ n - 1 \notin Fails
      BY <2>3, <2>4, <2>6
    <3>2. PICK i \in 1 .. (n - 1) : Leads(cs, n - 1, i)
      BY <3>1
    <3>3. /\ i \in 1 .. Len(cs) /\ cs[i] \in Comparable
          /\ \A j \in 1 .. n : cs[j] \in Comparable
      BY <2>4, <3>2
    <3>4. CASE Before(cs[n], cs[i])
      <4>1. \A j \in 1 .. (n - 1) : Before(cs[n], cs[j])
        BY <3>2, <3>3, <3>4, <2>4, BeforeOrders DEF Leads
      <4>2. \A j \in 1 .. n : ~ Before(cs[j], cs[n])
        BY <4>1, <3>3, <2>4, BeforeOrders
      <4>3. Leads(cs, n, n)
        BY <4>1, <4>2, <2>4 DEF Leads
      <4>4. QED
        BY <4>3, <2>4
    <3>5. CASE ~ Before(cs[n], cs[i])
      <4>1. Leads(cs, n, i)
        BY <3>2, <3>5, <2>4 DEF Leads
      <4>2. QED
        BY <4>1, <3>2, <2>4
    <3>6. QED
      BY <3>4, <3>5
  <2>7. QED
    BY <2>5, <2>6
<1>2. Len(cs) \in 1 .. Len(cs) /\ DOMAIN cs = 1 .. Len(cs)
  OBVIOUS
<1>3. PICK i \in DOMAIN cs : Leads(cs, Len(cs), i)
  BY <1>1, <1>2
<1>4. /\ \A j \in DOMAIN cs : ~ Before(cs[j], cs[i])
      /\ \A j \in 1 .. (i - 1) : Before(cs[i], cs[j])
  BY <1>2, <1>3 DEF Leads
<1>5. QED
  BY <1>4, Zenon DEF Best

\* The stages of a comparison, and those before it is made.
Compares == {"opening", "running", "comparing", "saving", "deciding"}
Ahead == {"opening", "running", "comparing"}

EvoTyped ==
  /\ EvoTypeOK
  /\ evoMode \in {"compare", "generate", "auto"} /\ historyKept \in BOOLEAN
  /\ candidates \in Seq(Agents) /\ runs \in [Sides -> Seq(Runs)]
  /\ comparisons \in Seq(Comparable)
  /\ made \in Nat /\ history \in Int /\ adopted \in 0 .. Len(comparisons)

\* Where the loop over the candidates is: what is compared and what is left is
\* one generation, and "compare" has one candidate.
Progress ==
  /\ evoStage \in {"blank", "generating"} => iteration < MaxIterations
  /\ evoStage \in Compares => candidates # << >> /\ adopted = 0
  /\ evoStage \in Ahead =>
       /\ Len(comparisons) + Len(candidates) <= MaxCandidates
       /\ evoMode = "compare" => Len(candidates) = 1 /\ Len(comparisons) = 0
  /\ evoStage \in {"saving", "deciding"} =>
       /\ Len(comparisons) + Len(candidates) <= MaxCandidates + 1
       /\ Len(comparisons) > 0
       /\ evoMode = "compare" => Len(candidates) = 1 /\ Len(comparisons) = 1

\* What the process has recorded and left open, by its stage.
Recorded ==
  /\ evoStage = "blank" => made = 0 /\ history = 0 /\ comparisons = << >> /\ adopted = 0 /\ candidates = << >>
  /\ historyKept /\ evoStage \notin {"saving", "thrown"} => history = made
  /\ evoStage = "saving" => historyKept /\ history = made - 1
  /\ evoStage \in {"blank", "comparing", "saving"} => open = {}
  /\ evoStage = "comparing" => Len(runs["baseline"]) = SuiteTasks /\ Len(runs["candidate"]) = SuiteTasks

\* The agents of a generator's lineage keep their lists apart.
LineageApart ==
  evoMode # "compare" \/ evoStage = "blank" =>
    \A i \in DOMAIN comparisons : ApartBut(comparisons[i].agent, RunAllows)

\* The inductive invariant.
EvoInv == EvoTyped /\ Progress /\ Recorded /\ LineageApart /\ EvolutionSound

\* No mutation puts a tool in both lists.
LEMMA MutationsKeepApart ==
  ASSUME NEW both, NEW parent \in Agents, ApartBut(parent, both), NEW agent \in Mutations(parent)
  PROVE  agent \in Agents /\ ApartBut(agent, both)
BY DEF Mutations, Agents, ApartBut, AllowTools, DisallowTools, DenyTools, UndenyTools

LEMMA EvoInitHolds == EvoInit => EvoInv
<1> SUFFICES ASSUME EvoInit PROVE EvoInv
  OBVIOUS
<1> USE EvolutionAssumption
<1>1. EvoTyped
  <2>1. NoRuns \in [Sides -> Seq(Runs)] /\ \A s \in Sides : Len(NoRuns[s]) = 0
    BY DEF NoRuns
  <2>2. baseAgent \in Agents
    BY DEF EvoInit, Agents
  <2>3. /\ candidates \in Seq(Agents) /\ Len(candidates) = 0
        /\ comparisons \in Seq(Comparable) /\ Len(comparisons) = 0
    BY DEF EvoInit
  <2>4. EvoTypeOK
    BY <2>1, <2>2, <2>3 DEF EvoInit, EvoTypeOK
  <2>5. /\ historyKept = FALSE
        /\ evoMode \in {"compare", "generate", "auto"} /\ made \in Nat /\ history \in Int
    <3>1. /\ historyKept = FALSE /\ evoMode = "auto" /\ made = 0 /\ history = 0
      BY DEF EvoInit
    <3>2. QED
      BY <3>1
  <2>6. adopted \in 0 .. Len(comparisons) /\ runs \in [Sides -> Seq(Runs)]
    <3>1. adopted = 0 /\ runs = NoRuns
      BY DEF EvoInit
    <3>2. QED
      BY <2>1, <2>3, <3>1
  <2>7. QED
    BY <2>3, <2>4, <2>5, <2>6 DEF EvoTyped
<1>2. Progress /\ Recorded /\ LineageApart
  BY DEF EvoInit, Progress, Recorded, LineageApart, Compares, Ahead
<1>3. EvolutionSound
  <2>1. DOMAIN candidates = {} /\ DOMAIN comparisons = {} /\ adopted = 0
    BY DEF EvoInit
  <2>2. ToolListsApart /\ RejectedIsBlocked
    BY <2>1 DEF EvoInit, ToolListsApart, ApartBut, RejectedIsBlocked
  <2>3. BestAdopted /\ SuitesClosed /\ HistoryComplete
    BY <2>1 DEF EvoInit, BestAdopted, SuitesClosed, HistoryComplete
  <2>4. QED
    BY <1>1, <2>2, <2>3 DEF EvoTyped, EvolutionSound
<1>4. QED
  BY <1>1, <1>2, <1>3 DEF EvoInv

\* Actions that leave the comparisons and the agents alone.
Quiet ==
  \/ GenerateThrows \/ OpenRunner \/ OpenThrows \/ CloseSuite \/ CloseThrows
  \/ SaveComparison \/ SaveThrows \/ Report

LEMMA EvoStepCases ==
  ASSUME EvoNext
  PROVE  \/ \E m \in {"compare", "generate", "auto"}, keep \in BOOLEAN,
              helped \in SUBSET Sides, agent \in Agents :
              agent.allowed = {} /\ agent.denied = {} /\ StartEvolve(m, keep, helped, agent)
         \/ \E n \in 0 .. MaxCandidates : \E agents \in [1 .. n -> Agents] : Generate(agents)
         \/ Quiet \/ NextCandidate \/ Compare \/ Adopt
         \/ \E r \in Runs : RunTask(r)
BY DEF EvoNext, EvoStep, Quiet

LEMMA EvoStepTyped ==
  ASSUME EvoInv, EvoNext
  PROVE  EvoTyped'
<1> USE EvolutionAssumption
<1>0. EvoTyped /\ EvoTypeOK
  BY DEF EvoInv, EvoTyped
<1>1. CASE Quiet
  <2>1. /\ UNCHANGED <<evoMode, historyKept, delegating, iteration, baseAgent, candidates, runs, comparisons,
                       made, adopted>>
        /\ evoStage' \in {"opening", "running", "comparing", "deciding", "done", "thrown"}
    BY <1>1 DEF Quiet, GenerateThrows, OpenRunner, OpenThrows, CloseSuite, CloseThrows,
       SaveComparison, SaveThrows, Report
  <2>2. open' \subseteq open \union Sides
    BY <1>1 DEF Quiet, Sides, GenerateThrows, OpenRunner, OpenThrows, CloseSuite, CloseThrows,
       SaveComparison, SaveThrows, Report
  <2>3. history' \in {history, history + 1} /\ evoExit' \in {0, 1, evoExit}
    BY <1>1 DEF Quiet, GenerateThrows, OpenRunner, OpenThrows, CloseSuite, CloseThrows,
       SaveComparison, SaveThrows, Report
  <2>4. QED
    BY <1>0, <2>1, <2>2, <2>3 DEF EvoTyped, EvoTypeOK
<1>2. ASSUME NEW m \in {"compare", "generate", "auto"}, NEW keep \in BOOLEAN,
             NEW helped \in SUBSET Sides, NEW agent \in Agents,
             StartEvolve(m, keep, helped, agent)
      PROVE  EvoTyped'
  BY <1>0, <1>2 DEF EvoTyped, EvoTypeOK, StartEvolve
<1>3. ASSUME NEW n \in 0 .. MaxCandidates, NEW agents \in [1 .. n -> Agents], Generate(agents)
      PROVE  EvoTyped'
  <2>1. agents \in Seq(Agents) /\ Len(agents) = n /\ n <= MaxCandidates
    OBVIOUS
  <2>2. iteration' \in 0 .. MaxIterations
    BY <1>0, <1>3 DEF EvoInv, Progress, EvoTypeOK, Generate
  <2>3. QED
    BY <1>0, <1>3, <2>1, <2>2 DEF EvoTyped, EvoTypeOK, Generate
<1>4. CASE NextCandidate
  BY <1>0, <1>4 DEF EvoTyped, EvoTypeOK, NextCandidate
<1>5. CASE Compare
  <2>1. candidates # << >> /\ Len(comparisons) + Len(candidates) <= MaxCandidates
    BY <1>5 DEF EvoInv, Progress, Ahead, Compares, Compare
  <2>2. candidates[1] \in Agents /\ Len(candidates) > 0
    BY <1>0, <2>1 DEF EvoTyped
  <2>3. Comparison(candidates[1], runs["baseline"], runs["candidate"]) \in Comparable
    BY <1>0, <2>2, ComparisonTyped DEF EvoTypeOK, Sides
  <2>4. NoRuns \in [Sides -> Seq(Runs)] /\ \A s \in Sides : Len(NoRuns[s]) = 0
    BY DEF NoRuns
  <2>5. comparisons' \in Seq(Comparable) /\ Len(comparisons') = Len(comparisons) + 1
    BY <1>0, <1>5, <2>3 DEF EvoTyped, Compare
  <2>6. made' \in Nat /\ adopted' \in 0 .. Len(comparisons') /\ Len(comparisons') <= MaxCandidates
    BY <1>0, <1>5, <2>1, <2>2, <2>5 DEF EvoTyped, Compare
  <2>7. QED
    BY <1>0, <1>5, <2>4, <2>5, <2>6 DEF EvoTyped, EvoTypeOK, Compare
<1>6. CASE Adopt
  <2>1. comparisons # << >>
    BY <1>0, <1>6 DEF EvoInv, Progress, Adopt, EvoTyped
  <2>2. Best(comparisons) \in DOMAIN comparisons
    BY <1>0, <2>1, BestExists DEF EvoTyped
  <2>3. comparisons[Best(comparisons)].agent \in Agents
    <3>1. comparisons[Best(comparisons)] \in Comparable
      BY <1>0, <2>2 DEF EvoTyped
    <3>2. QED
      BY <3>1 DEF Comparable
  <2>4. Best(comparisons) \in 0 .. Len(comparisons)
    BY <1>0, <2>2 DEF EvoTyped
  <2>5. baseAgent' \in Agents /\ adopted' \in 0 .. Len(comparisons)
    BY <1>0, <1>6, <2>3, <2>4 DEF EvoTyped, EvoTypeOK, Adopt
  <2>6. QED
    BY <1>0, <1>6, <2>5 DEF EvoTyped, EvoTypeOK, Adopt
<1>7. ASSUME NEW r \in Runs, RunTask(r)
      PROVE  EvoTyped'
  <2>1. Side \in Sides
    BY DEF Side, Sides
  <2>2. /\ runs' \in [Sides -> Seq(Runs)]
        /\ \A s \in Sides : Len(runs'[s]) <= SuiteTasks
    BY <1>0, <1>7, <2>1 DEF EvoTyped, EvoTypeOK, RunTask
  <2>3. /\ baseAgent' \in Agents /\ candidates' \in Seq(Agents)
        /\ Len(candidates') = Len(candidates)
    <3>1. \A agent \in Agents : Ran(agent) \in Agents
      BY DEF Ran, Agents, Tools
    <3>2. CASE Side = "baseline"
      BY <1>0, <1>7, <3>1, <3>2 DEF EvoTyped, EvoTypeOK, RunTask
    <3>3. CASE Side # "baseline"
      <4>1. candidates' = [candidates EXCEPT ![1] = Ran(candidates[1])] /\ baseAgent' = baseAgent
        BY <1>7, <3>3 DEF RunTask
      <4>2. candidates' \in Seq(Agents) /\ Len(candidates') = Len(candidates)
        <5>1. candidates \in Seq(Agents) /\ candidates # << >>
          BY <1>0, <1>7 DEF EvoInv, EvoTyped, Progress, Compares, RunTask
        <5>2. 1 \in 1 .. Len(candidates) /\ Ran(candidates[1]) \in Agents
          BY <3>1, <5>1
        <5>3. QED
          BY <4>1, <5>1, <5>2, ExceptSeq
      <4>3. QED
        BY <1>0, <4>1, <4>2 DEF EvoTypeOK
    <3>4. QED
      BY <3>2, <3>3
  <2>4. QED
    BY <1>0, <1>7, <2>2, <2>3 DEF EvoTyped, EvoTypeOK, RunTask
<1>8. QED
  BY <1>1, <1>2, <1>3, <1>4, <1>5, <1>6, <1>7, EvoStepCases

LEMMA EvoStepProgress ==
  ASSUME EvoInv, EvoNext
  PROVE  Progress'
<1> USE EvolutionAssumption DEF Compares, Ahead
<1>0. EvoTyped /\ EvoTypeOK /\ Progress /\ Recorded
  BY DEF EvoInv, EvoTyped
<1>1. CASE GenerateThrows \/ OpenRunner \/ OpenThrows \/ CloseSuite \/ CloseThrows
  BY <1>0, <1>1 DEF Progress, GenerateThrows, OpenRunner, OpenThrows, CloseSuite, CloseThrows
<1>2. CASE SaveComparison \/ SaveThrows \/ Report
  BY <1>0, <1>2 DEF Progress, SaveComparison, SaveThrows, Report
<1>3. ASSUME NEW m \in {"compare", "generate", "auto"}, NEW keep \in BOOLEAN,
             NEW helped \in SUBSET Sides, NEW agent \in Agents,
             StartEvolve(m, keep, helped, agent)
      PROVE  Progress'
  BY <1>0, <1>3 DEF Progress, StartEvolve
<1>4. ASSUME NEW n \in 0 .. MaxCandidates, NEW agents \in [1 .. n -> Agents], Generate(agents)
      PROVE  Progress'
  <2>1. agents \in Seq(Agents) /\ Len(agents) = n /\ n <= MaxCandidates /\ Len(comparisons') = 0
    BY <1>4 DEF Generate
  <2>2. QED
    BY <1>0, <1>4, <2>1 DEF Progress, Generate
<1>5. CASE NextCandidate
  <2>1. Len(candidates') = Len(candidates) - 1 /\ Len(candidates') \in Nat \ {0}
    BY <1>0, <1>5 DEF EvoTyped, NextCandidate
  <2>2. candidates' # << >> /\ Len(comparisons) \in Nat /\ Len(candidates) \in Nat
    BY <1>0, <2>1 DEF EvoTyped
  <2>3. QED
    BY <1>0, <1>5, <2>1, <2>2 DEF Progress, NextCandidate
<1>6. CASE Compare
  <2>1. Len(comparisons') = Len(comparisons) + 1 /\ Len(comparisons) \in Nat /\ Len(candidates) \in Nat
    BY <1>0, <1>6 DEF EvoTyped, Compare
  <2>2. QED
    BY <1>0, <1>6, <2>1 DEF Progress, Compare
<1>7. CASE Adopt
  BY <1>0, <1>7 DEF Progress, Adopt, EvoTypeOK
<1>8. ASSUME NEW r \in Runs, RunTask(r)
      PROVE  Progress'
  <2>1. Len(candidates') = Len(candidates) /\ (candidates # << >> => candidates' # << >>)
    BY <1>0, <1>8 DEF EvoTyped, RunTask
  <2>2. QED
    BY <1>0, <1>8, <2>1 DEF Progress, RunTask
<1>9. QED
  BY <1>1, <1>2, <1>3, <1>4, <1>5, <1>6, <1>7, <1>8, EvoStepCases DEF Quiet

LEMMA EvoStepRecorded ==
  ASSUME EvoInv, EvoNext
  PROVE  Recorded' /\ SuitesClosed' /\ HistoryComplete'
<1> USE EvolutionAssumption
<1>0. EvoTyped /\ EvoTypeOK /\ Recorded /\ SuitesClosed /\ HistoryComplete
  BY DEF EvoInv, EvoTyped, EvolutionSound
<1> DEFINE Kept == Recorded' /\ SuitesClosed' /\ HistoryComplete'
<1>1. CASE CloseSuite
  <2>1. runs["baseline"] \in Seq(Runs) /\ Len(runs["baseline"]) <= SuiteTasks /\ open \subseteq Sides
    BY <1>0 DEF EvoTypeOK, Sides
  <2>2. Len(runs["baseline"]) \in Nat
    BY <2>1
  <2>3. Side = "candidate" => /\ open' = {}
                              /\ Len(runs["baseline"]) = SuiteTasks /\ Len(runs["candidate"]) = SuiteTasks
    BY <1>1, <2>1, <2>2 DEF CloseSuite, Side, Sides
  <2>4. QED
    BY <1>0, <1>1, <2>3 DEF Recorded, SuitesClosed, HistoryComplete, CloseSuite
<1>2. CASE OpenRunner \/ OpenThrows \/ CloseThrows
  BY <1>0, <1>2 DEF Recorded, SuitesClosed, HistoryComplete, OpenRunner, OpenThrows, CloseThrows
<1>3. CASE SaveComparison \/ SaveThrows \/ Report \/ GenerateThrows
  BY <1>0, <1>3 DEF EvoTyped, Recorded, SuitesClosed, HistoryComplete, SaveComparison, SaveThrows, Report,
     GenerateThrows
<1>4. ASSUME NEW m \in {"compare", "generate", "auto"}, NEW keep \in BOOLEAN,
             NEW helped \in SUBSET Sides, NEW agent \in Agents,
             StartEvolve(m, keep, helped, agent)
      PROVE  Kept
  BY <1>0, <1>4 DEF Recorded, SuitesClosed, HistoryComplete, StartEvolve
<1>5. ASSUME NEW n \in 0 .. MaxCandidates, NEW agents \in [1 .. n -> Agents], Generate(agents)
      PROVE  Kept
  BY <1>0, <1>5 DEF Recorded, SuitesClosed, HistoryComplete, Generate
<1>6. CASE Compare
  BY <1>0, <1>6 DEF EvoTyped, Recorded, SuitesClosed, HistoryComplete, Compare
<1>7. CASE NextCandidate \/ Adopt
  BY <1>0, <1>7 DEF Recorded, SuitesClosed, HistoryComplete, NextCandidate, Adopt
<1>8. ASSUME NEW r \in Runs, RunTask(r)
      PROVE  Kept
  BY <1>0, <1>8 DEF Recorded, SuitesClosed, HistoryComplete, RunTask
<1>9. QED
  BY <1>1, <1>2, <1>3, <1>4, <1>5, <1>6, <1>7, <1>8, EvoStepCases DEF Quiet

\* A generation's agents differ from an apart parent in an apart way, a run allows
\* its agent "subagent" and no more, and so the agents of the comparisons are apart.
LEMMA EvoStepApart ==
  ASSUME EvoInv, EvoNext
  PROVE  LineageApart' /\ ToolListsApart'
<1>0. EvoTyped /\ EvoTypeOK /\ Progress /\ Recorded /\ LineageApart /\ ToolListsApart
  BY DEF EvoInv, EvoTyped, EvolutionSound
<1> DEFINE Kept == LineageApart' /\ ToolListsApart'
<1>1. ASSUME UNCHANGED <<evoMode, delegating, baseAgent, candidates, comparisons>>,
             evoStage # "blank", evoStage' # "blank"
      PROVE  Kept
  BY <1>0, <1>1 DEF LineageApart, ToolListsApart, RunAllows
<1>2. CASE Quiet
  BY <1>1, <1>2 DEF Quiet, GenerateThrows, OpenRunner, OpenThrows, CloseSuite, CloseThrows,
     SaveComparison, SaveThrows, Report
<1>3. ASSUME NEW m \in {"compare", "generate", "auto"}, NEW keep \in BOOLEAN,
             NEW helped \in SUBSET Sides, NEW agent \in Agents,
             agent.allowed = {}, agent.denied = {}, StartEvolve(m, keep, helped, agent)
      PROVE  Kept
  <2>1. candidates = << >> /\ comparisons = << >>
    BY <1>0, <1>3 DEF Recorded, StartEvolve
  <2>2. QED
    BY <1>3, <2>1 DEF LineageApart, ToolListsApart, ApartBut, StartEvolve
<1>4. ASSUME NEW n \in 0 .. MaxCandidates, NEW agents \in [1 .. n -> Agents], Generate(agents)
      PROVE  Kept
  <2>1. /\ comparisons' = << >> /\ candidates' = agents /\ baseAgent' = baseAgent
        /\ evoMode' = evoMode /\ RunAllows' = RunAllows
    BY <1>4 DEF Generate, RunAllows
  <2>2. ASSUME evoMode # "compare"  PROVE \A i \in DOMAIN agents : ApartBut(agents[i], RunAllows)
    <3>1. ApartBut(baseAgent, RunAllows) /\ baseAgent \in Agents
      BY <1>0, <2>2 DEF ToolListsApart, EvoTypeOK
    <3>2. \A i \in DOMAIN agents : agents[i] \in Mutations(baseAgent)
      BY <1>4, <2>2 DEF Generate
    <3>3. QED
      BY <3>1, <3>2, MutationsKeepApart
  <2>3. QED
    BY <1>0, <2>1, <2>2 DEF LineageApart, ToolListsApart
<1>5. CASE NextCandidate
  <2>1. \A i \in DOMAIN candidates' : i + 1 \in DOMAIN candidates /\ candidates'[i] = candidates[i + 1]
    BY <1>0, <1>5 DEF EvoTyped, NextCandidate
  <2>2. RunAllows' = RunAllows
    BY <1>5 DEF NextCandidate, RunAllows
  <2>3. QED
    BY <1>0, <1>5, <2>1, <2>2 DEF LineageApart, ToolListsApart, NextCandidate
<1>6. CASE Compare
  <2> DEFINE c == Comparison(candidates[1], runs["baseline"], runs["candidate"])
  <2>1. evoMode # "compare" => ApartBut(candidates[1], RunAllows)
    BY <1>0, <1>6 DEF EvoTyped, Progress, Compares, ToolListsApart, Compare
  <2>2. c.agent = candidates[1]
    BY DEF Comparison
  <2> HIDE DEF c
  <2>3. /\ comparisons' = Append(comparisons, c) /\ RunAllows' = RunAllows
        /\ UNCHANGED <<evoMode, baseAgent, candidates>> /\ evoStage' # "blank" /\ evoStage # "blank"
    BY <1>6 DEF Compare, c, RunAllows
  <2>4. \A i \in DOMAIN comparisons' :
          comparisons'[i] = IF i = Len(comparisons) + 1 THEN c ELSE comparisons[i]
    BY <1>0, <2>3 DEF EvoTyped
  <2>5. \A i \in DOMAIN comparisons' : i # Len(comparisons) + 1 => i \in DOMAIN comparisons
    BY <1>0, <2>3 DEF EvoTyped
  <2>6. QED
    BY <1>0, <2>1, <2>2, <2>3, <2>4, <2>5 DEF LineageApart, ToolListsApart
<1>7. CASE Adopt
  <2>1. comparisons # << >> /\ Best(comparisons) \in DOMAIN comparisons
    BY <1>0, <1>7, BestExists DEF Progress, Adopt, EvoTyped
  <2>2. evoMode # "compare" => ApartBut(comparisons[Best(comparisons)].agent, RunAllows)
    BY <1>0, <1>7, <2>1 DEF LineageApart, Adopt
  <2>3. RunAllows' = RunAllows
    BY <1>7 DEF Adopt, RunAllows
  <2>4. QED
    BY <1>0, <1>7, <2>2, <2>3 DEF LineageApart, ToolListsApart, Adopt
<1>8. ASSUME NEW r \in Runs, RunTask(r)
      PROVE  Kept
  <2>1. /\ RunAllows' = RunAllows /\ UNCHANGED <<evoMode, evoStage, comparisons>>
        /\ evoStage = "running"
    BY <1>8 DEF RunTask, RunAllows
  <2>2. ASSUME NEW agent \in Agents, ApartBut(agent, RunAllows)
        PROVE  ApartBut(Ran(agent), RunAllows)
    BY <2>2 DEF ApartBut, Ran, RunAllows, Agents
  <2>3. baseAgent' \in {baseAgent, Ran(baseAgent)}
    BY <1>8 DEF RunTask
  <2>4. /\ DOMAIN candidates' = DOMAIN candidates
        /\ \A i \in DOMAIN candidates : candidates'[i] \in {candidates[i], Ran(candidates[i])}
    BY <1>0, <1>8 DEF RunTask, EvoTyped
  <2>5. baseAgent \in Agents /\ \A i \in DOMAIN candidates : candidates[i] \in Agents
    BY <1>0 DEF EvoTyped, EvoTypeOK
  <2>6. LineageApart'
    BY <1>0, <2>1 DEF LineageApart
  <2>7. QED
    BY <1>0, <2>1, <2>2, <2>3, <2>4, <2>5, <2>6 DEF ToolListsApart
<1>9. QED
  BY <1>2, <1>3, <1>4, <1>5, <1>6, <1>7, <1>8, EvoStepCases

\* The comparisons of a generation are blocked where they are rejected.
LEMMA EvoStepBlocks ==
  ASSUME EvoInv, EvoNext
  PROVE  RejectedIsBlocked'
<1>0. EvoTyped /\ EvoTypeOK /\ Recorded /\ RejectedIsBlocked
  BY DEF EvoInv, EvoTyped, EvolutionSound
<1>1. CASE Quiet \/ NextCandidate \/ Adopt \/ \E r \in Runs : RunTask(r)
  <2>1. comparisons' = comparisons
    BY <1>1 DEF Quiet, GenerateThrows, OpenRunner, OpenThrows, CloseSuite, CloseThrows,
       SaveComparison, SaveThrows, Report, RunTask, NextCandidate, Adopt
  <2>2. QED
    BY <1>0, <2>1 DEF RejectedIsBlocked
<1>2. ASSUME NEW m \in {"compare", "generate", "auto"}, NEW keep \in BOOLEAN,
             NEW helped \in SUBSET Sides, NEW agent \in Agents, StartEvolve(m, keep, helped, agent)
      PROVE  RejectedIsBlocked'
  BY <1>0, <1>2 DEF RejectedIsBlocked, StartEvolve
<1>3. ASSUME NEW n \in 0 .. MaxCandidates, NEW agents \in [1 .. n -> Agents], Generate(agents)
      PROVE  RejectedIsBlocked'
  BY <1>3 DEF RejectedIsBlocked, Generate
<1>4. CASE Compare
  <2> DEFINE c == Comparison(candidates[1], runs["baseline"], runs["candidate"])
  <2>1. /\ runs["baseline"] \in Seq(Runs) /\ Len(runs["baseline"]) = SuiteTasks
        /\ runs["candidate"] \in Seq(Runs) /\ Len(runs["candidate"]) = SuiteTasks
    BY <1>0, <1>4 DEF EvoTypeOK, Sides, Recorded, Compare
  <2>2. c.rec = "reject" => c.blocking
    BY <2>1, RejectsTheBlocked
  <2>3. comparisons' = Append(comparisons, c)
    BY <1>4 DEF Compare
  <2> HIDE DEF c
  <2>4. \A i \in DOMAIN comparisons' :
          \/ i \in DOMAIN comparisons /\ comparisons'[i] = comparisons[i]
          \/ comparisons'[i] = c
    BY <1>0, <2>3 DEF EvoTyped
  <2>5. QED
    BY <1>0, <2>2, <2>4 DEF RejectedIsBlocked
<1>5. QED
  BY <1>1, <1>2, <1>3, <1>4, EvoStepCases

LEMMA EvoStepAdopts ==
  ASSUME EvoInv, EvoNext
  PROVE  BestAdopted'
<1>0. EvoTyped /\ EvoTypeOK /\ Progress /\ Recorded /\ BestAdopted
  BY DEF EvoInv, EvoTyped, EvolutionSound
<1>1. ASSUME UNCHANGED <<adopted, baseAgent, comparisons>>
      PROVE  BestAdopted'
  BY <1>0, <1>1 DEF BestAdopted
<1>2. CASE Quiet \/ NextCandidate
  BY <1>1, <1>2 DEF Quiet, GenerateThrows, OpenRunner, OpenThrows, CloseSuite, CloseThrows,
     SaveComparison, SaveThrows, Report, NextCandidate
<1>3. ASSUME NEW m \in {"compare", "generate", "auto"}, NEW keep \in BOOLEAN,
             NEW helped \in SUBSET Sides, NEW agent \in Agents,
             StartEvolve(m, keep, helped, agent)
      PROVE  BestAdopted'
  BY <1>0, <1>3 DEF BestAdopted, StartEvolve, Recorded
<1>4. ASSUME NEW n \in 0 .. MaxCandidates, NEW agents \in [1 .. n -> Agents], Generate(agents)
      PROVE  BestAdopted'
  BY <1>4 DEF BestAdopted, Generate
<1>5. CASE Compare
  BY <1>0, <1>5 DEF BestAdopted, Compare, Progress, Compares
<1>6. CASE Adopt
  <2> DEFINE best == Best(comparisons)
  <2>1. comparisons # << >>
    BY <1>0, <1>6 DEF Progress, Adopt, EvoTyped
  <2>2. best \in DOMAIN comparisons /\ \A j \in DOMAIN comparisons : ~ Before(comparisons[j], comparisons[best])
    BY <1>0, <2>1, BestExists DEF EvoTyped
  <2>3. \A j \in DOMAIN comparisons : comparisons[j] \in Comparable
    BY <1>0 DEF EvoTyped
  <2>4. \A j \in DOMAIN comparisons :
          \/ Rank(comparisons[j].rec) > Rank(comparisons[best].rec)
          \/ comparisons[j].rec = comparisons[best].rec /\ comparisons[j].delta <= comparisons[best].delta
    BY <2>2, <2>3 DEF Comparable, Recommendations, Before, Rank
  <2>5. CASE comparisons[best].rec = "reject"
    BY <1>0, <1>6, <2>5 DEF BestAdopted, Adopt
  <2>6. CASE comparisons[best].rec # "reject"
    <3>1. adopted' = best /\ baseAgent' = comparisons[best].agent /\ comparisons' = comparisons
      BY <1>6, <2>6 DEF Adopt
    <3> HIDE DEF best
    <3>2. QED
      BY <3>1, <2>4, <2>6 DEF BestAdopted
  <2>7. QED
    BY <2>5, <2>6
<1>7. CASE \E r \in Runs : RunTask(r)
  BY <1>0, <1>7 DEF BestAdopted, RunTask, Progress, Compares
<1>8. QED
  BY <1>2, <1>3, <1>4, <1>5, <1>6, <1>7, EvoStepCases

LEMMA EvoStepHolds == EvoInv /\ [EvoNext]_evoVars => EvoInv'
<1> SUFFICES ASSUME EvoInv, [EvoNext]_evoVars PROVE EvoInv'
  OBVIOUS
<1>1. CASE EvoNext
  <2>1. EvoTyped' /\ EvoTypeOK'
    BY <1>1, EvoStepTyped DEF EvoTyped
  <2>2. QED
    BY <1>1, <2>1, EvoStepProgress, EvoStepRecorded, EvoStepApart, EvoStepBlocks, EvoStepAdopts
       DEF EvoInv, EvolutionSound
<1>2. CASE UNCHANGED evoVars
  BY <1>2 DEF evoVars, EvoInv, EvoTyped, EvoTypeOK, Progress, Recorded, LineageApart, EvolutionSound,
     BestAdopted, ToolListsApart, SuitesClosed, HistoryComplete, RejectedIsBlocked, RunAllows, Side
<1>3. QED
  BY <1>1, <1>2

\* A recommended candidate is better.
LEMMA AcceptsTheBetter ==
  ASSUME EvoInv, EvoNext, Len(comparisons') > Len(comparisons), comparisons'[Len(comparisons')].rec = "accept"
  PROVE  LET base == runs["baseline"]
             cand == runs["candidate"]
         IN  /\ \E i \in DOMAIN base :
                  \/ cand[i].score > base[i].score
                  \/ cand[i].status = "passed" /\ base[i].status # "passed"
             /\ \A i \in DOMAIN base : base[i].status = "passed" => cand[i].status = "passed"
             /\ Total(Issues(cand)) <= Total(Issues(base))
<1> USE EvolutionAssumption
<1>0. EvoTyped /\ EvoTypeOK /\ Progress /\ Recorded
  BY DEF EvoInv, EvoTyped
<1>1. CASE Compare
  <2> DEFINE base == runs["baseline"]
             cand == runs["candidate"]
             score  == Total(Scores(cand)) - Total(Scores(base))
             pass   == Total(Passed(cand)) - Total(Passed(base))
             memory == Total(Issues(cand)) - Total(Issues(base))
             c == Comparison(candidates[1], base, cand)
  <2>1. /\ base \in Seq(Runs) /\ Len(base) = SuiteTasks
        /\ cand \in Seq(Runs) /\ Len(cand) = SuiteTasks
    BY <1>0, <1>1 DEF EvoTypeOK, Sides, Recorded, Compare
  <2>2. comparisons'[Len(comparisons')] = c
    <3> HIDE DEF c
    <3>1. comparisons' = Append(comparisons, c)
      BY <1>1 DEF Compare, c
    <3>2. QED
      BY <1>0, <3>1 DEF EvoTyped
  <2>3. Recommend(score, pass, Regressions(base, cand), memory) = "accept"
    BY <2>2 DEF Comparison
  <2>4. /\ Total(Scores(cand)) \in Int /\ Total(Passed(cand)) \in Int /\ Total(Issues(cand)) \in Int
        /\ Total(Scores(base)) \in Int /\ Total(Passed(base)) \in Int /\ Total(Issues(base)) \in Int
    BY <2>1, RunTotals
  <2>5. memory < 1 /\ Regressions(base, cand) = {} /\ (score > 0 \/ pass > 0)
    <3>1. score \in Int /\ pass \in Int /\ memory \in Int
      BY <2>4
    <3> HIDE DEF score, pass, memory
    <3>2. QED
      BY <2>3, <3>1 DEF Recommend
  <2> HIDE DEF base, cand
  <2>6. /\ DOMAIN base = 1 .. SuiteTasks /\ DOMAIN cand = 1 .. SuiteTasks /\ IsFiniteSet(1 .. SuiteTasks)
        /\ \A i \in 1 .. SuiteTasks : base[i].score \in Nat /\ cand[i].score \in Nat
    BY <2>1, SuitesAlike
  <2>8. \E i \in DOMAIN base :
          \/ cand[i].score > base[i].score
          \/ cand[i].status = "passed" /\ base[i].status # "passed"
    <3>1. SUFFICES ASSUME \A i \in DOMAIN base :
                            /\ ~ (cand[i].score > base[i].score)
                            /\ cand[i].status = "passed" => base[i].status = "passed"
                   PROVE  FALSE
      OBVIOUS
    <3>2. \A i \in 1 .. SuiteTasks : cand[i].score <= base[i].score
      BY <3>1, <2>6
    <3>3. Total(Scores(cand)) <= Total(Scores(base))
      <4>1. /\ DOMAIN Scores(cand) = 1 .. SuiteTasks /\ DOMAIN Scores(base) = 1 .. SuiteTasks
            /\ \A i \in 1 .. SuiteTasks :
                 /\ Scores(cand)[i] \in Int /\ Scores(base)[i] \in Int
                 /\ Scores(cand)[i] <= Scores(base)[i]
        BY <2>6, <3>2 DEF Scores
      <4>2. QED
        BY <4>1, <2>6, TotalMonotone
    <3>4. \A i \in 1 .. SuiteTasks : cand[i].status = "passed" => base[i].status = "passed"
      BY <3>1, <2>6
    <3>5. Total(Passed(cand)) <= Total(Passed(base))
      <4>1. /\ DOMAIN Passed(cand) = 1 .. SuiteTasks /\ DOMAIN Passed(base) = 1 .. SuiteTasks
            /\ \A i \in 1 .. SuiteTasks :
                 /\ Passed(cand)[i] \in Int /\ Passed(base)[i] \in Int
                 /\ Passed(cand)[i] <= Passed(base)[i]
        BY <2>6, <3>4 DEF Passed
      <4>2. QED
        BY <4>1, <2>6, TotalMonotone
    <3>6. QED
      BY <2>4, <2>5, <3>3, <3>5
  <2>9. \A i \in DOMAIN base : base[i].status = "passed" => cand[i].status = "passed"
    BY <2>5 DEF Regressions
  <2>10. Total(Issues(cand)) <= Total(Issues(base))
    BY <2>4, <2>5
  <2>11. QED
    BY <2>8, <2>9, <2>10 DEF base, cand
<1>2. CASE ~ Compare
  <2>1. ASSUME NEW m \in {"compare", "generate", "auto"}, NEW keep \in BOOLEAN,
             NEW helped \in SUBSET Sides, NEW agent \in Agents,
               StartEvolve(m, keep, helped, agent)
        PROVE  comparisons' = comparisons
    BY <2>1 DEF StartEvolve
  <2>2. ASSUME NEW n \in 0 .. MaxCandidates, NEW agents \in [1 .. n -> Agents], Generate(agents)
        PROVE  comparisons' = << >>
    BY <2>2 DEF Generate
  <2>3. Quiet \/ NextCandidate \/ Adopt \/ (\E r \in Runs : RunTask(r)) => comparisons' = comparisons
    BY DEF Quiet, GenerateThrows, OpenRunner, OpenThrows, CloseSuite, CloseThrows,
       SaveComparison, SaveThrows, Report, RunTask, NextCandidate, Adopt
  <2>4. comparisons' = comparisons \/ comparisons' = << >>
    BY <1>2, <2>1, <2>2, <2>3, EvoStepCases
  <2>5. Len(comparisons') <= Len(comparisons)
    BY <1>0, <2>4 DEF EvoTyped
  <2>6. QED
    BY <1>0, <2>4, <2>5 DEF EvoTyped
<1>3. QED
  BY <1>1, <1>2

\* An evolution goes on with the best it found, none that was rejected, and leaves
\* a complete record and nothing open, for any suite, any number of candidates and
\* iterations, and any tools.
THEOREM EvolutionIsSound == EvoSpec => []EvolutionSound
<1>1. EvoInv => EvolutionSound
  BY DEF EvoInv
<1>2. QED
  BY <1>1, EvoInitHolds, EvoStepHolds, PTL DEF EvoSpec

\* A candidate is recommended only when it is better: it gains on some task, loses
\* none the baseline passed, and its memory is no worse on the suite as a whole.
THEOREM RecommendedIsBetter == EvoSpec => AcceptedIsBetter
<1>1. EvoInv /\ [EvoNext]_evoVars =>
        [Len(comparisons') > Len(comparisons) /\ comparisons'[Len(comparisons')].rec = "accept" =>
           LET base == runs["baseline"]
               cand == runs["candidate"]
           IN  /\ \E i \in DOMAIN base :
                  \/ cand[i].score > base[i].score
                  \/ cand[i].status = "passed" /\ base[i].status # "passed"
               /\ \A i \in DOMAIN base : base[i].status = "passed" => cand[i].status = "passed"
               /\ Total(Issues(cand)) <= Total(Issues(base))]_evoVars
  BY AcceptsTheBetter
<1>2. QED
  BY <1>1, EvoInitHolds, EvoStepHolds, PTL DEF EvoSpec, AcceptedIsBetter

-------------------------------------------------------------------------------
(* Chats at a terminal.                                                      *)

\* A sequence of turns holds a turn, and has none after it.
Holds(turns, t) == \E i \in DOMAIN turns : turns[i] = t
UpTo(turns, t) == \A i \in DOMAIN turns : turns[i] <= t
BusyStages == {"asking", "remembering", "saving", "writing", "printing"}

\* A sequence of turns is a prefix of itself and of what it grows to; what it
\* holds does not go, and one that grows by a later turn stays increasing.
LEMMA PrefixKept ==
  ASSUME NEW s \in Seq(Nat), NEW t \in Seq(Nat), NEW e \in Nat
  PROVE  IsPrefix(s, s) /\ IsPrefix(<< >>, t) /\ (IsPrefix(s, t) => IsPrefix(s, Append(t, e)))
<1>1. IsPrefix(s, s) /\ IsPrefix(<< >>, t)
  BY DEF IsPrefix
<1>2. ASSUME IsPrefix(s, t)  PROVE IsPrefix(s, Append(t, e))
  <2>1. Len(s) <= Len(t) /\ SubSeq(t, 1, Len(s)) = s
    BY <1>2 DEF IsPrefix
  <2>2. Len(s) <= Len(Append(t, e)) /\ SubSeq(Append(t, e), 1, Len(s)) = SubSeq(t, 1, Len(s))
    BY <2>1
  <2>3. QED
    BY <2>1, <2>2 DEF IsPrefix
<1>3. QED
  BY <1>1, <1>2

LEMMA GrowsBy ==
  ASSUME NEW s \in Seq(Nat), NEW e \in Nat, UpTo(s, e - 1), Increasing(s)
  PROVE  /\ Increasing(Append(s, e)) /\ UpTo(Append(s, e), e)
         /\ \A t : Holds(Append(s, e), t) <=> Holds(s, t) \/ t = e
<1>1. /\ DOMAIN Append(s, e) = 1 .. (Len(s) + 1) /\ DOMAIN s = 1 .. Len(s)
      /\ \A i \in 1 .. Len(s) : Append(s, e)[i] = s[i] /\ s[i] \in Nat
      /\ Append(s, e)[Len(s) + 1] = e
      /\ Len(Append(s, e)) = Len(s) + 1
  OBVIOUS
<1>2. UpTo(Append(s, e), e)
  BY <1>1 DEF UpTo
<1>3. \A t : Holds(Append(s, e), t) <=> Holds(s, t) \/ t = e
  BY <1>1 DEF Holds
<1>4. ASSUME NEW i \in 1 .. Len(s)  PROVE Append(s, e)[i] < Append(s, e)[i + 1]
  <2>1. CASE i = Len(s)
    BY <1>1, <2>1 DEF UpTo
  <2>2. CASE i # Len(s)
    <3>1. i \in 1 .. (Len(s) - 1) /\ i + 1 \in 1 .. Len(s)
      BY <2>2
    <3>2. s[i] < s[i + 1]
      BY <3>1 DEF Increasing
    <3>3. QED
      BY <1>1, <3>1, <3>2
  <2>3. QED
    BY <2>1, <2>2
<1>5. QED
  BY <1>1, <1>2, <1>3, <1>4 DEF Increasing

\* every turn of the conversation behind its first `from` is later than all of these
Later(turns, from) ==
  \A i \in DOMAIN turns, j \in DOMAIN context : j > from => turns[i] < context[j]

\* Where a place of two pieces put together lies.
LEMMA Pieces ==
  ASSUME NEW m \in Nat, NEW n \in Nat, NEW i \in 1 .. (m + n)
  PROVE  /\ i <= m => i \in 1 .. m
         /\ ~ (i <= m) => i - m \in 1 .. n
         /\ i # m + n => /\ i + 1 \in 1 .. (m + n)
                         /\ i + 1 <= m => i \in 1 .. (m - 1) /\ i <= m
                         /\ i = m => ~ (i + 1 <= m) /\ (i + 1) - m = 1 /\ 1 \in 1 .. n /\ i \in 1 .. m
                         /\ i > m => /\ ~ (i <= m) /\ ~ (i + 1 <= m)
                                     /\ i - m \in 1 .. (n - 1) /\ (i + 1) - m = (i - m) + 1
         /\ i + 1 <= m \/ i = m \/ i > m
  OBVIOUS

\* Two increasing pieces put together, the second later than the first.
LEMMA PiecesIncrease ==
  ASSUME NEW m \in Nat, NEW n \in Nat, NEW s, NEW rest, NEW r,
         \A i \in 1 .. (m - 1) : s[i] < s[i + 1],
         \A k \in 1 .. (n - 1) : rest[k] < rest[k + 1],
         \A i \in 1 .. m, k \in 1 .. n : s[i] < rest[k],
         \A i \in 1 .. (m + n) : r[i] = IF i <= m THEN s[i] ELSE rest[i - m]
  PROVE  \A i \in 1 .. (m + n - 1) : r[i] < r[i + 1]
<1> SUFFICES ASSUME NEW i \in 1 .. (m + n - 1)  PROVE r[i] < r[i + 1]
  OBVIOUS
<1>1. i \in 1 .. (m + n) /\ i # m + n
  OBVIOUS
<1>2. /\ i + 1 \in 1 .. (m + n)
      /\ i + 1 <= m => i \in 1 .. (m - 1) /\ i <= m
      /\ i = m => ~ (i + 1 <= m) /\ (i + 1) - m = 1 /\ 1 \in 1 .. n /\ i \in 1 .. m
      /\ i > m => /\ ~ (i <= m) /\ ~ (i + 1 <= m)
                  /\ i - m \in 1 .. (n - 1) /\ (i + 1) - m = (i - m) + 1
      /\ i + 1 <= m \/ i = m \/ i > m
  BY <1>1, Pieces
<1>3. /\ r[i] = IF i <= m THEN s[i] ELSE rest[i - m]
      /\ r[i + 1] = IF i + 1 <= m THEN s[i + 1] ELSE rest[(i + 1) - m]
  BY <1>1, <1>2
<1>4. CASE i + 1 <= m
  BY <1>2, <1>3, <1>4
<1>5. CASE i = m
  <2>1. r[i] = s[i] /\ r[i + 1] = rest[1]
    BY <1>2, <1>3, <1>5
  <2>2. QED
    BY <1>2, <1>5, <2>1
<1>6. CASE i > m
  <2>1. r[i] = rest[i - m] /\ r[i + 1] = rest[(i - m) + 1]
    BY <1>2, <1>3, <1>6
  <2>2. QED
    BY <1>2, <1>6, <2>1
<1>7. QED
  BY <1>2, <1>4, <1>5, <1>6

\* What two sequences joined hold.
LEMMA Joined ==
  ASSUME NEW s \in Seq(Nat), NEW rest \in Seq(Nat)
  PROVE  /\ Len(s) \in Nat /\ Len(rest) \in Nat /\ DOMAIN s = 1 .. Len(s)
         /\ Len(s \o rest) = Len(s) + Len(rest) /\ DOMAIN (s \o rest) = 1 .. (Len(s) + Len(rest))
         /\ \A i \in 1 .. (Len(s) + Len(rest)) :
              (s \o rest)[i] = IF i <= Len(s) THEN s[i] ELSE rest[i - Len(s)]
<1>1. Len(s) \in Nat /\ Len(rest) \in Nat /\ DOMAIN s = 1 .. Len(s)
  BY LenProperties
<1>2. /\ s \o rest \in Seq(Nat) /\ Len(s \o rest) = Len(s) + Len(rest)
      /\ \A i \in 1 .. (Len(s) + Len(rest)) :
           (s \o rest)[i] = IF i <= Len(s) THEN s[i] ELSE rest[i - Len(s)]
  BY ConcatProperties
<1>3. DOMAIN (s \o rest) = 1 .. Len(s \o rest)
  BY <1>2, LenProperties
<1>4. QED
  BY <1>1, <1>2, <1>3

\* Turns that are joined by the rest of a conversation, all of it later.
LEMMA JoinsRest ==
  ASSUME NEW s \in Seq(Nat), NEW t \in Seq(Nat), NEW b \in Nat, b < Len(t),
         Increasing(s), Increasing(t),
         \A i \in DOMAIN s, j \in DOMAIN t : j > b => s[i] < t[j]
  PROVE  /\ Increasing(s \o SubSeq(t, b + 1, Len(t)))
         /\ \A v : Holds(s, v) => Holds(s \o SubSeq(t, b + 1, Len(t)), v)
         /\ Holds(s \o SubSeq(t, b + 1, Len(t)), t[Len(t)])
         /\ \A n \in Nat : UpTo(s, n) /\ UpTo(t, n) => UpTo(s \o SubSeq(t, b + 1, Len(t)), n)
<1>1. PICK rest : rest = SubSeq(t, b + 1, Len(t))
  OBVIOUS
<1>2. /\ rest \in Seq(Nat) /\ Len(rest) = Len(t) - b /\ Len(rest) \in Nat \ {0}
      /\ Len(t) \in Nat /\ Len(s) \in Nat
      /\ \A k \in 1 .. Len(rest) : rest[k] = t[b + k] /\ b + k \in DOMAIN t /\ b + k > b
  BY <1>1
<1>3. Increasing(rest)
  <2>1. ASSUME NEW k \in 1 .. (Len(rest) - 1)  PROVE rest[k] < rest[k + 1]
    <3>1. k \in 1 .. Len(rest) /\ k + 1 \in 1 .. Len(rest) /\ b + (k + 1) = (b + k) + 1
      BY <1>2
    <3>2. b + k \in 1 .. (Len(t) - 1)
      BY <1>2
    <3>3. t[b + k] < t[(b + k) + 1]
      BY <3>2 DEF Increasing
    <3>4. QED
      BY <1>2, <3>1, <3>3
  <2>2. QED
    BY <2>1 DEF Increasing
<1>4. \A i \in 1 .. Len(s), k \in 1 .. Len(rest) : s[i] < rest[k]
  <2>1. DOMAIN s = 1 .. Len(s)
    BY LenProperties
  <2>2. QED
    BY <1>2, <2>1
<1>5. PICK r : r = s \o rest
  OBVIOUS
<1>6. /\ Len(r) = Len(s) + Len(rest) /\ DOMAIN r = 1 .. (Len(s) + Len(rest)) /\ DOMAIN s = 1 .. Len(s)
      /\ \A i \in 1 .. (Len(s) + Len(rest)) : r[i] = IF i <= Len(s) THEN s[i] ELSE rest[i - Len(s)]
  <2>1. rest \in Seq(Nat)
    BY <1>2
  <2>2. QED
    BY <1>5, <2>1, Joined
<1>7. Increasing(r)
  <2>1. Len(s) \in Nat /\ Len(rest) \in Nat
    BY <1>2
  <2>2. /\ \A i \in 1 .. (Len(s) - 1) : s[i] < s[i + 1]
        /\ \A k \in 1 .. (Len(rest) - 1) : rest[k] < rest[k + 1]
    BY <1>3 DEF Increasing
  <2>3. \A i \in 1 .. (Len(s) + Len(rest)) : r[i] = IF i <= Len(s) THEN s[i] ELSE rest[i - Len(s)]
    BY <1>6
  <2>4. \A i \in 1 .. (Len(s) + Len(rest) - 1) : r[i] < r[i + 1]
    BY <1>4, <2>1, <2>2, <2>3, PiecesIncrease
  <2>5. Len(r) = Len(s) + Len(rest)
    BY <1>6
  <2>6. QED
    BY <2>4, <2>5 DEF Increasing
<1>8. \A v : Holds(s, v) => Holds(r, v)
  <2>1. ASSUME NEW i \in DOMAIN s  PROVE i \in DOMAIN r /\ r[i] = s[i]
    <3>1. i \in 1 .. Len(s) /\ Len(s) \in Nat /\ Len(rest) \in Nat
      BY <1>2, <1>6
    <3>2. i \in 1 .. (Len(s) + Len(rest)) /\ i <= Len(s)
      BY <3>1
    <3>3. QED
      BY <1>6, <3>2
  <2>2. QED
    BY <2>1 DEF Holds
<1>9. Holds(r, t[Len(t)])
  <2>1. Len(s) \in Nat /\ Len(rest) \in Nat \ {0} /\ Len(rest) = Len(t) - b /\ Len(t) \in Nat
    BY <1>2
  <2>2. Len(rest) \in 1 .. Len(rest) /\ b + Len(rest) = Len(t)
    BY <2>1
  <2>3. rest[Len(rest)] = t[Len(t)]
    BY <1>2, <2>2
  <2>4. /\ Len(s) + Len(rest) \in 1 .. (Len(s) + Len(rest)) /\ ~ (Len(s) + Len(rest) <= Len(s))
        /\ (Len(s) + Len(rest)) - Len(s) = Len(rest)
    BY <2>1
  <2>5. r[Len(s) + Len(rest)] = rest[Len(rest)]
    BY <1>6, <2>4
  <2>6. QED
    BY <1>6, <2>3, <2>4, <2>5 DEF Holds
<1>10. ASSUME NEW n \in Nat, UpTo(s, n), UpTo(t, n)  PROVE UpTo(r, n)
  <2>1. ASSUME NEW i \in 1 .. (Len(s) + Len(rest))  PROVE r[i] <= n
    <3>1. Len(s) \in Nat /\ Len(rest) \in Nat
      BY <1>2
    <3>2. (i <= Len(s) => i \in 1 .. Len(s)) /\ (~ (i <= Len(s)) => i - Len(s) \in 1 .. Len(rest))
      BY <3>1, Pieces
    <3>3. r[i] = IF i <= Len(s) THEN s[i] ELSE rest[i - Len(s)]
      BY <1>6
    <3>4. CASE i <= Len(s)
      <4>1. i \in DOMAIN s /\ r[i] = s[i]
        BY <1>6, <3>2, <3>3, <3>4
      <4>2. QED
        BY <1>10, <4>1 DEF UpTo
    <3>5. CASE ~ (i <= Len(s))
      <4>1. PICK k \in 1 .. Len(rest) : k = i - Len(s)
        BY <3>2, <3>5
      <4>2. r[i] = t[b + k] /\ b + k \in DOMAIN t
        BY <1>2, <3>3, <3>5, <4>1
      <4>3. QED
        BY <1>10, <4>2 DEF UpTo
    <3>6. QED
      BY <3>4, <3>5
  <2>2. QED
    BY <1>6, <2>1 DEF UpTo
<1>11. QED
  BY <1>1, <1>5, <1>7, <1>8, <1>9, <1>10

\* Where the turn at hand is: one that is asked is in the conversation but in neither
\* file nor memory, and one further on has reached them one after the other.  What
\* memory has yet to take is behind `heard`, or behind `began` while it takes it.
InStep ==
  /\ UpTo(context, typed) /\ UpTo(disk, typed) /\ UpTo(remembered, typed)
  /\ Later(remembered, heard)
  /\ \A n \in nudges : n[1] <= typed
  /\ replStage = "asking" => typed > 0 /\ UpTo(disk, typed - 1) /\ began = heard /\ heard < Len(context)
  /\ replStage = "remembering" => heard = Len(context) /\ began < Len(context) /\ Later(remembered, began)
  /\ replStage \in BusyStages => context # << >> /\ context[Len(context)] = typed
  /\ replStage \in {"saving", "writing", "printing"} => Holds(remembered, typed)
  /\ replStage \in {"saving", "writing"} => named
  /\ replStage = "printing" /\ named => disk = context

FollowUpsOf(turns) == {n \in nudges : Holds(turns, n[1])}

\* What is in the file is a conversation, and a named session has all of its
\* answers in its own, even while the file is torn.
Stored ==
  /\ disk # TornFile => /\ disk \in Seq(1 .. MaxReplTurns) /\ Increasing(disk)
                        /\ Cardinality(FollowUpsOf(disk)) <= MaxFollowUps
  /\ named /\ replStage # "shell" => \A t \in shown : Holds(context, t)

\* The inductive invariant.
ReplInv == ReplTypeOK /\ InStep /\ Stored /\ ReplSound

LEMMA ReplTypes ==
  ASSUME ReplTypeOK
  PROVE  /\ context \in Seq(Nat) /\ disk \in Seq(Nat) /\ remembered \in Seq(Nat)
         /\ typed \in Nat /\ heard \in Nat /\ began \in Nat /\ IsFiniteSet(nudges)
         /\ IsFiniteSet(FollowUps) /\ Cardinality(FollowUps) \in Nat
<1> USE ReplAssumption
<1>1. /\ context \in Seq(Nat) /\ disk \in Seq(Nat) /\ remembered \in Seq(Nat)
      /\ typed \in Nat /\ heard \in Nat /\ began \in Nat
  BY DEF ReplTypeOK
<1>2. IsFiniteSet((1 .. MaxReplTurns) \X (1 .. MaxFollowUps))
  <2>1. 1 \in Int /\ MaxReplTurns \in Int /\ MaxFollowUps \in Int
    OBVIOUS
  <2>2. IsFiniteSet(1 .. MaxReplTurns) /\ IsFiniteSet(1 .. MaxFollowUps)
    BY <2>1, FS_Interval
  <2>3. QED
    BY <2>2, FS_Product
<1>3. IsFiniteSet(nudges)
  BY <1>2, FS_Subset DEF ReplTypeOK
<1>4. IsFiniteSet(FollowUps) /\ Cardinality(FollowUps) \in Nat
  <2>1. FollowUps \subseteq nudges
    BY DEF FollowUps
  <2>2. QED
    BY <1>3, <2>1, FS_Subset, FS_CardinalityType
<1>5. QED
  BY <1>1, <1>3, <1>4

LEMMA ReplInitHolds == ReplInit => ReplInv
<1> SUFFICES ASSUME ReplInit PROVE ReplInv
  OBVIOUS
<1> USE ReplAssumption
<1>1. /\ replStage = "shell" /\ setting = "unset" /\ heard = 0 /\ began = 0
      /\ context = << >> /\ nudges = {} /\ disk = << >> /\ remembered = << >>
      /\ shown = {} /\ typed = 0 /\ kills = 0
  BY DEF ReplInit
<1>2. ReplTypeOK
  <2>1. /\ context \in Seq(1 .. MaxReplTurns) /\ disk \in Seq(0 .. MaxReplTurns)
        /\ remembered \in Seq(1 .. MaxReplTurns) /\ heard \in 0 .. Len(context)
    BY <1>1
  <2>2. QED
    BY <1>1, <2>1 DEF ReplTypeOK, Settings
<1>3. InStep
  BY <1>1 DEF InStep, UpTo, Later, BusyStages
<1>4. FollowUpsOf(disk) = {} /\ FollowUps = {} /\ Cardinality({}) = 0
  BY <1>1, FS_EmptySet DEF FollowUpsOf, FollowUps
<1>5. Increasing(<< >>)
  <2>1. 1 .. (Len(<< >>) - 1) = {}
    OBVIOUS
  <2>2. QED
    BY <2>1 DEF Increasing
<1>6. << >> \in Seq(1 .. MaxReplTurns)
  OBVIOUS
<1>7. Stored
  <2>1. disk \in Seq(1 .. MaxReplTurns) /\ Increasing(disk)
    BY <1>1, <1>5, <1>6
  <2>2. Cardinality(FollowUpsOf(disk)) <= MaxFollowUps
    BY <1>4
  <2>3. QED
    BY <1>1, <2>1, <2>2 DEF Stored
<1>8. ReplSound
  <2>1. ShownIsStored /\ RememberedOnce /\ FileFollowsConversation
    BY <1>1, <1>5 DEF ShownIsStored, FileFollowsConversation, RememberedOnce
  <2>2. FollowUpsLimited
    BY <1>4 DEF FollowUpsLimited
  <2>3. QED
    BY <1>2, <2>1, <2>2 DEF ReplSound
<1>9. QED
  BY <1>2, <1>3, <1>7, <1>8 DEF ReplInv

LEMMA ReplCases ==
  ASSUME ReplNext
  PROVE  \/ \E with \in BOOLEAN, ac \in Settings : LaunchRepl(with, ac)
         \/ \E response \in Responses : FollowedUp(response)
         \/ TypeLine \/ Answered \/ TurnInterrupted \/ TurnThrows \/ RecordTurn \/ TruncateFile
         \/ FillFile \/ PrintAnswer \/ PressCtrlC \/ Leave \/ Kill
BY DEF ReplNext, ReplStep

LEMMA ReplStepTyped ==
  ASSUME ReplInv, ReplNext
  PROVE  ReplTypeOK'
<1> USE ReplAssumption
<1>0. ReplTypeOK /\ InStep
  BY DEF ReplInv
<1>1. ASSUME NEW with \in BOOLEAN, NEW ac \in Settings, LaunchRepl(with, ac)
      PROVE  ReplTypeOK'
  <2>1. context' \in Seq(1 .. MaxReplTurns)
    <3>1. CASE with
      BY <1>1, <3>1 DEF LaunchRepl, ReplInv, Stored
    <3>2. CASE ~ with
      BY <1>1, <3>2 DEF LaunchRepl
    <3>3. QED
      BY <3>1, <3>2
  <2>2. heard' \in 0 .. Len(context')
    BY <1>1, <2>1 DEF LaunchRepl
  <2>3. QED
    BY <1>0, <1>1, <2>1, <2>2 DEF ReplTypeOK, LaunchRepl
<1>2. ASSUME NEW response \in Responses, FollowedUp(response)
      PROVE  ReplTypeOK'
  <2>1. typed \in 1 .. MaxReplTurns
    BY <1>0, <1>2 DEF ReplTypeOK, InStep, FollowedUp
  <2>2. Cardinality(FollowUps) + 1 \in 1 .. MaxFollowUps
    BY <1>0, <1>2, ReplTypes DEF FollowedUp, Continues
  <2>3. nudges' \subseteq (1 .. MaxReplTurns) \X (1 .. MaxFollowUps)
    BY <1>0, <1>2, <2>1, <2>2 DEF ReplTypeOK, FollowedUp
  <2>4. QED
    BY <1>0, <1>2, <2>3 DEF ReplTypeOK, FollowedUp
<1>3. CASE TypeLine
  <2>1. typed' \in 1 .. MaxReplTurns /\ context' = Append(context, typed') /\ began' \in Nat
    BY <1>0, <1>3 DEF ReplTypeOK, TypeLine
  <2>2. context' \in Seq(1 .. MaxReplTurns) /\ heard \in 0 .. Len(context')
    BY <1>0, <2>1 DEF ReplTypeOK
  <2>3. QED
    BY <1>0, <1>3, <2>1, <2>2 DEF ReplTypeOK, TypeLine
<1>4. CASE TurnInterrupted \/ TurnThrows \/ Leave \/ Kill
  <2>1. /\ UNCHANGED <<setting, context, heard, began, nudges, disk, remembered, shown, typed>>
        /\ replStage' \in {"idle", "shell"}
        /\ kills' = kills \/ (kills' = kills + 1 /\ kills < MaxKills)
    BY <1>4 DEF TurnInterrupted, TurnThrows, Leave, Kill
  <2>2. QED
    BY <1>0, <2>1 DEF ReplTypeOK
<1>5. CASE PressCtrlC
  BY <1>0, <1>5 DEF ReplTypeOK, PressCtrlC
<1>6. CASE RecordTurn
  <2>1. SubSeq(context, began + 1, Len(context)) \in Seq(1 .. MaxReplTurns)
    BY <1>0 DEF ReplTypeOK
  <2>2. remembered' \in Seq(1 .. MaxReplTurns)
    BY <1>0, <1>6, <2>1 DEF RecordTurn, ReplTypeOK
  <2>3. QED
    BY <1>0, <1>6, <2>2 DEF ReplTypeOK, RecordTurn
<1>7. CASE TruncateFile \/ FillFile
  <2>1. disk' \in Seq(0 .. MaxReplTurns)
    <3>1. TornFile \in Seq(0 .. MaxReplTurns)
      BY DEF TornFile
    <3>2. context \in Seq(0 .. MaxReplTurns)
      BY <1>0 DEF ReplTypeOK
    <3>3. QED
      BY <1>7, <3>1, <3>2 DEF TruncateFile, FillFile
  <2>2. QED
    BY <1>0, <1>7, <2>1 DEF ReplTypeOK, TruncateFile, FillFile
<1>8. CASE PrintAnswer
  <2>1. typed \in 1 .. MaxReplTurns
    BY <1>0, <1>8 DEF PrintAnswer, InStep, BusyStages, ReplTypeOK
  <2>2. QED
    BY <1>0, <1>8, <2>1 DEF ReplTypeOK, PrintAnswer
<1>9. CASE Answered
  <2>1. Len(context) \in 0 .. Len(context)
    BY <1>0, ReplTypes
  <2>2. QED
    BY <1>0, <1>9, <2>1 DEF ReplTypeOK, Answered
<1>10. QED
  BY <1>1, <1>2, <1>3, <1>4, <1>5, <1>6, <1>7, <1>8, <1>9, ReplCases

\* The turn that is typed is later than all there was.
LEMMA TypedIsLater ==
  ASSUME ReplInv, TypeLine
  PROVE  /\ context' = Append(context, typed + 1) /\ Increasing(context')
         /\ UpTo(context', typed + 1) /\ Later(remembered, heard)'
         /\ \A t : Holds(context, t) => Holds(context', t)
         /\ IsPrefix(disk, context) => IsPrefix(disk, context')
<1>0. /\ context \in Seq(Nat) /\ disk \in Seq(Nat) /\ remembered \in Seq(Nat)
      /\ typed \in Nat /\ heard \in Nat /\ Increasing(context)
      /\ UpTo(context, typed) /\ UpTo(remembered, typed) /\ Later(remembered, heard)
  BY ReplTypes DEF ReplInv, InStep, ReplSound, FileFollowsConversation
<1>1. context' = Append(context, typed + 1) /\ UNCHANGED <<remembered, heard>>
  BY DEF TypeLine
<1>2. typed + 1 \in Nat /\ UpTo(context, (typed + 1) - 1)
  BY <1>0 DEF UpTo
<1>3. /\ Increasing(context') /\ UpTo(context', typed + 1)
      /\ \A t : Holds(context, t) => Holds(context', t)
      /\ IsPrefix(disk, context) => IsPrefix(disk, context')
  BY <1>0, <1>1, <1>2, GrowsBy, PrefixKept
<1>4. ASSUME NEW i \in DOMAIN remembered, NEW j \in DOMAIN context', j > heard
      PROVE  remembered[i] < context'[j]
  <2>1. \/ j \in DOMAIN context /\ context'[j] = context[j]
        \/ context'[j] = typed + 1
    <3>1. /\ Len(context') = Len(context) + 1 /\ context' \in Seq(Nat) /\ Len(context) \in Nat
          /\ \A k \in 1 .. Len(context) : context'[k] = context[k]
          /\ context'[Len(context) + 1] = typed + 1
      BY <1>0, <1>1, <1>2, AppendProperties, LenProperties
    <3>2. DOMAIN context' = 1 .. Len(context') /\ DOMAIN context = 1 .. Len(context)
      BY <1>0, <3>1, LenProperties
    <3>3. j \in 1 .. Len(context) \/ j = Len(context) + 1
      BY <3>1, <3>2
    <3>4. QED
      BY <3>1, <3>2, <3>3
  <2>2. QED
    BY <1>0, <1>4, <2>1 DEF Later, UpTo
<1>5. Later(remembered, heard)'
  BY <1>1, <1>4 DEF Later
<1>6. QED
  BY <1>1, <1>3, <1>5

\* Memory takes what is behind `began`: all of it is later than what it has.
LEMMA MemoryTakes ==
  ASSUME ReplInv, RecordTurn
  PROVE  /\ Increasing(remembered') /\ UpTo(remembered', typed) /\ Holds(remembered', typed)
         /\ \A t : Holds(remembered, t) => Holds(remembered', t)
<1>0. /\ context \in Seq(Nat) /\ remembered \in Seq(Nat) /\ typed \in Nat /\ began \in Nat
      /\ Increasing(context) /\ Increasing(remembered)
      /\ UpTo(context, typed) /\ UpTo(remembered, typed)
  BY ReplTypes DEF ReplInv, InStep, ReplSound, FileFollowsConversation, RememberedOnce
<1>1. /\ began < Len(context) /\ Later(remembered, began) /\ context[Len(context)] = typed
      /\ remembered' = remembered \o SubSeq(context, began + 1, Len(context))
  BY DEF ReplInv, InStep, RecordTurn, BusyStages
<1>2. \A i \in DOMAIN remembered, j \in DOMAIN context : j > began => remembered[i] < context[j]
  BY <1>1 DEF Later
<1>3. QED
  BY <1>0, <1>1, <1>2, JoinsRest

LEMMA ReplStepInStep ==
  ASSUME ReplInv, ReplNext
  PROVE  InStep'
<1> USE ReplAssumption
<1>0. ReplTypeOK /\ InStep /\ context \in Seq(Nat) /\ disk \in Seq(Nat)
      /\ remembered \in Seq(Nat) /\ typed \in Nat /\ heard \in Nat /\ began \in Nat
  BY ReplTypes DEF ReplInv
<1> USE DEF BusyStages
<1>1. ASSUME NEW with \in BOOLEAN, NEW ac \in Settings, LaunchRepl(with, ac)
      PROVE  InStep'
  <2>1. /\ UpTo(context', typed) /\ context' \in Seq(Nat) /\ heard' = Len(context')
        /\ UNCHANGED <<began, nudges, disk, remembered, shown, typed>> /\ replStage' = "idle"
    BY <1>0, <1>1 DEF LaunchRepl, InStep, UpTo
  <2>2. Later(remembered, heard)'
    BY <2>1 DEF Later
  <2>3. QED
    BY <1>0, <2>1, <2>2 DEF InStep
<1>2. ASSUME NEW response \in Responses, FollowedUp(response)
      PROVE  InStep'
  <2>1. \A n \in nudges' : n[1] <= typed
    BY <1>0, <1>2 DEF InStep, FollowedUp
  <2>2. Later(remembered, heard)' /\ Later(remembered, began)' = Later(remembered, began)
    BY <1>0, <1>2 DEF InStep, Later, FollowedUp
  <2>3. QED
    BY <1>0, <1>2, <2>1, <2>2 DEF InStep, FollowedUp
<1>3. CASE TypeLine
  <2>1. /\ context' = Append(context, typed + 1) /\ UpTo(context', typed + 1)
        /\ Later(remembered, heard)'
    BY <1>3, TypedIsLater DEF ReplInv
  <2>2. UpTo(disk, (typed + 1) - 1) /\ UpTo(disk, typed + 1) /\ UpTo(remembered, typed + 1)
    <3>1. (typed + 1) - 1 = typed /\ UpTo(disk, typed) /\ UpTo(remembered, typed)
      BY <1>0 DEF InStep
    <3>2. \A q \in Seq(Nat) : UpTo(q, typed) => UpTo(q, typed + 1)
      BY <1>0 DEF UpTo
    <3>3. QED
      BY <1>0, <3>1, <3>2
  <2>3. \A n \in nudges : n[1] <= typed + 1
    BY <1>0 DEF InStep, ReplTypeOK
  <2>4. /\ context' # << >> /\ Len(context') = Len(context) + 1 /\ context'[Len(context')] = typed + 1
        /\ heard < Len(context')
    <3>1. heard <= Len(context) /\ Len(context) \in Nat
      BY <1>0 DEF ReplTypeOK
    <3>2. typed + 1 \in Nat
      BY <1>0
    <3>3. /\ context' # << >> /\ Len(context') = Len(context) + 1
          /\ context'[Len(context) + 1] = typed + 1
      BY <1>0, <2>1, <3>2, AppendProperties
    <3>4. QED
      BY <1>0, <3>1, <3>3
  <2>5. /\ typed' = typed + 1 /\ began' = heard /\ replStage' = "asking"
        /\ UNCHANGED <<heard, nudges, disk, remembered>>
    BY <1>3 DEF TypeLine
  <2>6. QED
    BY <1>0, <2>1, <2>2, <2>3, <2>4, <2>5 DEF InStep
<1>4. CASE TurnInterrupted \/ TurnThrows \/ Leave \/ Kill
  <2>1. /\ UNCHANGED <<context, heard, began, nudges, disk, remembered, typed>>
        /\ replStage' \in {"idle", "shell"}
    BY <1>4 DEF TurnInterrupted, TurnThrows, Leave, Kill
  <2>2. Later(remembered, heard)'
    BY <1>0, <2>1 DEF InStep, Later
  <2>3. QED
    BY <1>0, <2>1, <2>2 DEF InStep
<1>5. CASE PressCtrlC
  <2>1. /\ UNCHANGED <<named, context, heard, began, nudges, disk, remembered, typed>>
        /\ replStage' \in {"shell", replStage}
    BY <1>5 DEF PressCtrlC
  <2>2. Later(remembered, heard)' = Later(remembered, heard)
        /\ Later(remembered, began)' = Later(remembered, began)
    BY <2>1 DEF Later
  <2>3. QED
    BY <1>0, <2>1, <2>2 DEF InStep
<1>6. CASE RecordTurn
  <2>1. UpTo(remembered', typed) /\ Holds(remembered', typed)
    BY <1>6, MemoryTakes
  <2>2. heard = Len(context) /\ UNCHANGED <<context, heard, nudges, disk, typed, named>>
        /\ replStage' = IF named THEN "saving" ELSE "printing"
    BY <1>0, <1>6 DEF RecordTurn, InStep
  <2>3. Later(remembered, heard)'
    BY <1>0, <2>2 DEF Later
  <2>4. replStage = "remembering"
    BY <1>6 DEF RecordTurn
  <2>5. QED
    BY <1>0, <2>1, <2>2, <2>3, <2>4 DEF InStep
<1>7. CASE TruncateFile
  <2>1. UpTo(disk', typed)
    BY <1>0, <1>7 DEF TruncateFile, TornFile, UpTo
  <2>2. Later(remembered, heard)' = Later(remembered, heard)
    BY <1>7 DEF Later, TruncateFile
  <2>3. QED
    BY <1>0, <1>7, <2>1, <2>2 DEF InStep, TruncateFile
<1>8. CASE FillFile \/ PrintAnswer
  <2>1. Later(remembered, heard)' = Later(remembered, heard)
    BY <1>8 DEF Later, FillFile, PrintAnswer
  <2>2. QED
    BY <1>0, <1>8, <2>1 DEF InStep, FillFile, PrintAnswer
<1>9. CASE Answered
  <2>1. /\ heard' = Len(context) /\ replStage = "asking" /\ replStage' = "remembering"
        /\ UNCHANGED <<named, context, began, nudges, disk, remembered, typed>>
    BY <1>9 DEF Answered
  <2>2. began < Len(context) /\ Later(remembered, began)
    BY <1>0, <2>1 DEF InStep
  <2>3. Later(remembered, heard)' /\ Later(remembered, began)'
    BY <1>0, <2>1, <2>2 DEF Later
  <2>4. QED
    BY <1>0, <2>1, <2>2, <2>3 DEF InStep
<1>10. QED
  BY <1>1, <1>2, <1>3, <1>4, <1>5, <1>6, <1>7, <1>8, <1>9, ReplCases

LEMMA ReplStepLimited ==
  ASSUME ReplInv, ReplNext
  PROVE  FollowUpsLimited'
<1> USE ReplAssumption
<1>0. /\ ReplTypeOK /\ InStep /\ context \in Seq(Nat) /\ typed \in Nat /\ IsFiniteSet(FollowUps)
      /\ Cardinality(FollowUps) \in Nat /\ Cardinality(FollowUps) <= MaxFollowUps
  BY ReplTypes DEF ReplInv, ReplSound, FollowUpsLimited
<1>1. ASSUME FollowUps' \subseteq FollowUps
      PROVE  FollowUpsLimited'
  <2>1. Cardinality(FollowUps') <= Cardinality(FollowUps) /\ Cardinality(FollowUps') \in Nat
    BY <1>0, <1>1, FS_Subset, FS_CardinalityType
  <2>2. QED
    BY <1>0, <2>1 DEF FollowUpsLimited
<1>2. ASSUME NEW with \in BOOLEAN, NEW ac \in Settings, LaunchRepl(with, ac)
      PROVE  FollowUpsLimited'
  <2>1. CASE with
    <3>1. FollowUps' = FollowUpsOf(disk) /\ disk # TornFile
      BY <1>2, <2>1 DEF LaunchRepl, FollowUps, FollowUpsOf, Holds
    <3>2. QED
      BY <3>1 DEF ReplInv, Stored, FollowUpsLimited
  <2>2. CASE ~ with
    <3>1. context' = << >>
      BY <1>2, <2>2 DEF LaunchRepl
    <3>2. FollowUps' = {}
      BY <3>1 DEF FollowUps
    <3>3. QED
      BY <1>1, <3>2
  <2>3. QED
    BY <2>1, <2>2
<1>3. ASSUME NEW response \in Responses, FollowedUp(response)
      PROVE  FollowUpsLimited'
  <2> DEFINE nudge == <<typed, Cardinality(FollowUps) + 1>>
  <2>1. FollowUps' \subseteq FollowUps \union {nudge}
    BY <1>3 DEF FollowedUp, FollowUps
  <2>2. Cardinality(FollowUps) < MaxFollowUps
    BY <1>3 DEF FollowedUp, Continues
  <2> HIDE DEF nudge
  <2>3. /\ Cardinality(FollowUps \union {nudge}) \in {Cardinality(FollowUps), Cardinality(FollowUps) + 1}
        /\ IsFiniteSet(FollowUps \union {nudge})
    BY <1>0, FS_AddElement
  <2>4. Cardinality(FollowUps') <= Cardinality(FollowUps \union {nudge}) /\ Cardinality(FollowUps') \in Nat
    BY <2>1, <2>3, FS_Subset, FS_CardinalityType
  <2>5. QED
    BY <1>0, <2>2, <2>3, <2>4 DEF FollowUpsLimited
<1>4. CASE TypeLine
  <2>1. \A n \in nudges : n[1] # typed + 1
    BY <1>0 DEF InStep, ReplTypeOK
  <2>2. \A i \in DOMAIN context' : context'[i] = typed + 1 \/ (i \in DOMAIN context /\ context'[i] = context[i])
    BY <1>0, <1>4 DEF TypeLine
  <2>3. FollowUps' \subseteq FollowUps
    BY <1>4, <2>1, <2>2 DEF TypeLine, FollowUps
  <2>4. QED
    BY <1>1, <2>3
<1>5. CASE Answered \/ TurnInterrupted \/ TurnThrows \/ RecordTurn \/ TruncateFile
  BY <1>1, <1>5 DEF FollowUps, Answered, TurnInterrupted, TurnThrows, RecordTurn, TruncateFile
<1>6. CASE FillFile \/ PrintAnswer \/ PressCtrlC \/ Leave \/ Kill
  BY <1>1, <1>6 DEF FollowUps, FillFile, PrintAnswer, PressCtrlC, Leave, Kill
<1>7. QED
  BY <1>2, <1>3, <1>4, <1>5, <1>6, ReplCases

LEMMA ReplStepStored ==
  ASSUME ReplInv, ReplNext
  PROVE  Stored' /\ ShownIsStored' /\ FileFollowsConversation' /\ RememberedOnce'
<1> USE ReplAssumption DEF BusyStages
<1>0. /\ ReplTypeOK /\ InStep /\ Stored /\ context \in Seq(Nat) /\ disk \in Seq(Nat)
      /\ remembered \in Seq(Nat) /\ typed \in Nat /\ IsFiniteSet(nudges)
      /\ ShownIsStored /\ FileFollowsConversation /\ RememberedOnce
  BY ReplTypes DEF ReplInv, ReplSound
<1> DEFINE Kept == Stored' /\ ShownIsStored' /\ FileFollowsConversation' /\ RememberedOnce'
<1>1. ASSUME UNCHANGED <<named, context, nudges, disk, remembered, shown>>,
             replStage' # "shell" => replStage # "shell"
      PROVE  Kept
  BY <1>0, <1>1 DEF Stored, ShownIsStored, FileFollowsConversation, RememberedOnce, FollowUpsOf
<1>2. CASE Answered \/ TurnInterrupted \/ TurnThrows \/ PressCtrlC \/ Leave \/ Kill
  BY <1>1, <1>2 DEF Answered, TurnInterrupted, TurnThrows, PressCtrlC, Leave, Kill
<1>3. ASSUME NEW with \in BOOLEAN, NEW ac \in Settings, LaunchRepl(with, ac)
      PROVE  Kept
  <2>1. /\ UNCHANGED <<nudges, disk, remembered, shown>> /\ (named' <=> with)
        /\ with => disk # TornFile /\ context' = disk
        /\ ~ with => context' = << >>
    BY <1>3 DEF LaunchRepl
  <2>2. Increasing(context')
    <3>1. Increasing(<< >>)
      BY DEF Increasing
    <3>2. QED
      BY <1>0, <2>1, <3>1 DEF Stored
  <2>3. with => IsPrefix(disk, context') /\ \A t \in shown : Holds(context', t)
    BY <1>0, <2>1, PrefixKept DEF ShownIsStored, Holds
  <2>4. FollowUpsOf(disk)' = FollowUpsOf(disk)
    BY <2>1 DEF FollowUpsOf
  <2>5. Stored'
    BY <1>0, <2>1, <2>3, <2>4 DEF Stored
  <2>6. ShownIsStored' /\ RememberedOnce'
    BY <1>0, <2>1 DEF ShownIsStored, RememberedOnce
  <2>7. FileFollowsConversation'
    BY <2>1, <2>2, <2>3 DEF FileFollowsConversation
  <2>8. QED
    BY <2>5, <2>6, <2>7
<1>4. ASSUME NEW response \in Responses, FollowedUp(response)
      PROVE  Kept
  <2>1. /\ UNCHANGED <<named, context, disk, remembered, shown>> /\ replStage = "asking" /\ replStage' = "asking"
        /\ nudges' = nudges \union {<<typed, Cardinality(FollowUps) + 1>>}
    BY <1>4 DEF FollowedUp
  <2>2. FollowUpsOf(disk)' = FollowUpsOf(disk)
    <3>1. \A i \in DOMAIN disk : disk[i] # typed
      BY <1>0, <2>1 DEF InStep, UpTo
    <3>2. QED
      BY <2>1, <3>1 DEF FollowUpsOf, Holds
  <2>3. Stored'
    BY <1>0, <2>1, <2>2 DEF Stored, Holds
  <2>4. ShownIsStored' /\ RememberedOnce' /\ FileFollowsConversation'
    BY <1>0, <2>1 DEF ShownIsStored, RememberedOnce, FileFollowsConversation
  <2>5. QED
    BY <2>3, <2>4
<1>5. CASE RecordTurn
  <2>1. UNCHANGED <<named, context, nudges, disk, shown>> /\ replStage # "shell"
    BY <1>5 DEF RecordTurn
  <2>2. Increasing(remembered') /\ \A t : Holds(remembered, t) => Holds(remembered', t)
    BY <1>5, MemoryTakes
  <2>3. RememberedOnce'
    BY <1>0, <2>1, <2>2 DEF RememberedOnce, Holds
  <2>4. QED
    BY <1>0, <2>1, <2>3 DEF Stored, ShownIsStored, FileFollowsConversation, FollowUpsOf
<1>6. CASE TruncateFile
  <2>1. UNCHANGED <<named, context, nudges, remembered, shown>> /\ replStage # "shell" /\ disk' = TornFile
    BY <1>6 DEF TruncateFile
  <2>2. QED
    BY <1>0, <2>1 DEF Stored, ShownIsStored, FileFollowsConversation, RememberedOnce
<1>7. CASE FillFile
  <2>1. /\ UNCHANGED <<named, context, nudges, remembered, shown>> /\ replStage # "shell" /\ disk' = context
        /\ named /\ replStage = "writing" /\ replStage' # "shell"
    BY <1>0, <1>7 DEF FillFile, InStep
  <2>2. FollowUpsOf(disk)' = FollowUps
    BY <2>1 DEF FollowUpsOf, FollowUps, Holds
  <2>3. context \in Seq(1 .. MaxReplTurns) /\ Increasing(context) /\ Cardinality(FollowUps) <= MaxFollowUps
    BY <1>0 DEF ReplTypeOK, FileFollowsConversation, ReplInv, ReplSound, FollowUpsLimited
  <2>4. \A t \in shown : Holds(context, t)
    BY <1>0, <2>1 DEF Stored
  <2>5. Stored'
    BY <2>1, <2>2, <2>3, <2>4 DEF Stored
  <2>6. ShownIsStored' /\ RememberedOnce'
    BY <1>0, <2>1, <2>4 DEF ShownIsStored, RememberedOnce, Holds
  <2>7. FileFollowsConversation'
    BY <1>0, <2>1, <2>3, PrefixKept DEF FileFollowsConversation
  <2>8. QED
    BY <2>5, <2>6, <2>7
<1>8. CASE PrintAnswer
  <2>1. /\ UNCHANGED <<named, context, nudges, disk, remembered>> /\ replStage = "printing"
        /\ shown' = IF named THEN shown \union {typed} ELSE shown
        /\ replStage' # "shell"
    BY <1>8 DEF PrintAnswer
  <2>2. Holds(context, typed) /\ Holds(remembered, typed) /\ (named => disk = context)
    <3>1. context # << >> /\ context[Len(context)] = typed
      BY <1>0, <2>1 DEF InStep
    <3>2. Len(context) \in DOMAIN context
      BY <1>0, <3>1
    <3>3. QED
      BY <1>0, <2>1, <3>1, <3>2 DEF InStep, Holds
  <2>3. Stored'
    BY <1>0, <2>1, <2>2 DEF Stored, FollowUpsOf
  <2>4. ShownIsStored'
    BY <1>0, <2>1, <2>2 DEF ShownIsStored, Holds
  <2>5. RememberedOnce'
    BY <1>0, <2>1, <2>2 DEF RememberedOnce, Holds
  <2>6. FileFollowsConversation'
    BY <1>0, <2>1 DEF FileFollowsConversation
  <2>7. QED
    BY <2>3, <2>4, <2>5, <2>6
<1>9. CASE TypeLine
  <2>1. /\ UNCHANGED <<named, nudges, disk, remembered, shown>> /\ replStage # "shell"
        /\ Increasing(context') /\ \A t : Holds(context, t) => Holds(context', t)
        /\ IsPrefix(disk, context) => IsPrefix(disk, context')
    BY <1>9, TypedIsLater DEF TypeLine, ReplInv
  <2>2. Stored'
    BY <1>0, <2>1 DEF Stored, FollowUpsOf
  <2>3. ShownIsStored' /\ RememberedOnce'
    BY <1>0, <2>1 DEF ShownIsStored, RememberedOnce
  <2>4. FileFollowsConversation'
    BY <1>0, <2>1 DEF FileFollowsConversation
  <2>5. QED
    BY <2>2, <2>3, <2>4
<1>10. QED
  BY <1>2, <1>3, <1>4, <1>5, <1>6, <1>7, <1>8, <1>9, ReplCases

LEMMA ReplStepHolds == ReplInv /\ [ReplNext]_replVars => ReplInv'
<1> SUFFICES ASSUME ReplInv, [ReplNext]_replVars PROVE ReplInv'
  OBVIOUS
<1>1. CASE ReplNext
  BY <1>1, ReplStepTyped, ReplStepInStep, ReplStepLimited, ReplStepStored DEF ReplInv, ReplSound
<1>2. CASE UNCHANGED replVars
  BY <1>2 DEF replVars, ReplInv, ReplTypeOK, InStep, Later, Stored, ReplSound, ShownIsStored,
     FileFollowsConversation, RememberedOnce, FollowUpsLimited, FollowUps, FollowUpsOf,
     Holds, UpTo
<1>3. QED
  BY <1>1, <1>2

\* The terminal's chat keeps its conversation, its file and its memory together,
\* however often it is interrupted, killed and resumed.
THEOREM ReplIsSound == ReplSpec => []ReplSound
<1>1. ReplInv => ReplSound
  BY DEF ReplInv
<1>2. QED
  BY <1>1, ReplInitHolds, ReplStepHolds, PTL DEF ReplSpec

-------------------------------------------------------------------------------
(* A line and what is read of it.                                            *)

AllFlags == ValueFlags \union BooleanFlags

\* Words, options that take a value and options that take none are three things.
LEMMA TokensApart ==
  /\ Words \intersect AllFlags = {}
  /\ ValueFlags \intersect BooleanFlags = {}
BY DEF Words, Empty, Fine, Odd, AllFlags, ValueFlags, BooleanFlags

\* What parseFlags accepts it has read to the last token.
LEMMA FlagsRead ==
  ASSUME NEW T, NEW l \in Seq(T), ParseFlags(l).complaints = {}, NEW i \in DOMAIN l
  PROVE  \/ l[i] \in BooleanFlags /\ l[i] \in DOMAIN FlagsOf(l)
         \/ /\ l[i] \in ValueFlags /\ i < Len(l) /\ l[i + 1] \in Words
            /\ (\A j \in i + 1 .. Len(l) : l[j] # l[i]) => FlagsOf(l)[l[i]] = l[i + 1]
         \/ l[i] \in Words /\ i > 1 /\ l[i - 1] \in ValueFlags
<1>0. Len(l) \in Nat /\ DOMAIN l = 1 .. Len(l)
  OBVIOUS
<1>1. /\ \A k \in DOMAIN l : l[k] \in ValueFlags => HasValue(l, k)
      /\ \A k \in DOMAIN l : l[k] \in ValueFlags \union BooleanFlags \union Words
      /\ \A k \in DOMAIN l : l[k] \in Words => k > 1 /\ HasValue(l, k - 1)
  <2> DEFINE A == {k \in DOMAIN l : l[k] \in ValueFlags /\ ~HasValue(l, k)}
             B == {k \in DOMAIN l : l[k] \notin ValueFlags \union BooleanFlags \union Words}
             C == {k \in DOMAIN l : l[k] \in Words /\ ~(k > 1 /\ HasValue(l, k - 1))}
  <2>1. ParseFlags(l).complaints =
          {"missing value" : k \in A} \union {"unknown option" : k \in B} \union {"unexpected" : k \in C}
    BY Zenon DEF ParseFlags
  <2> HIDE DEF A, B, C
  <2>2. A = {} /\ B = {} /\ C = {}
    BY <2>1
  <2>3. QED
    BY <2>2, Zenon DEF A, B, C
<1> DEFINE of(f) == {k \in DOMAIN l : l[k] = f /\ (f \in BooleanFlags \/ HasValue(l, k))}
           D == {g \in ValueFlags \union BooleanFlags : of(g) # {}}
<1>2. FlagsOf(l) = [f \in D |-> IF f \in BooleanFlags THEN Fine
                                ELSE l[1 + (CHOOSE k \in of(f) : \A j \in of(f) : j <= k)]]
  BY DEF FlagsOf
<1>3. DOMAIN FlagsOf(l) = D
  BY <1>2
<1>4. CASE l[i] \in BooleanFlags
  <2>1. i \in of(l[i])
    BY <1>4
  <2>2. l[i] \in D
    BY <1>4, <2>1
  <2>3. QED
    BY <1>3, <1>4, <2>2
<1>5. CASE l[i] \in ValueFlags
  <2>1. HasValue(l, i)
    BY <1>1, <1>5
  <2>2. i < Len(l) /\ l[i + 1] \in Words
    BY <2>1 DEF HasValue
  <2>3. ASSUME \A j \in i + 1 .. Len(l) : l[j] # l[i]
        PROVE  FlagsOf(l)[l[i]] = l[i + 1]
    <3>1. i \in of(l[i])
      BY <2>1
    <3>2. l[i] \in D /\ l[i] \notin BooleanFlags
      BY <1>5, <3>1, TokensApart
    <3>3. \A j \in of(l[i]) : j <= i /\ j \in Nat
      BY <1>0, <2>3
    <3> DEFINE m == CHOOSE k \in of(l[i]) : \A j \in of(l[i]) : j <= k
    <3>4. FlagsOf(l)[l[i]] = l[1 + m]
      BY <1>2, <3>2, Zenon
    <3>5. i \in Nat
      BY <1>0
    <3> HIDE DEF of
    <3>6. m \in of(l[i]) /\ \A j \in of(l[i]) : j <= m
      BY <3>1, <3>3
    <3>7. m = i
      BY <3>1, <3>3, <3>5, <3>6
    <3> HIDE DEF m
    <3>8. 1 + m = i + 1
      BY <3>5, <3>7
    <3>9. QED
      BY <3>4, <3>8
  <2>4. QED
    BY <1>5, <2>2, <2>3
<1>6. CASE l[i] \in Words
  BY <1>1, <1>6 DEF HasValue
<1>7. QED
  BY <1>1, <1>4, <1>5, <1>6

\* The place an entry of K has among them.
PlaceIn(K, i) == Cardinality({j \in K : j <= i})

LEMMA PositionsFinite ==
  ASSUME NEW n \in Nat, NEW K \in SUBSET (1 .. n)
  PROVE  /\ IsFiniteSet(K) /\ Cardinality(K) \in Nat
         /\ IsFiniteSet(1 .. n) /\ Cardinality(1 .. n) = n
<1>1. IsFiniteSet(1 .. n) /\ Cardinality(1 .. n) = n
  BY FS_Interval
<1>2. IsFiniteSet(K)
  BY <1>1, FS_Subset
<1>3. QED
  BY <1>1, <1>2, FS_CardinalityType

LEMMA RankRises ==
  ASSUME NEW n \in Nat, NEW K \in SUBSET (1 .. n)
  PROVE  /\ \A i \in K : PlaceIn(K, i) \in 1 .. Cardinality(K)
         /\ \A i, j \in K : i < j => PlaceIn(K, i) < PlaceIn(K, j)
         /\ \A i \in K : i + 1 \in K => PlaceIn(K, i + 1) = PlaceIn(K, i) + 1
<1> DEFINE Up(i) == {j \in K : j <= i}
<1>1. IsFiniteSet(K) /\ Cardinality(K) \in Nat
  BY PositionsFinite
<1>2. \A i : IsFiniteSet(Up(i)) /\ Cardinality(Up(i)) \in Nat /\ Cardinality(Up(i)) <= Cardinality(K)
  <2> SUFFICES ASSUME NEW i
               PROVE  IsFiniteSet(Up(i)) /\ Cardinality(Up(i)) \in Nat /\ Cardinality(Up(i)) <= Cardinality(K)
    OBVIOUS
  <2>1. Up(i) \in SUBSET K
    OBVIOUS
  <2> HIDE DEF Up
  <2>2. QED
    BY <1>1, <2>1, FS_Subset, FS_CardinalityType
<1>3. \A i : PlaceIn(K, i) = Cardinality(Up(i))
  BY DEF PlaceIn
<1>4. \A i \in K : i \in Up(i)
  OBVIOUS
<1>5. ASSUME NEW i \in K, NEW j \in K, i < j
      PROVE  Up(i) \union {j} \in SUBSET Up(j) /\ j \notin Up(i)
  <2>1. \A x \in K : x <= i => x <= j
    BY <1>5
  <2>2. j <= j /\ ~(j <= i)
    BY <1>5
  <2>3. QED
    BY <2>1, <2>2
<1>6. ASSUME NEW i \in K, i + 1 \in K
      PROVE  Up(i + 1) = Up(i) \union {i + 1} /\ i + 1 \notin Up(i)
  <2>1. \A x \in K : x <= i + 1 <=> (x <= i \/ x = i + 1)
    BY <1>6
  <2>2. ~(i + 1 <= i)
    BY <1>6
  <2>3. QED
    BY <1>6, <2>1, <2>2
<1> HIDE DEF Up
<1>7. \A i \in K : PlaceIn(K, i) \in 1 .. Cardinality(K)
  <2> SUFFICES ASSUME NEW i \in K PROVE PlaceIn(K, i) \in 1 .. Cardinality(K)
    OBVIOUS
  <2>1. Cardinality(Up(i)) # 0
    BY <1>2, <1>4, FS_EmptySet
  <2>2. QED
    BY <1>1, <1>2, <1>3, <2>1
<1>8. ASSUME NEW i \in K, NEW j \in K, i < j
      PROVE  PlaceIn(K, i) < PlaceIn(K, j)
  <2>1. Cardinality(Up(i) \union {j}) = Cardinality(Up(i)) + 1
    BY <1>2, <1>5, <1>8, FS_AddElement
  <2>2. Cardinality(Up(i) \union {j}) <= Cardinality(Up(j))
    BY <1>2, <1>5, <1>8, FS_Subset
  <2>3. QED
    BY <1>2, <1>3, <2>1, <2>2
<1>9. ASSUME NEW i \in K, i + 1 \in K
      PROVE  PlaceIn(K, i + 1) = PlaceIn(K, i) + 1
  <2>1. Up(i + 1) = Up(i) \union {i + 1} /\ i + 1 \notin Up(i)
    BY <1>6, <1>9
  <2>2. Cardinality(Up(i) \union {i + 1}) = Cardinality(Up(i)) + 1
    BY <1>2, <2>1, FS_AddElement
  <2>3. QED
    BY <1>3, <2>1, <2>2
<1>10. QED
  BY <1>7, <1>8, <1>9

LEMMA RankHits ==
  ASSUME NEW n \in Nat, NEW K \in SUBSET (1 .. n)
  PROVE  \A m \in 1 .. Cardinality(K) : \E i \in K : PlaceIn(K, i) = m
<1> DEFINE f == [i \in K |-> PlaceIn(K, i)]
<1>1. IsFiniteSet(K) /\ Cardinality(K) \in Nat
  BY PositionsFinite
<1>2. f \in [K -> 1 .. Cardinality(K)]
  BY RankRises
<1>3. \A a, b \in K : f[a] = f[b] => a = b
  <2> SUFFICES ASSUME NEW a \in K, NEW b \in K, PlaceIn(K, a) = PlaceIn(K, b) PROVE a = b
    OBVIOUS
  <2>1. PlaceIn(K, a) \in 1 .. Cardinality(K) /\ PlaceIn(K, b) \in 1 .. Cardinality(K)
    BY RankRises
  <2>2. (a < b => PlaceIn(K, a) < PlaceIn(K, b)) /\ (b < a => PlaceIn(K, b) < PlaceIn(K, a))
    BY RankRises
  <2>3. QED
    BY <1>1, <2>1, <2>2
<1> HIDE DEF f
<1>4. f \in Injection(K, 1 .. Cardinality(K))
  BY <1>2, <1>3, Zenon DEF Injection, IsInjective
<1>5. IsFiniteSet(1 .. Cardinality(K)) /\ Cardinality(1 .. Cardinality(K)) = Cardinality(K)
  BY <1>1, FS_Interval
<1>6. f \in Surjection(K, 1 .. Cardinality(K))
  BY <1>4, <1>5, FS_Injection
<1>7. \A m \in 1 .. Cardinality(K) : \E i \in K : f[i] = m
  BY <1>6, Zenon DEF Surjection
<1>8. QED
  BY <1>7 DEF f

\* w holds what l holds at the positions K, in their order.
InOrder(l, K, w) ==
  /\ w = [m \in 1 .. Cardinality(K) |-> w[m]]
  /\ \A m \in 1 .. Cardinality(K) : \E i \in K : w[m] = l[i]
  /\ \A i \in K : w[PlaceIn(K, i)] = l[i]

\* The tokens that are left when the loose ones are taken out stand as they stood.
Rest(l, loose, first, skipped) == Split(l, loose, first, skipped).flagArgs

LEMMA LeftInOrder ==
  ASSUME NEW l, Len(l) \in Nat, DOMAIN l = 1 .. Len(l),
         NEW loose, loose \subseteq DOMAIN l, NEW first, NEW skipped
  PROVE  InOrder(l, DOMAIN l \ loose, Rest(l, loose, first, skipped))
<1> DEFINE K == DOMAIN l \ loose
           at(m) == CHOOSE i \in K : PlaceIn(K, i) = m
           w == Rest(l, loose, first, skipped)
<1>1. Len(l) \in Nat /\ DOMAIN l = 1 .. Len(l) /\ K \in SUBSET (1 .. Len(l))
  OBVIOUS
<1>2. IsFiniteSet(DOMAIN l) /\ Cardinality(DOMAIN l) = Len(l) /\ IsFiniteSet(loose)
      /\ Cardinality(loose) \in Nat /\ loose = loose \intersect DOMAIN l
      /\ IsFiniteSet(K) /\ Cardinality(K) \in Nat
  <2>1. loose \in SUBSET (1 .. Len(l))
    BY <1>1
  <2>2. QED
    BY <1>1, <2>1, PositionsFinite
<1>3. Cardinality(K) = Len(l) - Cardinality(loose)
  <2>1. K = DOMAIN l \ loose /\ DOMAIN l \intersect loose = loose
    OBVIOUS
  <2>2. Cardinality(K) = Cardinality(DOMAIN l) - Cardinality(DOMAIN l \intersect loose)
    BY <1>2, FS_Difference
  <2>3. QED
    BY <1>2, <2>1, <2>2
<1>4. w = [m \in 1 .. Cardinality(K) |-> l[at(m)]]
  BY <1>3, Zenon DEF Rest, Split, PlaceIn
<1>5. \A m \in 1 .. Cardinality(K) : at(m) \in K /\ PlaceIn(K, at(m)) = m
  BY <1>1, RankHits
<1>6. \A i \in K : PlaceIn(K, i) \in 1 .. Cardinality(K) /\ at(PlaceIn(K, i)) = i
  <2> SUFFICES ASSUME NEW i \in K
               PROVE  PlaceIn(K, i) \in 1 .. Cardinality(K) /\ at(PlaceIn(K, i)) = i
    OBVIOUS
  <2> HIDE DEF K, at
  <2>1. PlaceIn(K, i) \in 1 .. Cardinality(K)
    BY <1>1, RankRises
  <2>2. at(PlaceIn(K, i)) \in K /\ PlaceIn(K, at(PlaceIn(K, i))) = PlaceIn(K, i)
    BY <1>5, <2>1
  <2>3. /\ at(PlaceIn(K, i)) < i => PlaceIn(K, at(PlaceIn(K, i))) < PlaceIn(K, i)
        /\ i < at(PlaceIn(K, i)) => PlaceIn(K, i) < PlaceIn(K, at(PlaceIn(K, i)))
    BY <1>1, <2>2, RankRises
  <2>4. at(PlaceIn(K, i)) \in Nat /\ i \in Nat
    <3>1. \A x \in K : x \in Nat
      BY <1>1
    <3>2. QED
      BY <2>2, <3>1, Zenon
  <2>5. PlaceIn(K, i) \in Int
    BY <2>1
  <2> DEFINE x == at(PlaceIn(K, i))
             p == PlaceIn(K, i)
             q == PlaceIn(K, x)
  <2>6. x \in Nat /\ p \in Int /\ q = p /\ (x < i => q < p) /\ (i < x => p < q)
    BY <2>2, <2>3, <2>4, <2>5
  <2> HIDE DEF x, p, q
  <2>7. x = i
    BY <2>4, <2>6
  <2>8. QED
    BY <2>1, <2>7 DEF x
<1> HIDE DEF w, at
<1>7. w = [m \in 1 .. Cardinality(K) |-> w[m]]
  BY <1>4
<1>8. \A m \in 1 .. Cardinality(K) : w[m] = l[at(m)]
  BY <1>4
<1>9. \A m \in 1 .. Cardinality(K) : \E i \in K : w[m] = l[i]
  BY <1>5, <1>8
<1>10. \A i \in K : w[PlaceIn(K, i)] = l[i]
  BY <1>4, <1>6
<1>11. QED
  BY <1>7, <1>9, <1>10, Zenon DEF w, K, InOrder

LEMMA RestTyped ==
  ASSUME NEW T, NEW l \in Seq(T), NEW loose \in SUBSET DOMAIN l, NEW first, NEW skipped
  PROVE  Rest(l, loose, first, skipped) \in Seq(T)
<1> DEFINE K == DOMAIN l \ loose
           w == Rest(l, loose, first, skipped)
<1>1. Len(l) \in Nat /\ DOMAIN l = 1 .. Len(l) /\ K \in SUBSET (1 .. Len(l))
  OBVIOUS
<1>0. InOrder(l, K, w)
  BY <1>1, LeftInOrder
<1>2. /\ w = [m \in 1 .. Cardinality(K) |-> w[m]]
      /\ \A m \in 1 .. Cardinality(K) : \E i \in K : w[m] = l[i]
  BY <1>0, Zenon DEF InOrder
<1>3. Cardinality(K) \in Nat
  BY <1>1, PositionsFinite
<1>4. \A i \in K : l[i] \in T
  OBVIOUS
<1>6. w \in [1 .. Cardinality(K) -> T]
  <2> HIDE DEF w, K
  <2>1. \A m \in 1 .. Cardinality(K) : w[m] \in T
    BY <1>2, <1>4
  <2>2. QED
    BY <1>2, <2>1
<1> HIDE DEF w, K
<1>7. w \in Seq(T)
  BY <1>3, <1>6
<1>8. QED
  BY <1>7 DEF w

\* An option that is not boolean takes the token behind it, unless it is itself
\* taken: the first pass of parseChatArgs.
Takes(l, i) == l[i] \notin Words \union BooleanFlags
TakenUpTo(l, n, X) == \A i \in 1 .. n : i \in X <=> i > 1 /\ Takes(l, i - 1) /\ i - 1 \notin X

LEMMA TakenExists ==
  ASSUME NEW l, NEW n \in Nat
  PROVE  \E X : TakenUpTo(l, n, X)
<1> DEFINE Fails == {m \in Nat : ~ \E X : TakenUpTo(l, m, X)}
<1>1. Fails = {}
  <2>1. SUFFICES ASSUME Fails # {} PROVE FALSE
    OBVIOUS
  <2>2. PICK m \in Fails : \A k \in Fails : m <= k
    BY <2>1, LeastExists
  <2>3. m # 0
    <3>1. TakenUpTo(l, 0, {})
      BY DEF TakenUpTo
    <3>2. QED
      BY <2>2, <3>1
  <2>4. m \in Nat /\ m - 1 \in Nat /\ m - 1 \notin Fails
    BY <2>2, <2>3
  <2>5. PICK X : TakenUpTo(l, m - 1, X)
    BY <2>4
  <2> DEFINE Y == {i \in 1 .. m : IF i < m THEN i \in X ELSE i > 1 /\ Takes(l, i - 1) /\ i - 1 \notin X}
  <2>6. \A i \in 1 .. m : i \in Y <=> (IF i < m THEN i \in X ELSE i > 1 /\ Takes(l, i - 1) /\ i - 1 \notin X)
    OBVIOUS
  <2> HIDE DEF Y
  <2>7. ASSUME NEW i \in 1 .. m
        PROVE  i \in Y <=> i > 1 /\ Takes(l, i - 1) /\ i - 1 \notin Y
    <3>1. i > 1 => (i - 1 \in Y <=> i - 1 \in X)
      <4>1. i > 1 => i - 1 \in 1 .. m /\ i - 1 < m
        BY <2>4
      <4>2. QED
        BY <2>6, <4>1
    <3>2. CASE i < m
      <4>1. i \in 1 .. m - 1
        BY <2>4, <3>2
      <4>2. i \in X <=> i > 1 /\ Takes(l, i - 1) /\ i - 1 \notin X
        BY <2>5, <4>1 DEF TakenUpTo
      <4>3. QED
        BY <2>6, <3>1, <3>2, <4>2
    <3>3. CASE ~(i < m)
      BY <2>6, <3>1, <3>3
    <3>4. QED
      BY <3>2, <3>3
  <2>8. TakenUpTo(l, m, Y)
    BY <2>7 DEF TakenUpTo
  <2>9. QED
    BY <2>2, <2>8
<1>2. QED
  BY <1>1

LEMMA BooleansEqual == \A P, Q \in BOOLEAN : (P <=> Q) => P = Q
OBVIOUS

LEMMA SwallowedIs ==
  ASSUME NEW T, NEW l \in Seq(T), NEW i \in DOMAIN l
  PROVE  Swallowed(l)[i] <=> i > 1 /\ Takes(l, i - 1) /\ ~Swallowed(l)[i - 1]
<1> DEFINE N == 1 .. Len(l)
           Step(at) == [k \in N |-> k > 1 /\ l[k - 1] \notin Words \union BooleanFlags /\ ~at[k - 1]]
<1>1. Swallowed(l) = CHOOSE at : at = Step(at)
  BY DEF Swallowed
<1>2. Len(l) \in Nat /\ i \in N
  OBVIOUS
<1>3. PICK X : TakenUpTo(l, Len(l), X)
  BY <1>2, TakenExists
<1> DEFINE at == [k \in N |-> k \in X]
<1>4. at = Step(at)
  <2>1. ASSUME NEW k \in N
        PROVE  (k \in X) = (k > 1 /\ l[k - 1] \notin Words \union BooleanFlags /\ ~at[k - 1])
    <3>1. k \in X <=> k > 1 /\ l[k - 1] \notin Words \union BooleanFlags /\ k - 1 \notin X
      BY <1>3, Zenon DEF TakenUpTo, Takes
    <3>2. k > 1 => k - 1 \in N
      BY <1>2
    <3>3. k > 1 => (at[k - 1] <=> k - 1 \in X)
      BY <3>2, Zenon
    <3>4. (k \in X) <=> (k > 1 /\ l[k - 1] \notin Words \union BooleanFlags /\ ~at[k - 1])
      BY <3>1, <3>3, Zenon
    <3>5. QED
      BY <3>4, BooleansEqual
  <2>2. QED
    BY <2>1, Zenon
<1> HIDE DEF at
<1>5. Swallowed(l) = Step(Swallowed(l))
  <2> HIDE DEF Step
  <2>1. QED
    BY <1>1, <1>4, Zenon
<1>6. Swallowed(l)[i] = (i > 1 /\ l[i - 1] \notin Words \union BooleanFlags /\ ~Swallowed(l)[i - 1])
  BY <1>2, <1>5, Zenon
<1>7. QED
  BY <1>6, Zenon DEF Takes

\* Token i of the line was read: as an option or its value.
Accepted(l, flags, i) ==
  \/ l[i] \in BooleanFlags /\ l[i] \in DOMAIN flags
  \/ /\ l[i] \in ValueFlags /\ i < Len(l) /\ l[i + 1] \in Words
     /\ (\A j \in i + 1 .. Len(l) : l[j] # l[i]) => flags[l[i]] = l[i + 1]
  \/ l[i] \in Words /\ i > 1 /\ l[i - 1] \in ValueFlags

\* What is not a loose word was, if parseFlags accepts the rest of the line.
LEMMA RestAccepted ==
  ASSUME NEW T, NEW l \in Seq(T), NEW first, NEW skipped,
         ParseFlags(Rest(l, LooseWords(l), first, skipped)).complaints = {},
         NEW i \in DOMAIN l \ LooseWords(l)
  PROVE  Accepted(l, FlagsOf(Rest(l, LooseWords(l), first, skipped)), i)
<1> DEFINE loose == LooseWords(l)
           K == DOMAIN l \ loose
           w == Rest(l, loose, first, skipped)
           R(k) == PlaceIn(K, k)
<1>1. Len(l) \in Nat /\ DOMAIN l = 1 .. Len(l) /\ K \in SUBSET (1 .. Len(l)) /\ loose \in SUBSET DOMAIN l
  BY DEF LooseWords
<1>7. i \in K /\ i \in 1 .. Len(l)
  BY <1>1
<1> HIDE DEF loose
<1>2. w \in Seq(T) /\ Len(w) = Cardinality(K) /\ \A k \in K : w[R(k)] = l[k]
  <2>1. loose \in SUBSET DOMAIN l /\ Len(l) \in Nat /\ DOMAIN l = 1 .. Len(l)
    BY <1>1
  <2>2. w \in Seq(T)
    BY <2>1, RestTyped, Zenon
  <2>3. InOrder(l, K, w)
    BY <2>1, LeftInOrder
  <2> HIDE DEF w, K
  <2>4. w = [m \in 1 .. Cardinality(K) |-> w[m]] /\ \A k \in K : w[R(k)] = l[k]
    BY <2>3, Zenon DEF InOrder
  <2>5. Cardinality(K) \in Nat
    BY <1>1, PositionsFinite
  <2>6. Len(w) = Cardinality(K)
    BY <2>4, <2>5
  <2>7. QED
    BY <2>2, <2>4, <2>6
<1>0. ParseFlags(w).complaints = {}
  BY DEF loose
<1> HIDE DEF w
<1>3. \A k \in 1 .. Len(l) : k \notin K <=> l[k] \in Words /\ ~Swallowed(l)[k]
  BY <1>1 DEF LooseWords, loose
<1>4. /\ \A k \in K : R(k) \in 1 .. Len(w)
      /\ \A j, k \in K : j < k => R(j) < R(k)
      /\ \A k \in K : k + 1 \in K => R(k + 1) = R(k) + 1
  BY <1>1, <1>2, RankRises, Zenon
<1>5. \A m \in 1 .. Len(w) : \E k \in K : R(k) = m
  <2> HIDE DEF K
  <2>1. \A m \in 1 .. Cardinality(K) : \E k \in K : PlaceIn(K, k) = m
    BY <1>1, RankHits
  <2>2. QED
    BY <1>2, <2>1, Zenon
<1>6. \A m \in 1 .. Len(w) :
        \/ w[m] \in BooleanFlags /\ w[m] \in DOMAIN FlagsOf(w)
        \/ /\ w[m] \in ValueFlags /\ m < Len(w) /\ w[m + 1] \in Words
           /\ (\A j \in m + 1 .. Len(w) : w[j] # w[m]) => FlagsOf(w)[w[m]] = w[m + 1]
        \/ w[m] \in Words /\ m > 1 /\ w[m - 1] \in ValueFlags
  <2>1. ParseFlags(w).complaints = {} /\ DOMAIN w = 1 .. Len(w)
    BY <1>0, <1>2
  <2>2. QED
    BY <1>2, <2>1, FlagsRead
<1> HIDE DEF K, R
<1>8. \A k \in K : k \in 1 .. Len(l) /\ k \in Nat
  BY <1>1
<1>9. Len(w) \in Nat /\ R(i) \in 1 .. Len(w) /\ w[R(i)] = l[i]
  BY <1>2, <1>4, <1>7
<1>10. CASE l[i] \in BooleanFlags
  <2>1. l[i] \in DOMAIN FlagsOf(w)
    BY <1>6, <1>9, <1>10, TokensApart DEF AllFlags
  <2>2. QED
    BY <1>10, <2>1 DEF Accepted, w, loose
<1>11. CASE l[i] \in ValueFlags
  <2>1. /\ R(i) < Len(w) /\ w[R(i) + 1] \in Words
        /\ (\A j \in R(i) + 1 .. Len(w) : w[j] # w[R(i)]) => FlagsOf(w)[w[R(i)]] = w[R(i) + 1]
    BY <1>6, <1>9, <1>11, TokensApart DEF AllFlags
  <2>2. PICK k \in K : R(k) = R(i) + 1
    BY <1>5, <1>9, <2>1
  <2>3. k > i
    <3>1. k < i => R(k) < R(i)
      BY <1>4, <1>7
    <3>2. k # i
      BY <1>9, <2>2
    <3>3. QED
      BY <1>7, <1>8, <1>9, <2>2, <3>1, <3>2
  <2>4. i + 1 \in 1 .. Len(l)
    BY <1>7, <1>8, <2>3
  <2>5. i + 1 \in K
    <3> SUFFICES ASSUME i + 1 \notin K PROVE FALSE
      OBVIOUS
    <3>1. ~Swallowed(l)[i + 1]
      BY <1>3, <2>4
    <3>2. Takes(l, i)
      BY <1>11, TokensApart DEF Takes, AllFlags
    <3>3. i + 1 - 1 = i /\ i + 1 > 1
      BY <1>7
    <3>4. Swallowed(l)[i]
      BY <1>1, <2>4, <3>1, <3>2, <3>3, SwallowedIs
    <3>5. i > 1 /\ Takes(l, i - 1)
      BY <1>1, <1>7, <3>4, SwallowedIs
    <3>6. i - 1 \in 1 .. Len(l) /\ l[i - 1] \notin Words \union BooleanFlags
      BY <1>7, <3>5 DEF Takes
    <3>7. i - 1 \in K
      BY <1>3, <3>6
    <3>8. i - 1 + 1 = i
      BY <1>7
    <3>9. R(i) = R(i - 1) + 1 /\ w[R(i - 1)] = l[i - 1] /\ R(i - 1) \in 1 .. Len(w)
      BY <1>2, <1>4, <1>7, <3>7, <3>8
    <3>10. w[R(i - 1) + 1] \in Words
      BY <1>6, <3>6, <3>9
    <3>11. QED
      BY <1>9, <1>11, <3>9, <3>10, TokensApart DEF AllFlags
  <2>6. R(i + 1) = R(i) + 1 /\ w[R(i) + 1] = l[i + 1]
    BY <1>2, <1>4, <1>7, <2>5
  <2>7. ASSUME \A j \in i + 1 .. Len(l) : l[j] # l[i]
        PROVE  FlagsOf(w)[l[i]] = l[i + 1]
    <3>1. ASSUME NEW j \in R(i) + 1 .. Len(w)
          PROVE  w[j] # w[R(i)]
      <4>1. j \in 1 .. Len(w) /\ j > R(i)
        BY <1>9
      <4>2. PICK x \in K : R(x) = j
        BY <1>5, <4>1
      <4>3. x < i => R(x) < R(i)
        BY <1>4, <1>7
      <4>4. x # i
        BY <1>9, <4>1, <4>2
      <4>5. x > i
        BY <1>7, <1>8, <1>9, <4>1, <4>2, <4>3, <4>4
      <4>6. x \in i + 1 .. Len(l)
        BY <1>7, <1>8, <4>5
      <4>7. w[j] = l[x]
        BY <1>2, <4>2
      <4>8. QED
        BY <1>9, <2>7, <4>6, <4>7
    <3>2. QED
      BY <1>9, <2>1, <2>6, <3>1
  <2>8. i < Len(l) /\ l[i + 1] \in Words
    BY <1>7, <2>1, <2>4, <2>6
  <2>9. QED
    BY <1>11, <2>7, <2>8 DEF Accepted, w, loose
<1>12. CASE l[i] \in Words
  <2>1. Swallowed(l)[i]
    BY <1>3, <1>7, <1>12
  <2>2. i > 1 /\ Takes(l, i - 1)
    BY <1>1, <1>7, <2>1, SwallowedIs
  <2>3. i - 1 \in 1 .. Len(l) /\ l[i - 1] \notin Words \union BooleanFlags
    BY <1>7, <2>2 DEF Takes
  <2>4. i - 1 \in K /\ i - 1 + 1 = i
    BY <1>3, <1>7, <2>3
  <2>5. R(i) = R(i - 1) + 1 /\ w[R(i - 1)] = l[i - 1] /\ R(i - 1) \in 1 .. Len(w)
    BY <1>2, <1>4, <1>7, <2>4
  <2>6. l[i - 1] \in ValueFlags
    BY <1>6, <2>3, <2>5
  <2>7. QED
    BY <1>12, <2>2, <2>6 DEF Accepted
<1>13. QED
  <2>1. w[R(i)] \in BooleanFlags \union ValueFlags \union Words
    BY <1>6, <1>9
  <2>2. QED
    BY <1>9, <1>10, <1>11, <1>12, <2>1

-------------------------------------------------------------------------------
(* The commands that are built of flags.                                     *)

\* What parseFlags makes of a line: values of options, and switches that are on.
IsFlagMap(flags) ==
  /\ DOMAIN flags \subseteq AllFlags
  /\ \A f \in DOMAIN flags : flags[f] \in Words /\ (f \in BooleanFlags => flags[f] = Fine)

\* Command c is what the flags ask for, with the options its handler needs.
BuiltAs(flags, c) ==
  LET has(fs) == fs \subseteq DOMAIN c.fields
      given(f) == f \in DOMAIN flags /\ flags[f] # Empty
      mode == EvolveMode(c.fields)
  IN  /\ c.kind \in CommandKinds
      /\ c.kind = "evolve" =>
           /\ mode = (CASE given("--list") -> "list"
                        [] ~given("--list") /\ given("--auto") -> "auto"
                        [] ~given("--list") /\ ~given("--auto") /\ given("--generate") -> "generate"
                        [] OTHER -> "compare")
           /\ mode \in {"auto", "generate", "compare"} =>
                has(ModelFlags \union {"--baseline-agent", "--suite"})
           /\ mode = "auto" => has({"--generate"})
           /\ mode = "list" => has({"--history"})
      /\ c.kind \in {"chat", "web"} => has(ModelFlags \union {"--agent"}) \/ has({"--resume"})
      /\ c.kind \in {"run", "benchmark"} => has(ModelFlags \union {"--agent"})
      /\ c.kind = "run" => has({"--task"})
      /\ c.kind = "benchmark" => has({"--suite"})
      /\ ~has({"--session", "--resume"})

\* A builder gives up only with a complaint, and without one builds such a command.
WellBuilt(flags, b) ==
  /\ b.command = NoCommand \/ b.command.kind \in CommandKinds
  /\ b.command = NoCommand => b.complaints # {}
  /\ b.command # NoCommand /\ b.complaints = {} => BuiltAs(flags, b.command)

\* A builder with required and optional options found one missing, or makes a
\* command of those that are given.
ResultOf(r, kind, flags, required, optional, complaints) ==
  \/ r = [command |-> NoCommand, complaints |-> {"missing option"}]
  \/ \E fields :
       /\ r = [command |-> [kind |-> kind, fields |-> fields], complaints |-> complaints]
       /\ DOMAIN fields = {f \in required \union optional : Truthy(OptionValue(flags, f))}
       /\ required \subseteq DOMAIN fields

LEMMA ResultIs ==
  ASSUME NEW kind, NEW flags, NEW required, NEW optional, NEW complaints
  PROVE  ResultOf(Result(kind, flags, required, optional, complaints),
                  kind, flags, required, optional, complaints)
<1> DEFINE fields == [f \in {g \in required \union optional : Truthy(OptionValue(flags, g))} |->
                        OptionValue(flags, f)]
           r == Result(kind, flags, required, optional, complaints)
           missing == MissingOption(flags, required)
<1>1. r = [command |-> IF missing = {} THEN [kind |-> kind, fields |-> fields] ELSE NoCommand,
           complaints |-> IF missing = {} THEN complaints ELSE {"missing option"}]
  BY DEF Result
<1>2. missing = {} => required \subseteq DOMAIN fields
  BY DEF MissingOption
<1>3. DOMAIN fields = {f \in required \union optional : Truthy(OptionValue(flags, f))}
  OBVIOUS
<1> HIDE DEF fields, r, missing
<1>4. CASE missing = {}
  BY <1>1, <1>2, <1>3, <1>4, Zenon DEF r, ResultOf
<1>5. CASE missing # {}
  BY <1>1, <1>5, Zenon DEF r, ResultOf
<1>6. QED
  BY <1>4, <1>5

\* What a flag with no default is worth.
LEMMA ValueOf ==
  ASSUME IsFlagMap(parsed.flags), defaults \subseteq Defaulted, NEW f, f \notin Defaulted
  PROVE  /\ OptionValue(parsed.flags, f) = StringFlag(parsed.flags, f)
         /\ Truthy(StringFlag(parsed.flags, f)) <=> f \in DOMAIN parsed.flags /\ parsed.flags[f] # Empty
<1>1. \A w \in Words : w # Absent
  BY DEF Words, Absent, Empty, Fine, Odd
<1>2. QED
  BY <1>1 DEF IsFlagMap, OptionValue, StringFlag, Truthy

LEMMA KindsApart ==
  ASSUME NEW kind \in CommandKinds, NEW fields
  PROVE  [kind |-> kind, fields |-> fields] # NoCommand
<1>1. "none" \notin CommandKinds
  BY DEF CommandKinds
<1>2. [kind |-> kind, fields |-> fields].kind = kind /\ NoCommand.kind = "none"
  BY DEF NoCommand
<1>3. QED
  BY <1>1, <1>2

LEMMA Decided ==
  ASSUME NEW kind \in CommandKinds, NEW flags, NEW required, NEW optional, NEW complaints,
         \A fields :
           /\ DOMAIN fields = {f \in required \union optional : Truthy(OptionValue(flags, f))}
           /\ required \subseteq DOMAIN fields
           /\ complaints = {}
           => BuiltAs(flags, [kind |-> kind, fields |-> fields])
  PROVE  WellBuilt(flags, Result(kind, flags, required, optional, complaints))
<1> DEFINE r == Result(kind, flags, required, optional, complaints)
<1>1. \/ r = [command |-> NoCommand, complaints |-> {"missing option"}]
      \/ \E fields :
           /\ r = [command |-> [kind |-> kind, fields |-> fields], complaints |-> complaints]
           /\ DOMAIN fields = {f \in required \union optional : Truthy(OptionValue(flags, f))}
           /\ required \subseteq DOMAIN fields
  <2>1. ResultOf(r, kind, flags, required, optional, complaints)
    BY ResultIs
  <2> HIDE DEF r
  <2>2. QED
    BY <2>1, Zenon DEF ResultOf
<1> HIDE DEF r
<1>2. CASE r = [command |-> NoCommand, complaints |-> {"missing option"}]
  <2>1. r.command = NoCommand /\ r.complaints # {}
    BY <1>2
  <2>2. QED
    BY <2>1 DEF WellBuilt, r
<1>3. ASSUME NEW fields,
             r = [command |-> [kind |-> kind, fields |-> fields], complaints |-> complaints],
             DOMAIN fields = {f \in required \union optional : Truthy(OptionValue(flags, f))},
             required \subseteq DOMAIN fields
      PROVE  WellBuilt(flags, r)
  <2>1. r.command = [kind |-> kind, fields |-> fields] /\ r.complaints = complaints
    BY <1>3
  <2>2. complaints = {} => BuiltAs(flags, r.command)
    BY <1>3, <2>1, Zenon
  <2>3. r.command # NoCommand
    BY <2>1, KindsApart
  <2>4. QED
    BY <2>1, <2>2, <2>3 DEF WellBuilt
<1>4. QED
  BY <1>1, <1>2, <1>3 DEF r

\* The commands whose options are all required, or all their own.
LEMMA PlainBuilt ==
  ASSUME NEW kind \in CommandKinds, kind \notin {"evolve", "chat", "web"},
         NEW flags, NEW required, NEW optional, NEW complaints,
         kind \in {"run", "benchmark"} => ModelFlags \union {"--agent"} \subseteq required,
         kind = "run" => "--task" \in required,
         kind = "benchmark" => "--suite" \in required,
         "--session" \notin required \union optional
  PROVE  WellBuilt(flags, Result(kind, flags, required, optional, complaints))
<1> SUFFICES ASSUME NEW fields,
                    DOMAIN fields = {f \in required \union optional : Truthy(OptionValue(flags, f))},
                    required \subseteq DOMAIN fields
             PROVE  BuiltAs(flags, [kind |-> kind, fields |-> fields])
  BY Decided, Zenon
<1> DEFINE c == [kind |-> kind, fields |-> fields]
<1>1. c.kind = kind /\ c.fields = fields
  OBVIOUS
<1> HIDE DEF c
<1>2. "--session" \notin DOMAIN c.fields /\ required \subseteq DOMAIN c.fields
  BY <1>1
<1>3. BuiltAs(flags, c)
  BY <1>1, <1>2 DEF BuiltAs
<1>4. QED
  BY <1>3 DEF c

LEMMA RefusalBuilt == \A flags, complaint : WellBuilt(flags, Refusal(complaint))
BY DEF WellBuilt, Refusal

LEMMA ChatBuilt ==
  ASSUME IsFlagMap(parsed.flags), defaults \subseteq Defaulted
  PROVE  /\ WellBuilt(parsed.flags, BuildChat(parsed.flags))
         /\ WellBuilt(parsed.flags, BuildWeb(parsed.flags))
<1> DEFINE fl == parsed.flags
           resuming == Truthy(StringFlag(fl, "--resume"))
           needed == ModelFlags \union {"--agent"}
           required == IF resuming THEN {} ELSE needed
           optional == {"--api-key", "--session", "--resume", "--session-dir", "--tool-profile"}
                         \union (IF resuming THEN needed ELSE {})
           complaints == If(BadProfile(fl), "tool profile")
                           \union If(resuming /\ Truthy(StringFlag(fl, "--session")), "session and resume")
<1>1. BuildChat(fl) = Result("chat", fl, required, optional, complaints)
  BY DEF BuildChat
<1>2. "chat" \in CommandKinds /\ "web" \in CommandKinds
  BY DEF CommandKinds
<1>3. "--session" \notin Defaulted /\ "--resume" \notin Defaulted
  BY DEF Defaulted, ModelFlags
<1>4. /\ OptionValue(fl, "--session") = StringFlag(fl, "--session")
      /\ OptionValue(fl, "--resume") = StringFlag(fl, "--resume")
  BY <1>3, ValueOf
<1>5. ASSUME NEW fields, NEW kind \in {"chat", "web"},
             DOMAIN fields = {f \in required \union optional : Truthy(OptionValue(fl, f))},
             required \subseteq DOMAIN fields, complaints = {}
      PROVE  BuiltAs(fl, [kind |-> kind, fields |-> fields])
  <2> DEFINE c == [kind |-> kind, fields |-> fields]
  <2>1. c.kind = kind /\ c.fields = fields /\ kind \in CommandKinds
    BY <1>2
  <2>2. ~(resuming /\ Truthy(StringFlag(fl, "--session")))
    BY <1>5 DEF If
  <2>3. ~({"--session", "--resume"} \subseteq DOMAIN fields)
    BY <1>4, <1>5, <2>2
  <2>4. needed \subseteq DOMAIN fields \/ {"--resume"} \subseteq DOMAIN fields
    <3>1. CASE resuming
      <4>1. "--resume" \in required \union optional
        OBVIOUS
      <4>2. "--resume" \in DOMAIN fields
        BY <1>4, <1>5, <3>1, <4>1, Zenon
      <4>3. QED
        BY <4>2
    <3>2. CASE ~resuming
      BY <1>5, <3>2
    <3>3. QED
      BY <3>1, <3>2
  <2> HIDE DEF c, resuming, required, optional, complaints
  <2>5. BuiltAs(fl, c)
    BY <1>5, <2>1, <2>3, <2>4 DEF BuiltAs
  <2>6. QED
    BY <2>5 DEF c
<1> HIDE DEF resuming, required, optional, complaints
<1>6. WellBuilt(fl, BuildChat(fl))
  BY <1>1, <1>2, <1>5, Decided
<1>7. WellBuilt(fl, BuildWeb(fl))
  <2> DEFINE chat == BuildChat(fl)
             web == [command |-> [chat.command EXCEPT !.kind = "web"],
                     complaints |-> chat.complaints \union If(BadPort(fl), "port")]
  <2>1. BuildWeb(fl) = IF chat.command = NoCommand THEN chat ELSE web
    BY DEF BuildWeb
  <2>2. \/ chat = [command |-> NoCommand, complaints |-> {"missing option"}]
        \/ \E fields :
             /\ chat = [command |-> [kind |-> "chat", fields |-> fields], complaints |-> complaints]
             /\ DOMAIN fields = {f \in required \union optional : Truthy(OptionValue(fl, f))}
             /\ required \subseteq DOMAIN fields
    <3>1. ResultOf(chat, "chat", fl, required, optional, complaints)
      BY <1>1, ResultIs
    <3> HIDE DEF chat, web
    <3>2. QED
      BY <3>1, Zenon DEF ResultOf
  <2> HIDE DEF chat
  <2>3. CASE chat = [command |-> NoCommand, complaints |-> {"missing option"}]
    <3>1. BuildWeb(fl) = BuildChat(fl)
      <4>1. chat.command = NoCommand
        BY <2>3
      <4>2. BuildWeb(fl) = chat
        BY <2>1, <4>1, Zenon
      <4>3. QED
        BY <4>2 DEF chat
    <3>2. QED
      BY <1>6, <3>1
  <2>4. ASSUME NEW fields,
               chat = [command |-> [kind |-> "chat", fields |-> fields], complaints |-> complaints],
               DOMAIN fields = {f \in required \union optional : Truthy(OptionValue(fl, f))},
               required \subseteq DOMAIN fields
        PROVE  WellBuilt(fl, BuildWeb(fl))
    <3>1. chat.command = [kind |-> "chat", fields |-> fields] /\ chat.complaints = complaints
      BY <2>4
    <3>2. chat.command # NoCommand
      BY <1>2, <3>1, KindsApart
    <3>3. [chat.command EXCEPT !.kind = "web"] = [kind |-> "web", fields |-> fields]
      BY <3>1
    <3>4. web.command = [kind |-> "web", fields |-> fields] /\ (web.complaints = {} => complaints = {})
      BY <3>1, <3>3
    <3>5. BuildWeb(fl) = web
      BY <2>1, <3>2
    <3> HIDE DEF web
    <3>6. web.complaints = {} => BuiltAs(fl, web.command)
      BY <1>5, <2>4, <3>4
    <3>7. web.command # NoCommand
      BY <1>2, <3>4, KindsApart
    <3>8. web.command.kind \in CommandKinds
      BY <1>2, <3>4
    <3>9. QED
      BY <3>5, <3>6, <3>7, <3>8 DEF WellBuilt
  <2>5. QED
    BY <2>2, <2>3, <2>4
<1>8. QED
  BY <1>6, <1>7

\* The modes of evolve: what its builder puts in is what its handler looks for.
LEMMA EvolveCommonBuilt ==
  ASSUME IsFlagMap(parsed.flags), defaults \subseteq Defaulted,
         NEW more, more \in {{"--auto", "--generate"}, {"--generate"}},
         "--list" \notin DOMAIN parsed.flags,
         Truthy(StringFlag(parsed.flags, "--generate")),
         "--auto" \in more <=> Truthy(StringFlag(parsed.flags, "--auto"))
  PROVE  WellBuilt(parsed.flags, BuildEvolveCommon(parsed.flags, more))
<1> DEFINE fl == parsed.flags
           bad == If(BadProfile(fl), "tool profile") \union If(BadReportFormat(fl), "report format")
           required == ModelFlags \union {"--baseline-agent", "--suite"}
           optional == more \union {"--history", "--report", "--api-key"}
           r == Result("evolve", fl, required, optional, bad)
<1>1. BuildEvolveCommon(fl, more) = [r EXCEPT !.complaints = @ \union bad]
  BY DEF BuildEvolveCommon
<1>2. "evolve" \in CommandKinds
  BY DEF CommandKinds
<1>3. "--auto" \notin Defaulted /\ "--generate" \notin Defaulted
  BY DEF Defaulted, ModelFlags
<1>4. /\ OptionValue(fl, "--auto") = StringFlag(fl, "--auto")
      /\ OptionValue(fl, "--generate") = StringFlag(fl, "--generate")
      /\ Truthy(StringFlag(fl, "--auto")) <=> "--auto" \in DOMAIN fl /\ fl["--auto"] # Empty
      /\ "--generate" \in DOMAIN fl /\ fl["--generate"] # Empty
  BY <1>3, ValueOf
<1>5. ASSUME NEW fields,
             DOMAIN fields = {f \in required \union optional : Truthy(OptionValue(fl, f))},
             required \subseteq DOMAIN fields
      PROVE  BuiltAs(fl, [kind |-> "evolve", fields |-> fields])
  <2> DEFINE c == [kind |-> "evolve", fields |-> fields]
  <2>1. c.kind = "evolve" /\ c.fields = fields
    OBVIOUS
  <2>2. "--generate" \in DOMAIN fields
    BY <1>4, <1>5
  <2>3. "--list" \notin DOMAIN fields /\ "--session" \notin DOMAIN fields
    BY <1>5 DEF ModelFlags
  <2>4. "--auto" \in DOMAIN fields <=> "--auto" \in more
    <3>1. "--auto" \notin required \union {"--history", "--report", "--api-key"}
      BY DEF ModelFlags
    <3>2. QED
      BY <1>4, <1>5, <3>1
  <2> HIDE DEF c, optional
  <2>5. EvolveMode(fields) = IF "--auto" \in more THEN "auto" ELSE "generate"
    BY <1>5, <2>2, <2>3, <2>4 DEF EvolveMode
  <2>6. BuiltAs(fl, c)
    BY <1>2, <1>4, <1>5, <2>1, <2>2, <2>3, <2>5 DEF BuiltAs
  <2>7. QED
    BY <2>6 DEF c
<1> HIDE DEF required, optional, bad, r
<1>6. WellBuilt(fl, r)
  BY <1>2, <1>5, Decided DEF r
<1>7. ResultOf(r, "evolve", fl, required, optional, bad)
  BY ResultIs DEF r
<1>8. r = [command |-> r.command, complaints |-> r.complaints]
  BY <1>7, Zenon DEF ResultOf
<1>9. /\ [r EXCEPT !.complaints = @ \union bad].command = r.command
      /\ [r EXCEPT !.complaints = @ \union bad].complaints = r.complaints \union bad
  BY <1>8
<1>10. QED
  BY <1>1, <1>6, <1>9 DEF WellBuilt

LEMMA EvolveBuilt ==
  ASSUME IsFlagMap(parsed.flags), defaults \subseteq Defaulted
  PROVE  WellBuilt(parsed.flags, BuildEvolve(parsed.flags))
<1> DEFINE fl == parsed.flags
           auto == StringFlag(fl, "--auto")
           generate == Truthy(StringFlag(fl, "--generate"))
           wrong == If(auto = Odd, "auto")
           list == "--list" \in DOMAIN fl
           bad == If(BadProfile(fl), "tool profile") \union If(BadReportFormat(fl), "report format")
           required == ModelFlags \union {"--baseline-agent", "--candidate-agent", "--suite"}
           optional == {"--history", "--report", "--api-key"}
           compare == Result("evolve", fl, required, optional, bad)
           rest ==
             CASE list -> BuildEvolveList(fl)
               [] ~list /\ auto = Fine /\ ~generate -> Refusal("generate")
               [] ~list /\ auto = Fine /\ generate -> BuildEvolveCommon(fl, {"--auto", "--generate"})
               [] ~list /\ auto # Fine /\ generate -> BuildEvolveCommon(fl, {"--generate"})
               [] OTHER -> compare
<1>1. BuildEvolve(fl) = [rest EXCEPT !.complaints = @ \union wrong]
  BY DEF BuildEvolve
<1>2. "evolve" \in CommandKinds
  BY DEF CommandKinds
<1>3. "--auto" \notin Defaulted /\ "--generate" \notin Defaulted /\ "--list" \notin Defaulted
      /\ "--history" \notin Defaulted
  BY DEF Defaulted, ModelFlags
<1>4. /\ OptionValue(fl, "--auto") = auto
      /\ Truthy(auto) <=> "--auto" \in DOMAIN fl /\ fl["--auto"] # Empty
      /\ generate <=> "--generate" \in DOMAIN fl /\ fl["--generate"] # Empty
      /\ Truthy(StringFlag(fl, "--history")) <=> "--history" \in DOMAIN fl /\ fl["--history"] # Empty
  BY <1>3, ValueOf
<1>5. auto \in {Absent, Empty, Fine, Odd} /\ (Truthy(auto) <=> auto \in {Fine, Odd})
  BY DEF IsFlagMap, StringFlag, Words, Truthy, Absent, Empty, Fine, Odd
<1>6. list => fl["--list"] # Empty
  BY DEF IsFlagMap, BooleanFlags, Fine, Empty
<1>7. ASSUME NEW b, NEW cmd, NEW complaints,
             b = [command |-> cmd, complaints |-> complaints],
             cmd = NoCommand \/ cmd.kind \in CommandKinds,
             cmd = NoCommand => complaints # {},
             cmd # NoCommand /\ complaints = {} /\ auto # Odd => BuiltAs(fl, cmd)
      PROVE  WellBuilt(fl, [b EXCEPT !.complaints = @ \union wrong])
  <2>1. /\ [b EXCEPT !.complaints = @ \union wrong].command = cmd
        /\ [b EXCEPT !.complaints = @ \union wrong].complaints = complaints \union wrong
    BY <1>7
  <2>2. complaints \union wrong = {} => complaints = {} /\ auto # Odd
    BY DEF If
  <2> HIDE DEF wrong
  <2>3. QED
    BY <1>7, <2>1, <2>2 DEF WellBuilt
<1>8. ASSUME NEW b, b = [command |-> b.command, complaints |-> b.complaints], WellBuilt(fl, b)
      PROVE  WellBuilt(fl, [b EXCEPT !.complaints = @ \union wrong])
  <2> HIDE DEF wrong, auto
  <2>1. QED
    BY <1>7, <1>8 DEF WellBuilt
<1>9. \A complaint : Refusal(complaint) = [command |-> Refusal(complaint).command,
                                           complaints |-> Refusal(complaint).complaints]
  BY DEF Refusal
<1> HIDE DEF wrong, bad, compare
<1>10. CASE list
  <2>1. rest = BuildEvolveList(fl)
    BY <1>10
  <2> DEFINE fields == [f \in {"--list", "--history"} |-> fl[f]]
  <2>2. CASE Truthy(StringFlag(fl, "--history"))
    <3>1. rest = [command |-> [kind |-> "evolve", fields |-> fields], complaints |-> bad]
      BY <2>1, <2>2 DEF BuildEvolveList, bad
    <3> DEFINE c == [kind |-> "evolve", fields |-> fields]
    <3>2. c.kind = "evolve" /\ c.fields = fields /\ DOMAIN fields = {"--list", "--history"}
      OBVIOUS
    <3> HIDE DEF c, fields, rest
    <3>3. EvolveMode(fields) = "list"
      BY <3>2 DEF EvolveMode
    <3>4. BuiltAs(fl, c)
      BY <1>2, <1>6, <1>10, <3>2, <3>3 DEF BuiltAs
    <3>5. c # NoCommand
      BY <1>2, KindsApart DEF c
    <3>6. c.kind \in CommandKinds
      BY <1>2, <3>2
    <3>7. rest = [command |-> c, complaints |-> bad]
      BY <3>1 DEF c
    <3>8. WellBuilt(fl, [rest EXCEPT !.complaints = @ \union wrong])
      BY <1>7, <3>4, <3>5, <3>6, <3>7
    <3>9. QED
      BY <1>1, <3>8
  <2>3. CASE ~Truthy(StringFlag(fl, "--history"))
    <3>1. rest = Refusal("history")
      BY <2>1, <2>3 DEF BuildEvolveList
    <3> HIDE DEF rest
    <3>2. QED
      BY <1>1, <1>8, <1>9, <3>1, RefusalBuilt
  <2>4. QED
    BY <2>2, <2>3
<1>11. CASE ~list /\ auto = Fine /\ ~generate
  <2>1. rest = Refusal("generate")
    BY <1>11
  <2> HIDE DEF rest
  <2>2. QED
    BY <1>1, <1>8, <1>9, <2>1, RefusalBuilt
<1>12. ASSUME NEW more, ~list, generate, rest = BuildEvolveCommon(fl, more),
              more \in {{"--auto", "--generate"}, {"--generate"}},
              "--auto" \in more <=> auto = Fine
       PROVE  WellBuilt(fl, BuildEvolve(fl))
  <2>1. BuildEvolveCommon(fl, more) = [command |-> BuildEvolveCommon(fl, more).command,
                                       complaints |-> BuildEvolveCommon(fl, more).complaints]
    <3> DEFINE r == Result("evolve", fl, ModelFlags \union {"--baseline-agent", "--suite"},
                           more \union {"--history", "--report", "--api-key"}, bad)
    <3>1. BuildEvolveCommon(fl, more) = [r EXCEPT !.complaints = @ \union bad]
      BY DEF BuildEvolveCommon, bad
    <3>2. r = [command |-> r.command, complaints |-> r.complaints]
      BY DEF Result
    <3> HIDE DEF r
    <3>3. QED
      BY <3>1, <3>2
  <2>2. CASE auto = Odd
    <3>1. WellBuilt(fl, [BuildEvolveCommon(fl, more) EXCEPT !.complaints = @ \union wrong])
      <4>1. wrong # {}
        BY <2>2 DEF wrong, If
      <4> DEFINE b == BuildEvolveCommon(fl, more)
      <4>2. /\ [b EXCEPT !.complaints = @ \union wrong].complaints = b.complaints \union wrong
            /\ [b EXCEPT !.complaints = @ \union wrong].command = b.command
        BY <2>1
      <4>3. b.command = NoCommand \/ b.command.kind \in CommandKinds
        <5> DEFINE needed == ModelFlags \union {"--baseline-agent", "--suite"}
                   more2 == more \union {"--history", "--report", "--api-key"}
                   r == Result("evolve", fl, needed, more2, bad)
        <5>1. b = [r EXCEPT !.complaints = @ \union bad]
          BY DEF BuildEvolveCommon, bad
        <5>2. ResultOf(r, "evolve", fl, needed, more2, bad)
          BY ResultIs
        <5> HIDE DEF r, b, needed, more2
        <5>3. \/ r = [command |-> NoCommand, complaints |-> {"missing option"}]
              \/ \E fields : r = [command |-> [kind |-> "evolve", fields |-> fields], complaints |-> bad]
          BY <5>2, Zenon DEF ResultOf
        <5>4. r.command = NoCommand \/ r.command.kind = "evolve"
          <6>1. ASSUME NEW fields,
                       r = [command |-> [kind |-> "evolve", fields |-> fields], complaints |-> bad]
                PROVE  r.command.kind = "evolve"
            <7>1. r.command = [kind |-> "evolve", fields |-> fields]
              BY <6>1
            <7>2. QED
              BY <7>1
          <6>2. ASSUME r = [command |-> NoCommand, complaints |-> {"missing option"}]
                PROVE  r.command = NoCommand
            BY <6>2
          <6>3. QED
            BY <5>3, <6>1, <6>2, Zenon
        <5>5. b.command = r.command
          BY <5>1, <5>3
        <5>6. QED
          BY <1>2, <5>4, <5>5
      <4> HIDE DEF b
      <4>4. QED
        BY <4>1, <4>2, <4>3 DEF WellBuilt, b
    <3>2. QED
      BY <1>1, <1>12, <3>1
  <2>3. CASE auto # Odd
    <3>1. "--auto" \in more <=> Truthy(auto)
      BY <1>5, <1>12, <2>3
    <3>2. WellBuilt(fl, BuildEvolveCommon(fl, more))
      BY <1>12, <3>1, EvolveCommonBuilt
    <3> HIDE DEF rest
    <3>3. QED
      BY <1>1, <1>8, <1>12, <2>1, <3>2
  <2>4. QED
    BY <2>2, <2>3
<1>13. CASE ~list /\ generate
  <2>1. CASE auto = Fine
    <3>1. rest = BuildEvolveCommon(fl, {"--auto", "--generate"})
      BY <1>13, <2>1
    <3> HIDE DEF rest, auto, generate, list
    <3>2. QED
      BY <1>12, <1>13, <2>1, <3>1
  <2>2. CASE auto # Fine
    <3>1. rest = BuildEvolveCommon(fl, {"--generate"})
      BY <1>13, <2>2
    <3> HIDE DEF rest, auto, generate, list
    <3>2. QED
      BY <1>12, <1>13, <2>2, <3>1
  <2>3. QED
    BY <2>1, <2>2
<1>14. CASE ~list /\ auto # Fine /\ ~generate
  <2>1. rest = compare
    BY <1>14
  <2>2. ResultOf(compare, "evolve", fl, required, optional, bad)
    BY ResultIs DEF compare, bad
  <2> HIDE DEF rest
  <2>3. CASE compare = [command |-> NoCommand, complaints |-> {"missing option"}]
    <3>1. WellBuilt(fl, [compare EXCEPT !.complaints = @ \union wrong])
      <4>1. NoCommand = NoCommand /\ {"missing option"} # {}
        OBVIOUS
      <4>2. QED
        BY <1>7, <2>3, <4>1
    <3>2. QED
      BY <1>1, <2>1, <3>1
  <2>4. ASSUME NEW fields,
               compare = [command |-> [kind |-> "evolve", fields |-> fields], complaints |-> bad],
               DOMAIN fields = {f \in required \union optional : Truthy(OptionValue(fl, f))},
               required \subseteq DOMAIN fields
        PROVE  WellBuilt(fl, [compare EXCEPT !.complaints = @ \union wrong])
    <3> DEFINE c == [kind |-> "evolve", fields |-> fields]
    <3>1. c.kind = "evolve" /\ c.fields = fields
      OBVIOUS
    <3>2. /\ "--list" \notin DOMAIN fields /\ "--auto" \notin DOMAIN fields
          /\ "--generate" \notin DOMAIN fields /\ "--session" \notin DOMAIN fields
      BY <2>4 DEF ModelFlags
    <3>3. {"--candidate-agent", "--baseline-agent", "--suite"} \subseteq DOMAIN fields
          /\ ModelFlags \union {"--baseline-agent", "--suite"} \subseteq DOMAIN fields
      BY <2>4
    <3> HIDE DEF c, required, optional
    <3>4. EvolveMode(fields) = "compare"
      BY <3>2, <3>3 DEF EvolveMode
    <3>5. auto # Odd => ~Truthy(auto)
      BY <1>5, <1>14
    <3>6. auto # Odd => BuiltAs(fl, c)
      <4>1. ~("--list" \in DOMAIN fl) /\ ~("--generate" \in DOMAIN fl /\ fl["--generate"] # Empty)
        BY <1>4, <1>14
      <4>2. auto # Odd => ~("--auto" \in DOMAIN fl /\ fl["--auto"] # Empty)
        BY <1>4, <3>5
      <4> HIDE DEF auto, generate, list
      <4>3. QED
        BY <1>2, <3>1, <3>2, <3>3, <3>4, <4>1, <4>2 DEF BuiltAs
    <3>7. c # NoCommand
      BY <1>2, KindsApart DEF c
    <3>8. c.kind \in CommandKinds
      BY <1>2, <3>1
    <3>9. compare = [command |-> c, complaints |-> bad]
      BY <2>4 DEF c
    <3> HIDE DEF auto
    <3>10. QED
      BY <1>7, <3>6, <3>7, <3>8, <3>9
  <2>5. QED
    BY <1>1, <2>1, <2>2, <2>3, <2>4, Zenon DEF ResultOf
<1>15. QED
  BY <1>10, <1>11, <1>13, <1>14

\* Whatever the command, its builder does.
LEMMA BuildSound ==
  ASSUME IsFlagMap(parsed.flags), defaults \subseteq Defaulted, NEW kind \in CommandKinds
  PROVE  WellBuilt(parsed.flags, Build(kind, parsed))
<1> DEFINE fl == parsed.flags
           profile == If(BadProfile(fl), "tool profile")
           report == If(BadReportFormat(fl), "report format")
<1>1. CASE kind = "models.discover"
  <2>1. WellBuilt(fl, Result(kind, fl, {"--provider", "--base-url"}, {"--api-key"}, {}))
    BY <1>1, PlainBuilt
  <2>2. QED
    BY <1>1, <2>1 DEF Build, BuildModelsDiscover
<1>2. CASE kind \in {"mcp.status", "mcp.diagnostics"}
  <2>1. WellBuilt(fl, Result(kind, fl, {}, {}, {}))
    BY <1>2, PlainBuilt
  <2>2. QED
    BY <1>2, <2>1 DEF Build, BuildMcp
<1>3. CASE kind \in {"chat", "web"}
  BY <1>3, ChatBuilt DEF Build
<1>4. CASE kind = "run"
  <2> HIDE DEF profile
  <2>1. WellBuilt(fl, Result(kind, fl, ModelFlags \union {"--agent", "--task"}, {"--api-key"}, profile))
    <3> HIDE DEF fl
    <3>1. QED
      BY <1>4, PlainBuilt DEF ModelFlags
  <2>2. QED
    BY <1>4, <2>1 DEF Build, BuildRun, profile
<1>5. CASE kind = "benchmark"
  <2> HIDE DEF profile, report
  <2>1. WellBuilt(fl, Result(kind, fl, ModelFlags \union {"--agent", "--suite"}, {"--api-key", "--report"},
                             profile \union report))
    <3> HIDE DEF fl
    <3>1. QED
      BY <1>5, PlainBuilt DEF ModelFlags
  <2>2. QED
    BY <1>5, <2>1 DEF Build, BuildBenchmark, profile, report
<1>6. CASE kind = "evolve"
  BY <1>6, EvolveBuilt DEF Build
<1>7. CASE kind = "replay"
  <2>1. WellBuilt(fl, Result(kind, fl, {"--trace"}, {"--run-id"}, {}))
    BY <1>7, PlainBuilt
  <2>2. WellBuilt(fl, Refusal("missing option"))
    BY RefusalBuilt
  <2>3. QED
    BY <1>7, <2>1, <2>2 DEF Build, BuildReplay
<1>8. CASE kind = "diff"
  <2>1. WellBuilt(fl, Result(kind, fl, {"--left", "--right"}, {}, {}))
    BY <1>8, PlainBuilt
  <2>2. QED
    BY <1>8, <2>1 DEF Build, BuildDiff
<1>9. CASE kind \in {"sop.list", "sop.run", "sop.import", "sop.deposit"}
  <2>1. WellBuilt(fl, Result(kind, fl, {}, {"--sop-dir", "--output-dir", "--skill-bank"}, {}))
    BY <1>9, PlainBuilt
  <2>2. WellBuilt(fl, Refusal("argument"))
    BY RefusalBuilt
  <2>3. Build(kind, parsed) = BuildSop(kind, fl, parsed.positional)
    BY <1>9 DEF Build
  <2>4. QED
    BY <2>1, <2>2, <2>3 DEF BuildSop
<1>10. QED
  BY <1>1, <1>2, <1>3, <1>4, <1>5, <1>6, <1>7, <1>8, <1>9 DEF CommandKinds

\* What parseFlags returns is a map of flags.
LEMMA FlagsTyped ==
  ASSUME NEW T, NEW l \in Seq(T)
  PROVE  IsFlagMap(FlagsOf(l))
<1> DEFINE of(f) == {k \in DOMAIN l : l[k] = f /\ (f \in BooleanFlags \/ HasValue(l, k))}
           D == {g \in ValueFlags \union BooleanFlags : of(g) # {}}
           last(f) == CHOOSE k \in of(f) : \A j \in of(f) : j <= k
<1>1. FlagsOf(l) = [f \in D |-> IF f \in BooleanFlags THEN Fine ELSE l[1 + last(f)]]
  BY DEF FlagsOf
<1>2. Fine \in Words
  BY DEF Words
<1>3. ASSUME NEW f \in D, f \notin BooleanFlags
      PROVE  l[1 + last(f)] \in Words
  <2>1. of(f) \in SUBSET (1 .. Len(l)) /\ of(f) # {} /\ Len(l) \in Nat
    OBVIOUS
  <2>2. \A k \in of(f) : k + 1 = 1 + k /\ l[k + 1] \in Words
    BY <1>3, <2>1 DEF HasValue
  <2> DEFINE S == {Len(l) - k : k \in of(f)}
  <2>3. S \in SUBSET Nat /\ S # {}
    BY <2>1
  <2>4. \E x \in S : \A y \in S : x <= y
    <3> HIDE DEF S
    <3>1. QED
      BY <2>3, LeastExists
  <2>5. \E k \in of(f) : \A j \in of(f) : Len(l) - k <= Len(l) - j
    BY <2>4
  <2>6. \E k \in of(f) : \A j \in of(f) : j <= k
    <3> HIDE DEF of
    <3>1. \A j, k \in of(f) : Len(l) - k <= Len(l) - j => j <= k
      BY <2>1
    <3>2. QED
      BY <2>5, <3>1
  <2> HIDE DEF of
  <2>7. last(f) \in of(f)
    BY <2>6
  <2> HIDE DEF last
  <2>8. QED
    BY <2>2, <2>7
<1> HIDE DEF last, of
<1>4. DOMAIN FlagsOf(l) = D
  BY <1>1
<1>5. \A f \in D : FlagsOf(l)[f] = IF f \in BooleanFlags THEN Fine ELSE l[1 + last(f)]
  BY <1>1
<1>6. D \subseteq AllFlags
  BY DEF AllFlags
<1> HIDE DEF D
<1>7. QED
  BY <1>2, <1>3, <1>4, <1>5, <1>6 DEF IsFlagMap

\* The first of some positions is one of them, and none comes before it.
LEMMA FirstIs ==
  ASSUME NEW n \in Nat, NEW P \in SUBSET (1 .. n)
  PROVE  /\ P = {} => FirstOf(P) = 0
         /\ P # {} => FirstOf(P) \in P /\ \A i \in P : FirstOf(P) <= i
<1>1. P # {} => \E x \in P : \A y \in P : x <= y
  BY LeastExists
<1>2. QED
  BY <1>1 DEF FirstOf

\* The line was read to the last token, as options, their values and the
\* command's own word.
ReadAs(l, flags, positional) ==
  \A i \in DOMAIN l :
    Accepted(l, flags, i) \/ (l[i] \in Words /\ (l[i] = positional \/ l[i] = Empty))

\* What splitting leaves is a line; what it takes out is a word.
LEMMA SplitTyped ==
  ASSUME NEW T, NEW l \in Seq(T), NEW kind
  PROVE  /\ SplitTokens(kind, l).flagArgs \in Seq(T)
         /\ SplitTokens(kind, l).positional \in Words \union {Absent}
<1> DEFINE loose == LooseWords(l)
<1>1. Len(l) \in Nat /\ DOMAIN l = 1 .. Len(l) /\ loose \in SUBSET DOMAIN l
      /\ \A i \in loose : l[i] \in Words
  BY DEF LooseWords
<1> HIDE DEF loose
<1>2. ASSUME NEW first, NEW skipped, first = 0 \/ first \in loose
      PROVE  /\ Split(l, loose, first, skipped).flagArgs \in Seq(T)
             /\ Split(l, loose, first, skipped).positional \in Words \union {Absent}
  <2>1. Split(l, loose, first, skipped).flagArgs \in Seq(T)
    <3>1. Rest(l, loose, first, skipped) \in Seq(T)
      BY <1>1, RestTyped
    <3>2. QED
      BY <3>1, Zenon DEF Rest
  <2>2. Split(l, loose, first, skipped).positional = IF first = 0 THEN Absent ELSE l[first]
    BY DEF Split
  <2>3. QED
    BY <1>1, <1>2, <2>1, <2>2
<1>3. CASE kind \in {"chat", "sop.run"}
  <2>1. SplitTokens(kind, l) = Split(l, loose, FirstOf(loose), {})
    BY <1>3, Zenon DEF SplitTokens, SplitChatArgs, loose
  <2>2. FirstOf(loose) = 0 \/ FirstOf(loose) \in loose
    BY <1>1, FirstIs
  <2>3. QED
    BY <1>2, <2>1, <2>2
<1>4. CASE kind = "sop.import"
  <2> DEFINE full == {i \in loose : l[i] # Empty}
             first == FirstOf(full)
             skipped == {i \in loose : first = 0 \/ i < first}
  <2>1. SplitTokens(kind, l) = Split(l, loose, first, skipped)
    BY <1>4 DEF SplitTokens, SplitImportArgs, loose
  <2>2. full \in SUBSET (1 .. Len(l)) /\ full \in SUBSET loose
    BY <1>1
  <2> HIDE DEF full, skipped
  <2>3. first = 0 \/ first \in loose
    BY <1>1, <2>2, FirstIs
  <2> HIDE DEF first
  <2>4. QED
    BY <1>2, <2>1, <2>3
<1>5. CASE kind \notin {"chat", "sop.run", "sop.import"}
  <2>1. SplitTokens(kind, l) = [positional |-> Absent, flagArgs |-> l, complaints |-> {}]
    BY <1>5 DEF SplitTokens
  <2>2. QED
    BY <2>1
<1>6. QED
  BY <1>3, <1>4, <1>5

\* A line split and read without a complaint was read to the last token.
LEMMA LineIsRead ==
  ASSUME NEW T, NEW l \in Seq(T), NEW kind,
         SplitTokens(kind, l).complaints = {},
         ParseFlags(SplitTokens(kind, l).flagArgs).complaints = {}
  PROVE  ReadAs(l, FlagsOf(SplitTokens(kind, l).flagArgs), SplitTokens(kind, l).positional)
<1> DEFINE loose == LooseWords(l)
           s == SplitTokens(kind, l)
<1>1. Len(l) \in Nat /\ DOMAIN l = 1 .. Len(l) /\ loose \in SUBSET DOMAIN l
      /\ \A i \in loose : l[i] \in Words
  BY DEF LooseWords
<1>2. ASSUME NEW first, NEW skipped, s = Split(l, loose, first, skipped),
             \A i \in loose : i = first \/ i \in skipped => (i = first /\ first # 0) \/ l[i] = Empty
      PROVE  ReadAs(l, FlagsOf(s.flagArgs), s.positional)
  <2>1. /\ s.positional = IF first = 0 THEN Absent ELSE l[first]
        /\ s.complaints = IF loose \subseteq {first} \union skipped THEN {} ELSE {"unexpected"}
        /\ s.flagArgs = Rest(l, loose, first, skipped)
    BY <1>2 DEF Split, Rest
  <2>2. loose \subseteq {first} \union skipped
    BY <2>1
  <2>3. ASSUME NEW i \in DOMAIN l \ loose
        PROVE  Accepted(l, FlagsOf(s.flagArgs), i)
    <3>1. ParseFlags(Rest(l, LooseWords(l), first, skipped)).complaints = {}
      BY <2>1, Zenon
    <3>2. Accepted(l, FlagsOf(Rest(l, LooseWords(l), first, skipped)), i)
      BY <2>3, <3>1, RestAccepted
    <3>3. QED
      BY <2>1, <3>2, Zenon
  <2> HIDE DEF s, loose
  <2>4. \A i \in loose : l[i] \in Words /\ (l[i] = s.positional \/ l[i] = Empty)
    BY <1>1, <1>2, <2>1, <2>2
  <2>5. QED
    BY <2>3, <2>4 DEF ReadAs
<1> HIDE DEF loose
<1>3. CASE kind \in {"chat", "sop.run"}
  <2>1. s = Split(l, loose, FirstOf(loose), {})
    BY <1>3, Zenon DEF SplitTokens, SplitChatArgs, loose
  <2>2. \A i \in loose : FirstOf(loose) # 0
    BY <1>1, FirstIs
  <2> HIDE DEF s
  <2>3. QED
    BY <1>2, <2>1, <2>2 DEF s
<1>4. CASE kind = "sop.import"
  <2> DEFINE full == {i \in loose : l[i] # Empty}
             first == FirstOf(full)
             skipped == {i \in loose : first = 0 \/ i < first}
  <2>1. s = Split(l, loose, first, skipped)
    BY <1>4 DEF SplitTokens, SplitImportArgs, loose
  <2>2. full \in SUBSET (1 .. Len(l)) /\ full \in SUBSET loose
    BY <1>1
  <2>3. \A i \in loose : i \in full <=> l[i] # Empty
    OBVIOUS
  <2> HIDE DEF full
  <2>4. /\ full = {} => first = 0
        /\ full # {} => first \in full /\ \A i \in full : first <= i
    BY <1>1, <2>2, FirstIs
  <2>5. \A i \in skipped : i \in loose /\ (first = 0 \/ i < first)
    OBVIOUS
  <2> HIDE DEF s, first, skipped
  <2>6. ASSUME NEW i \in loose, i = first \/ i \in skipped
        PROVE  (i = first /\ first # 0) \/ l[i] = Empty
    <3>1. i \in Nat /\ i # 0
      BY <1>1
    <3>2. CASE i = first
      BY <3>1, <3>2
    <3>3. CASE i \in skipped
      <4>1. first = 0 \/ i < first
        BY <2>5, <3>3
      <4>2. ASSUME i \in full PROVE FALSE
        <5>1. first \in full /\ first <= i
          BY <2>4, <4>2
        <5>2. first \in 1 .. Len(l)
          BY <2>2, <5>1
        <5>3. QED
          BY <1>1, <3>1, <4>1, <5>1, <5>2
      <4>3. QED
        BY <2>3, <4>2
    <3>4. QED
      BY <2>6, <3>2, <3>3
  <2>7. QED
    BY <1>2, <2>1, <2>6 DEF s
<1>5. CASE kind \notin {"chat", "sop.run", "sop.import"}
  <2>1. s = [positional |-> Absent, flagArgs |-> l, complaints |-> {}]
    BY <1>5 DEF SplitTokens
  <2>2. s.flagArgs = l
    BY <2>1
  <2> HIDE DEF s
  <2>3. ParseFlags(l).complaints = {}
    BY <2>2 DEF s
  <2>4. \A i \in DOMAIN l : Accepted(l, FlagsOf(l), i)
    BY <2>3, FlagsRead, Zenon DEF Accepted
  <2>5. QED
    BY <2>2, <2>4 DEF ReadAs, s
<1>6. QED
  BY <1>3, <1>4, <1>5

-------------------------------------------------------------------------------
(* The invariant of a line.                                                  *)

Tokens == LooseTokens \union ValueFlags \union BooleanFlags \union Words

\* The parts of a line that are not there yet, and the ones that are.
LineParts ==
  /\ parsed = [flags |-> parsed.flags, positional |-> parsed.positional,
               complaints |-> parsed.complaints]
  /\ IsFlagMap(parsed.flags)
  /\ flagArgs \in Seq(Tokens)
  /\ lineStage \in {"typed", "split", "parsed"} => verb \in CommandKinds
  /\ lineStage \in {"idle", "typed"} => parsed = NothingParsed
  /\ lineStage \notin {"built", "ran"} => built = NoCommand
  /\ lineStage # "ran" => ranAs = Absent /\ exit = 9

\* Between the two passes, what the first one left.
SplitRight ==
  lineStage = "split" =>
    /\ flagArgs = SplitTokens(verb, line).flagArgs
    /\ parsed.positional = SplitTokens(verb, line).positional
    /\ parsed.complaints = SplitTokens(verb, line).complaints

\* After them, no complaint means that every token was read.
ReadRight ==
  lineStage = "parsed" \/ built # NoCommand =>
    (parsed.complaints = {} => ReadAs(line, parsed.flags, parsed.positional))

\* No complaint means that the command is what the flags ask for, and no command
\* means that there was one.
BuiltRight ==
  /\ built # NoCommand /\ parsed.complaints = {} => BuiltAs(parsed.flags, built)
  /\ lineStage \in {"built", "ran"} /\ built = NoCommand /\ verb # "help" => parsed.complaints # {}

\* What runs is the command, and what is refused was complained about.
RunsAs ==
  CASE built.kind = "evolve" -> EvolveMode(built.fields)
    [] built.kind = "chat" -> IF Truthy(parsed.positional) THEN "turn" ELSE "repl"
    [] OTHER -> built.kind

RunRight ==
  /\ ranAs # Absent => parsed.complaints = {} /\ built # NoCommand /\ ranAs = RunsAs
  /\ exit = 2 => parsed.complaints # {}

LineInv == LineTypeOK /\ LineParts /\ SplitRight /\ ReadRight /\ BuiltRight /\ RunRight

\* A set put in order is a sequence.
LEMMA OrderedTyped ==
  ASSUME NEW S, IsFiniteSet(S)
  PROVE  /\ SetToSeq(S) \in Seq(S)
         /\ Len(SetToSeq(S)) \in Nat /\ DOMAIN SetToSeq(S) = 1 .. Len(SetToSeq(S))
         /\ \A n \in 1 .. Len(SetToSeq(S)) : SetToSeq(S)[n] \in S
<1> DEFINE n == Cardinality(S)
<1>1. n \in Nat /\ ExistsBijection(1 .. n, S)
  BY FS_CardinalityType
<1>2. PICK f \in Bijection(1 .. n, S) : TRUE
  BY <1>1, Zenon DEF ExistsBijection
<1>3. f \in [1 .. n -> S] /\ IsInjective(f)
  BY <1>2 DEF Bijection, Injection, IsInjective
<1>4. SetToSeq(S) \in [1 .. n -> S]
  BY <1>3, Zenon DEF SetToSeq
<1> HIDE DEF n
<1>5. QED
  BY <1>1, <1>4

LEMMA LineInitHolds == LineInit => LineInv
<1> SUFFICES ASSUME LineInit PROVE LineInv
  OBVIOUS
<1>1. /\ lineStage = "idle" /\ verb = Absent /\ line = << >> /\ flagArgs = << >> /\ defaults = {}
      /\ parsed = NothingParsed /\ built = NoCommand /\ ranAs = Absent /\ exit = 9
  BY DEF LineInit, LineBlank
<1>2. /\ parsed = [flags |-> << >>, positional |-> Absent, complaints |-> {}]
      /\ parsed.flags = << >> /\ parsed.positional = Absent /\ parsed.complaints = {}
      /\ DOMAIN parsed.flags = {}
  BY <1>1 DEF NothingParsed
<1>3. LineTypeOK
  BY <1>1, <1>2 DEF LineTypeOK
<1>4. LineParts
  BY <1>1, <1>2 DEF LineParts, IsFlagMap
<1>5. SplitRight /\ ReadRight /\ BuiltRight /\ RunRight
  BY <1>1 DEF SplitRight, ReadRight, BuiltRight, RunRight
<1>6. QED
  BY <1>3, <1>4, <1>5 DEF LineInv

\* A line is typed: there is nothing of it but its tokens.
LEMMA LineTyped ==
  ASSUME LineInv, lineStage = "idle", lineStage' = "typed", verb' \in CommandKinds,
         line' \in Seq(Tokens), defaults' \subseteq Defaulted,
         UNCHANGED <<flagArgs, parsed, built, ranAs, exit>>
  PROVE  LineInv'
<1>0. LineTypeOK /\ LineParts /\ RunRight
  BY DEF LineInv
<1>1. parsed' = parsed /\ flagArgs' = flagArgs /\ built' = built /\ ranAs' = ranAs /\ exit' = exit
  OBVIOUS
<1>2. built = NoCommand /\ ranAs = Absent /\ exit = 9
  BY <1>0 DEF LineParts
<1>3. LineTypeOK'
  BY <1>0, <1>1 DEF LineTypeOK, Tokens
<1>4. LineParts'
  BY <1>0, <1>1 DEF LineParts, IsFlagMap
<1>5. (SplitRight /\ ReadRight /\ BuiltRight /\ RunRight)'
  BY <1>1, <1>2 DEF SplitRight, ReadRight, BuiltRight, RunRight
<1>6. QED
  BY <1>3, <1>4, <1>5 DEF LineInv

LEMMA LooseTyped ==
  ASSUME LineInv, NEW kind \in CommandKinds, NEW n \in 1 .. MaxTokens, NEW tokens \in [1 .. n -> LooseTokens],
         TypeLoosely(kind, tokens, Defaulted)
  PROVE  LineInv'
<1>1. n \in Nat
  BY LineAssumption
<1>2. tokens \in Seq(Tokens)
  BY <1>1 DEF Tokens
<1>3. QED
  BY <1>2, LineTyped DEF TypeLoosely

LEMMA OptionsTyped ==
  ASSUME LineInv, NEW kind \in CommandKinds, NEW given \in {{}, ModelFlags, Defaulted},
         NEW used \in SUBSET TypedFlags[kind], NEW flags \in [used -> Words],
         TypeOptions(kind, flags, given)
  PROVE  LineInv'
<1> DEFINE V == DOMAIN flags \ BooleanFlags
           B == DOMAIN flags \intersect BooleanFlags
           valued == SetToSeq(V)
           word(n) == IF n % 2 = 1 THEN valued[(n + 1) \div 2] ELSE flags[valued[n \div 2]]
           valuedWords == [n \in 1 .. (2 * Len(valued)) |-> word(n)]
           front == IF kind \in WithPositional THEN <<Fine>> ELSE << >>
<1>1. /\ lineStage = "idle" /\ lineStage' = "typed" /\ verb' = kind /\ defaults' = given
      /\ line' = front \o (SetToSeq(B) \o valuedWords)
      /\ UNCHANGED <<flagArgs, parsed, built, ranAs, exit>>
  BY DEF TypeOptions
<1>2. used \subseteq ValueFlags \union BooleanFlags /\ IsFiniteSet(used) /\ DOMAIN flags = used
  BY LineAssumption, FS_Subset
<1>3. IsFiniteSet(V) /\ IsFiniteSet(B) /\ V \subseteq Tokens /\ B \subseteq Tokens /\ Words \subseteq Tokens
  BY <1>2, FS_Subset DEF Tokens
<1>4. SetToSeq(B) \in Seq(B)
  BY <1>3, OrderedTyped
<1>5. SetToSeq(B) \in Seq(Tokens)
  <2> HIDE DEF B
  <2>1. QED
    BY <1>3, <1>4
<1>6. Len(valued) \in Nat /\ \A n \in 1 .. Len(valued) : valued[n] \in V
  BY <1>3, OrderedTyped
<1>7. \A f \in V : flags[f] \in Words
  BY <1>2
<1> HIDE DEF V, B, valued
<1>8. ASSUME NEW n \in 1 .. 2 * Len(valued)
      PROVE  word(n) \in Tokens
  <2>1. n % 2 = 1 => (n + 1) \div 2 \in 1 .. Len(valued)
    BY <1>6
  <2>2. n % 2 # 1 => n \div 2 \in 1 .. Len(valued)
    BY <1>6
  <2>3. QED
    BY <1>3, <1>6, <1>7, <2>1, <2>2
<1> HIDE DEF word
<1>9. valuedWords \in Seq(Tokens)
  <2>1. 2 * Len(valued) \in Nat
    BY <1>6
  <2>2. QED
    BY <1>8, <2>1
<1> HIDE DEF valuedWords
<1>10. front \in Seq(Tokens)
  <2>1. Fine \in Tokens
    BY DEF Tokens, Words
  <2>2. QED
    BY <2>1
<1> HIDE DEF front
<1>11. line' \in Seq(Tokens)
  BY <1>1, <1>5, <1>9, <1>10
<1>12. defaults' \subseteq Defaulted
  BY <1>1 DEF Defaulted
<1>13. QED
  BY <1>1, <1>11, <1>12, LineTyped

LEMMA NothingTyped ==
  ASSUME LineInv, NEW v \in {"help", "unknown"}, TypeNothing(v)
  PROVE  LineInv'
<1>0. LineTypeOK /\ LineParts
  BY DEF LineInv
<1>1. /\ lineStage = "idle" /\ lineStage' = "built" /\ verb' = v
      /\ parsed' = [NothingParsed EXCEPT !.complaints = If(v = "unknown", "unknown command")]
      /\ line' = line /\ flagArgs' = flagArgs /\ defaults' = defaults /\ built' = built
      /\ ranAs' = ranAs /\ exit' = exit
  BY DEF TypeNothing
<1>2. built = NoCommand /\ ranAs = Absent /\ exit = 9
  BY <1>0, <1>1 DEF LineParts
<1> DEFINE said == If(v = "unknown", "unknown command")
<1>3. /\ parsed' = [flags |-> << >>, positional |-> Absent, complaints |-> said]
      /\ parsed'.flags = << >> /\ parsed'.positional = Absent /\ parsed'.complaints = said
      /\ DOMAIN parsed'.flags = {}
  <2>1. parsed' = [NothingParsed EXCEPT !.complaints = said]
    BY <1>1
  <2> HIDE DEF said
  <2>2. parsed' = [flags |-> << >>, positional |-> Absent, complaints |-> said]
    BY <2>1 DEF NothingParsed
  <2>3. QED
    BY <2>2
<1>4. LineTypeOK'
  BY <1>0, <1>1, <1>3 DEF LineTypeOK
<1>5. LineParts'
  BY <1>0, <1>1, <1>2, <1>3 DEF LineParts, IsFlagMap
<1>6. v # "help" => parsed'.complaints # {}
  BY <1>3 DEF If
<1>7. (SplitRight /\ ReadRight /\ BuiltRight /\ RunRight)'
  <2>1. lineStage' = "built" /\ built' = NoCommand /\ verb' = v /\ ranAs' = Absent /\ exit' = 9
    BY <1>1, <1>2
  <2>2. (SplitRight /\ ReadRight /\ RunRight)'
    BY <2>1 DEF SplitRight, ReadRight, RunRight
  <2>3. BuiltRight'
    BY <1>6, <2>1 DEF BuiltRight
  <2>4. QED
    BY <2>2, <2>3
<1>8. QED
  BY <1>4, <1>5, <1>7 DEF LineInv

LEMMA SplitHolds ==
  ASSUME LineInv, SplitLine
  PROVE  LineInv'
<1>0. LineTypeOK /\ LineParts
  BY DEF LineInv
<1> DEFINE s == SplitTokens(verb, line)
<1>1. /\ lineStage = "typed" /\ lineStage' = "split" /\ flagArgs' = s.flagArgs
      /\ parsed' = [parsed EXCEPT !.positional = s.positional, !.complaints = s.complaints]
      /\ verb' = verb /\ line' = line /\ defaults' = defaults /\ built' = built
      /\ ranAs' = ranAs /\ exit' = exit
  BY DEF SplitLine
<1>2. s.flagArgs \in Seq(Tokens) /\ s.positional \in Words \union {Absent}
  <2>1. line \in Seq(Tokens)
    BY <1>0 DEF LineTypeOK, Tokens
  <2>2. QED
    BY <2>1, SplitTyped
<1>3. parsed = [flags |-> << >>, positional |-> Absent, complaints |-> {}] /\ verb \in CommandKinds
      /\ built = NoCommand /\ ranAs = Absent /\ exit = 9
  BY <1>0, <1>1 DEF LineParts, NothingParsed
<1>4. SplitTokens(verb', line') = s
  BY <1>1
<1> HIDE DEF s
<1>5. /\ parsed' = [flags |-> << >>, positional |-> s.positional, complaints |-> s.complaints]
      /\ parsed'.flags = << >> /\ parsed'.positional = s.positional
      /\ parsed'.complaints = s.complaints /\ DOMAIN parsed'.flags = {}
  <2>1. parsed' = [flags |-> << >>, positional |-> s.positional, complaints |-> s.complaints]
    BY <1>1, <1>3
  <2>2. QED
    BY <2>1
<1>6. LineTypeOK'
  BY <1>0, <1>1, <1>2, <1>5 DEF LineTypeOK
<1>7. LineParts'
  BY <1>1, <1>2, <1>3, <1>5 DEF LineParts, IsFlagMap
<1>8. SplitRight'
  BY <1>1, <1>4, <1>5 DEF SplitRight
<1>9. (ReadRight /\ BuiltRight /\ RunRight)'
  BY <1>1, <1>3 DEF ReadRight, BuiltRight, RunRight
<1>10. QED
  BY <1>6, <1>7, <1>8, <1>9 DEF LineInv

LEMMA ParseHolds ==
  ASSUME LineInv, ParseLine
  PROVE  LineInv'
<1>0. LineTypeOK /\ LineParts /\ SplitRight
  BY DEF LineInv
<1> DEFINE p == ParseFlags(flagArgs)
           more == CommonComplaints(p.flags)
<1>1. /\ lineStage = "split" /\ lineStage' = "parsed"
      /\ parsed' = [parsed EXCEPT !.flags = p.flags, !.complaints = @ \union p.complaints \union more]
      /\ verb' = verb /\ line' = line /\ defaults' = defaults /\ flagArgs' = flagArgs
      /\ built' = built /\ ranAs' = ranAs /\ exit' = exit
  BY DEF ParseLine
<1>2. line \in Seq(Tokens)
  BY <1>0 DEF LineTypeOK, Tokens
<1>3. p.flags = FlagsOf(flagArgs)
  BY DEF ParseFlags
<1>4. IsFlagMap(p.flags)
  BY <1>0, <1>3, FlagsTyped DEF LineParts
<1>5. parsed = [flags |-> parsed.flags, positional |-> parsed.positional, complaints |-> parsed.complaints]
      /\ verb \in CommandKinds /\ built = NoCommand /\ ranAs = Absent /\ exit = 9
  BY <1>0, <1>1 DEF LineParts
<1>6. ParseFlags(flagArgs).complaints = p.complaints
  OBVIOUS
<1> HIDE DEF p, more
<1>7. /\ parsed'.flags = p.flags /\ parsed'.positional = parsed.positional
      /\ parsed'.complaints = parsed.complaints \union p.complaints \union more
      /\ parsed' = [flags |-> p.flags, positional |-> parsed.positional,
                    complaints |-> parsed.complaints \union p.complaints \union more]
  BY <1>1, <1>5
<1>8. LineTypeOK'
  BY <1>0, <1>1, <1>4, <1>7 DEF LineTypeOK, IsFlagMap, AllFlags
<1>9. LineParts'
  <2>1. IsFlagMap(parsed'.flags)
    BY <1>4, <1>7
  <2>2. QED
    BY <1>0, <1>1, <1>5, <1>7, <2>1 DEF LineParts
<1>10. ASSUME parsed'.complaints = {}
       PROVE  ReadAs(line', parsed'.flags, parsed'.positional)
  <2>1. parsed.complaints = {} /\ p.complaints = {}
    BY <1>7, <1>10
  <2>2. /\ flagArgs = SplitTokens(verb, line).flagArgs
        /\ parsed.positional = SplitTokens(verb, line).positional
        /\ SplitTokens(verb, line).complaints = {}
    BY <1>0, <1>1, <2>1 DEF SplitRight
  <2>3. ParseFlags(SplitTokens(verb, line).flagArgs).complaints = {}
    BY <1>6, <2>1, <2>2
  <2>4. ReadAs(line, FlagsOf(SplitTokens(verb, line).flagArgs), SplitTokens(verb, line).positional)
    BY <1>2, <2>2, <2>3, LineIsRead
  <2>5. QED
    BY <1>1, <1>3, <1>7, <2>2, <2>4
<1>11. (SplitRight /\ ReadRight /\ BuiltRight /\ RunRight)'
  BY <1>1, <1>5, <1>10 DEF SplitRight, ReadRight, BuiltRight, RunRight
<1>12. QED
  BY <1>8, <1>9, <1>11 DEF LineInv

LEMMA BuildHolds ==
  ASSUME LineInv, BuildLine
  PROVE  LineInv'
<1>0. LineTypeOK /\ LineParts /\ ReadRight
  BY DEF LineInv
<1> DEFINE b == Build(verb, parsed)
<1>1. /\ lineStage = "parsed" /\ lineStage' = "built"
      /\ line' = line /\ flagArgs' = flagArgs /\ defaults' = defaults /\ ranAs' = ranAs /\ exit' = exit
      /\ \/ verb' = "help" /\ parsed' = parsed /\ built' = built
         \/ /\ parsed' = [parsed EXCEPT !.complaints = @ \union b.complaints]
            /\ built' = b.command /\ verb' = verb
  BY DEF BuildLine
<1>2. parsed = [flags |-> parsed.flags, positional |-> parsed.positional, complaints |-> parsed.complaints]
      /\ IsFlagMap(parsed.flags) /\ verb \in CommandKinds /\ built = NoCommand /\ ranAs = Absent /\ exit = 9
  BY <1>0, <1>1 DEF LineParts
<1>3. WellBuilt(parsed.flags, b)
  <2>1. defaults \subseteq Defaulted
    BY <1>0 DEF LineTypeOK
  <2>2. QED
    BY <1>2, <2>1, BuildSound
<1> HIDE DEF b
<1>4. CASE verb' = "help" /\ parsed' = parsed /\ built' = built
  <2>1. LineTypeOK'
    BY <1>0, <1>1, <1>4 DEF LineTypeOK
  <2>2. LineParts'
    BY <1>0, <1>1, <1>2, <1>4 DEF LineParts
  <2>3. (SplitRight /\ ReadRight /\ BuiltRight /\ RunRight)'
    BY <1>1, <1>2, <1>4 DEF SplitRight, ReadRight, BuiltRight, RunRight
  <2>4. QED
    BY <2>1, <2>2, <2>3 DEF LineInv
<1>5. CASE /\ parsed' = [parsed EXCEPT !.complaints = @ \union b.complaints]
           /\ built' = b.command /\ verb' = verb
  <2>1. /\ parsed'.flags = parsed.flags /\ parsed'.positional = parsed.positional
        /\ parsed'.complaints = parsed.complaints \union b.complaints
        /\ parsed' = [flags |-> parsed.flags, positional |-> parsed.positional,
                      complaints |-> parsed.complaints \union b.complaints]
    BY <1>2, <1>5
  <2>2. /\ b.command = NoCommand \/ b.command.kind \in CommandKinds
        /\ b.command = NoCommand => b.complaints # {}
        /\ b.command # NoCommand /\ b.complaints = {} => BuiltAs(parsed.flags, b.command)
    BY <1>3 DEF WellBuilt
  <2>3. LineTypeOK'
    BY <1>0, <1>1, <1>5, <2>1, <2>2 DEF LineTypeOK
  <2>4. LineParts'
    <3>1. IsFlagMap(parsed'.flags)
      BY <1>2, <2>1
    <3>2. QED
      BY <1>0, <1>1, <1>2, <1>5, <2>1, <3>1 DEF LineParts
  <2>5. ASSUME parsed'.complaints = {}
        PROVE  /\ ReadAs(line', parsed'.flags, parsed'.positional)
               /\ built' # NoCommand /\ BuiltAs(parsed'.flags, built')
    <3>1. parsed.complaints = {} /\ b.complaints = {}
      BY <2>1, <2>5
    <3>2. ReadAs(line, parsed.flags, parsed.positional)
      BY <1>0, <1>1, <3>1 DEF ReadRight
    <3>3. QED
      BY <1>1, <1>5, <2>1, <2>2, <3>1, <3>2
  <2>6. (SplitRight /\ ReadRight /\ BuiltRight /\ RunRight)'
    BY <1>1, <1>2, <2>5 DEF SplitRight, ReadRight, BuiltRight, RunRight
  <2>7. QED
    BY <2>3, <2>4, <2>6 DEF LineInv
<1>6. QED
  BY <1>1, <1>4, <1>5

\* A line ends, refused or run.
LEMMA EndHolds ==
  ASSUME LineInv, RefuseLine \/ PrintHelp \/ \E code \in {0, 1} : RunLine(code)
  PROVE  LineInv'
<1>0. LineTypeOK /\ LineParts /\ ReadRight /\ BuiltRight /\ RunRight
  BY DEF LineInv
<1>1. /\ lineStage = "built" /\ lineStage' = "ran" /\ exit' \in {0, 1, 2}
      /\ UNCHANGED <<verb, line, flagArgs, defaults, parsed, built>>
      /\ exit' = 2 => parsed.complaints # {} \/ (verb # "help" /\ built = NoCommand)
      /\ \/ ranAs' = ranAs
         \/ parsed.complaints = {} /\ built # NoCommand /\ ranAs' = RunsAs
  BY DEF RefuseLine, PrintHelp, RunLine, RunsAs
<1>2. ranAs = Absent
  BY <1>0, <1>1 DEF LineParts
<1>3. exit' = 2 => parsed.complaints # {}
  BY <1>0, <1>1 DEF BuiltRight
<1>4. RunsAs' = RunsAs
  BY <1>1 DEF RunsAs, EvolveMode
<1>5. RunRight'
  BY <1>1, <1>2, <1>3, <1>4 DEF RunRight
<1>6. LineTypeOK'
  BY <1>0, <1>1 DEF LineTypeOK
<1>7. LineParts'
  BY <1>0, <1>1 DEF LineParts
<1>8. (SplitRight /\ ReadRight /\ BuiltRight)'
  BY <1>0, <1>1 DEF SplitRight, ReadRight, BuiltRight
<1>9. QED
  BY <1>5, <1>6, <1>7, <1>8 DEF LineInv

LEMMA LineStepHolds == LineInv /\ [LineNext]_lineVars => LineInv'
<1> SUFFICES ASSUME LineInv, [LineNext]_lineVars PROVE LineInv'
  OBVIOUS
<1>1. CASE UNCHANGED lineVars
  BY <1>1 DEF lineVars, LineInv, LineTypeOK, LineParts, SplitRight, ReadRight, BuiltRight, RunRight, RunsAs
<1>2. CASE LineNext
  <2>1. \/ \E kind \in CommandKinds, n \in 1 .. MaxTokens : \E tokens \in [1 .. n -> LooseTokens] :
             TypeLoosely(kind, tokens, Defaulted)
        \/ \E kind \in CommandKinds, given \in {{}, ModelFlags, Defaulted} :
             \E used \in SUBSET TypedFlags[kind] : \E flags \in [used -> Words] :
               TypeOptions(kind, flags, given)
        \/ \E v \in {"help", "unknown"} : TypeNothing(v)
        \/ SplitLine
        \/ ParseLine
        \/ BuildLine
        \/ RefuseLine \/ PrintHelp \/ \E code \in {0, 1} : RunLine(code)
    BY <1>2, Zenon DEF LineNext
  <2>2. QED
    BY <2>1, LooseTyped, OptionsTyped, NothingTyped, SplitHolds, ParseHolds, BuildHolds, EndHolds, Zenon
<1>3. QED
  BY <1>1, <1>2

LEMMA LineInvSound == LineInv => LineUnderstood
<1> SUFFICES ASSUME LineInv PROVE LineUnderstood
  OBVIOUS
<1>0. LineTypeOK /\ LineParts /\ ReadRight /\ BuiltRight /\ RunRight
  BY DEF LineInv
<1>1. ASSUME ranAs # Absent
      PROVE  /\ ReadAs(line, parsed.flags, parsed.positional)
             /\ BuiltAs(parsed.flags, built) /\ ranAs = RunsAs
  BY <1>0, <1>1 DEF RunRight, ReadRight, BuiltRight
<1>2. EveryTokenRead
  BY <1>1 DEF EveryTokenRead, ReadAs, Accepted
<1>3. RefusalExplained
  BY <1>0 DEF RunRight, RefusalExplained
<1>4. ASSUME ranAs # Absent, built.kind = "evolve"
      PROVE  ranAs = EvolveMode(built.fields)
  BY <1>1, <1>4 DEF RunsAs
<1>5. EvolveRunsAsAsked
  BY <1>1, <1>4 DEF EvolveRunsAsAsked, BuiltAs
<1>6. ASSUME ranAs # Absent, built.kind # "evolve"
      PROVE  ranAs \notin {"auto", "generate", "compare", "list"}
  BY <1>1, <1>6 DEF RunsAs, BuiltAs, CommandKinds
<1>7. HandlerHasItsOptions
  BY <1>1, <1>4, <1>6 DEF HandlerHasItsOptions, BuiltAs
<1>8. QED
  BY <1>0, <1>2, <1>3, <1>5, <1>7 DEF LineUnderstood

\* A command line is refused with a reason or does what it says, whatever its
\* tokens and the options in the config file (src/cli/args.ts, src/cli/main.ts).
THEOREM LineIsUnderstood == LineSpec => []LineUnderstood
BY LineInitHolds, LineStepHolds, LineInvSound, PTL DEF LineSpec

-------------------------------------------------------------------------------
(* Side by side.                                                             *)

\* A step of the commands is one of each of them, or leaves it alone.
LEMMA CommandsStep == [CommandsNext]_commandsVars => [LineNext]_lineVars /\ [ReplNext]_replVars /\ [EvoNext]_evoVars
BY DEF CommandsNext, commandsVars

\* The commands side by side (Commands) implement each of them (Evolution, ChatRepl,
\* CommandLine): none of them disturbs another.
THEOREM CommandsRunsItsParts == CommandsSpec => LineSpec /\ ReplSpec /\ EvoSpec
BY CommandsStep, PTL DEF CommandsSpec, CommandsInit, LineSpec, ReplSpec, EvoSpec

\* What is proved of lines, of evolutions and of chats holds of the commands side
\* by side (src/cli/args.ts, src/cli/commands.ts).
THEOREM CommandsAreSound ==
  CommandsSpec => [](LineUnderstood /\ EvolutionSound /\ ReplSound) /\ AcceptedIsBetter
BY CommandsRunsItsParts, LineIsUnderstood, EvolutionIsSound, RecommendedIsBetter, ReplIsSound, PTL
===============================================================================
