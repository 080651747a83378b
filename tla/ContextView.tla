----------------------------- MODULE ContextView -----------------------------
(***************************************************************************)
(* What a request shows of a session (src/runtime/context-view.ts): the    *)
(* cut point of a compaction, the view behind the latest compaction, the   *)
(* ladder of trims when that view is over budget, and the repair of the    *)
(* pairs of tool calls and results.  Token counts are left out: a budget   *)
(* may stop the search for a cut anywhere, and may leave room for any      *)
(* groups of entries.  The session is the one several runs of a chat write *)
(* to: a run may be interrupted with calls outstanding, a subagent's tool  *)
(* call appends a branch summary before its result, and the web chat       *)
(* archives a session after every answered run.                            *)
(***************************************************************************)
EXTENDS Integers, Sequences, FiniteSets

CONSTANTS
  Calls,       \* ids of tool calls
  MaxEntries   \* bound: entries of a session

ASSUME ContextAssumption == MaxEntries \in Nat

VARIABLES
  entries,   \* session.entries; an entry's id is its position
  alive,     \* a run is going on
  open,      \* calls of the run's last answer without a result
  lost       \* history: entries here that the latest compaction dropped unread

contextVars == <<entries, alive, open, lost>>

Kinds == {"system", "user", "assistant", "tool_result", "compaction", "branch_summary"}
Entry == [kind: Kinds, calls: SUBSET Calls, kept: SUBSET Nat, source: SUBSET Nat]

Plain(kind)           == [kind |-> kind, calls |-> {}, kept |-> {}, source |-> {}]
Assistant(calls)      == [Plain("assistant") EXCEPT !.calls = calls]
Result(c)             == [Plain("tool_result") EXCEPT !.calls = {c}]

Summary(kept, source) ==
  [kind |-> "compaction", calls |-> {}, kept |-> kept, source |-> source]

(* Type correctness; the system prompt is the first entry and the only one. *)
ContextTypeOK ==
  /\ entries \in Seq(Entry) /\ entries # <<>>
  /\ \A i \in DOMAIN entries : entries[i].kind = "system" <=> i = 1
  /\ alive \in BOOLEAN
  /\ open \subseteq Calls
  /\ lost \subseteq Nat

Is(i, kind) == entries[i].kind = kind
Asks(i)     == Is(i, "assistant") /\ entries[i].calls # {}

\* The greatest of a set of positions.
Latest(S) == CHOOSE i \in S : \A j \in S : j <= i
OfKind(S, kind) == {i \in S : Is(i, kind)}

-------------------------------------------------------------------------------
(* Compaction: what is summarised and what is kept.                        *)

Compactable == {i \in DOMAIN entries : ~Is(i, "system") /\ ~Is(i, "compaction")}

\* The entries of S before i, and the one just before it.
Earlier(S, i) == {j \in S : j < i}

\* adjustKeepStartToToolBoundary: back over results, and over one more entry if
\* that is the message the first kept one answers.
PastResults(k) ==
  Latest({i \in Compactable : i <= k /\ (~Is(i, "tool_result") \/ Earlier(Compactable, i) = {})})

\* Mutated form of KeepStart: the search may stop between a message and the
\* rest of what it asked for.
KeepStartUnadjusted(k) == PastResults(k)

KeepStart(k) ==
  LET start == PastResults(k)
      older == Earlier(Compactable, start)
  IN IF ~Is(start, "assistant") /\ older # {} /\ Asks(Latest(older))
     THEN Latest(older)
     ELSE start

\* Where the search for keepRecentTokens may stop: not before a user entry is
\* among the entries kept.
CutPoints ==
  {KeepStart(k) : k \in {k \in Compactable : \E u \in OfKind(Compactable, "user") : u >= k}}

SafeCuts ==
  {k \in CutPoints : Cardinality(Compactable) >= 3 /\ Earlier(Compactable, k) # {}}

\* dropOldestRound: the entries up to the first assistant message and the
\* results behind it, or a single entry.
OldestRound(S) ==
  LET answers == OfKind(S, "assistant")
      first   == CHOOSE i \in answers : \A j \in answers : i <= j
      oldest  == CHOOSE i \in S : \A j \in S : i <= j
  IN IF S = {} THEN {}
     ELSE IF answers = {} THEN {oldest}
     ELSE {i \in S : \A j \in S : first < j /\ j <= i => Is(j, "tool_result")}

DropRound(S) == S \ OldestRound(S)

\* What is left of the source after up to three overflows of its summary.
Sources(S) ==
  {S, DropRound(S), DropRound(DropRound(S)), DropRound(DropRound(DropRound(S)))}

-------------------------------------------------------------------------------
(* The view of a session, and its trims.                                   *)

Compactions == OfKind(DOMAIN entries, "compaction")

\* Mutated form of View: the kept entries are left out.
ViewUnkept ==
  LET c == Latest(Compactions)
  IN IF Compactions = {} THEN DOMAIN entries
     ELSE {1, c} \cup {i \in DOMAIN entries : i > c}

\* entriesForLatestCompaction
View ==
  LET c == Latest(Compactions)
  IN IF Compactions = {} THEN DOMAIN entries
     ELSE {1, c} \cup {i \in DOMAIN entries : i > c \/ i \in entries[c].kept}

\* The order of a view: system prompt, summary, entries as they came.
Place(i) == IF Is(i, "system") THEN 0 ELSE IF Is(i, "compaction") THEN 1 ELSE i + 1
Before(i, j) == Place(i) < Place(j)
JustBefore(S, i) ==
  CHOOSE j \in S : Before(j, i) /\ \A k \in S : Before(k, i) => ~Before(j, k)

\* Mutated form of Mandatory: the latest question is not among it.
MandatoryUnasked ==
  {1} \cup OfKind(View, "compaction")

Mandatory ==
  {1} \cup OfKind(View, "compaction")
      \cup {u \in OfKind(View, "user") : u = Latest(OfKind(View, "user"))}

\* groupedEntries: a message with calls and the results right behind it belong
\* together; a result with no such message before it is an orphan.
Leaders == {i \in View : ~Is(i, "tool_result")}
Leader(i) == IF i \in Leaders THEN i ELSE JustBefore(Leaders, i)

Group(i) == {i} \cup {r \in OfKind(View, "tool_result") : Leader(r) = i /\ Asks(i)}
Orphan(r) == Is(r, "tool_result") /\ ~Asks(Leader(r))

HardTrims ==
  {Mandatory \cup UNION {Group(i) : i \in chosen} : chosen \in SUBSET (Leaders \ Mandatory)}

AggressiveTrim ==
  LET last     == CHOOSE i \in Leaders : \A j \in Leaders : ~Before(i, j)
      previous == JustBefore(View, last)
  IN Mandatory \cup Group(last) \cup
     (IF Orphan(previous) THEN {previous} ELSE Group(Leader(previous)))

\* systemOnlyFallback takes its entries from the session, not from the view, and
\* leaves them in the session's order, which no property here looks at.
SystemOnly ==
  {1} \cup {c \in Compactions : c = Latest(Compactions)}
      \cup {u \in OfKind(DOMAIN entries, "user") : u = Latest(OfKind(DOMAIN entries, "user"))}

Trims == HardTrims \cup {AggressiveTrim, Mandatory, SystemOnly}

-------------------------------------------------------------------------------
(* What a request made of the entries S looks like.                        *)

\* normalizeToolPairOrder: between one message with calls and the next, the
\* results of its calls come first.
Heads(S, i) == {a \in S : Asks(a) /\ ~Before(i, a)}
HeadPlace(S, i) ==
  IF Heads(S, i) = {} THEN 0
  ELSE Place(CHOOSE a \in Heads(S, i) : \A b \in Heads(S, i) : ~Before(a, b))
OfHead(S, i) ==
  \E a \in Heads(S, i) : /\ Place(a) = HeadPlace(S, i)
                         /\ Is(i, "tool_result")
                         /\ entries[i].calls \subseteq entries[a].calls

Standing(S, i) ==
  IF Place(i) = HeadPlace(S, i) THEN 0 ELSE IF OfHead(S, i) THEN 1 ELSE 2

SentBefore(S, i, j) ==
  \/ HeadPlace(S, i) < HeadPlace(S, j)
  \/ /\ HeadPlace(S, i) = HeadPlace(S, j)
     /\ \/ Standing(S, i) < Standing(S, j)
        \/ Standing(S, i) = Standing(S, j) /\ Before(i, j)

-------------------------------------------------------------------------------
(* The session.                                                            *)

ContextInit ==
  /\ entries = <<Plain("system")>>
  /\ alive = FALSE
  /\ open = {}
  /\ lost = {}

Room == Len(entries) < MaxEntries

\* A chat turn begins.
UserSpeaks ==
  /\ Room
  /\ ~alive
  /\ entries' = Append(entries, Plain("user"))
  /\ alive' = TRUE
  /\ UNCHANGED <<open, lost>>

Requesting == alive /\ open = {}

\* Call ids are used once in a session.
Unused == {c \in Calls : \A i \in DOMAIN entries : c \notin entries[i].calls}

ModelCallsTools ==
  /\ Room
  /\ Requesting
  /\ \E calls \in SUBSET Unused \ {{}} :
       /\ entries' = Append(entries, Assistant(calls))
       /\ open' = calls
  /\ UNCHANGED <<alive, lost>>

\* All calls are settled before the first result is appended.
SubagentReports ==
  /\ Room
  /\ open # {}
  /\ ~Is(Len(entries), "tool_result")
  /\ entries' = Append(entries, Plain("branch_summary"))
  /\ UNCHANGED <<alive, open, lost>>

ToolReports ==
  /\ Room
  /\ \E c \in open : entries' = Append(entries, Result(c)) /\ open' = open \ {c}
  /\ UNCHANGED <<alive, lost>>

\* The session after an answer without calls, which leaves no entry if empty.
Answered == {entries} \cup (IF Room THEN {Append(entries, Assistant({}))} ELSE {})

\* The answer is followed up, by the front end's auto-continue for one.
FollowUp ==
  /\ Requesting
  /\ \E said \in Answered : Len(said) < MaxEntries /\ entries' = Append(said, Plain("user"))
  /\ UNCHANGED <<alive, open, lost>>

\* summarizeCompletedSession: the summary names every entry as its source and
\* is made of the last question and answer.
Archived(session) ==
  IF Len(session) > 2 /\ \E i \in DOMAIN session : session[i].kind = "assistant"
  THEN <<Plain("system"), Summary({}, 2 .. Len(session))>>
  ELSE session

\* The chat service of the web archives the session, the command line does not; both
\* may continue the same stored session.
ModelAnswers ==
  /\ Requesting
  /\ alive' = FALSE
  /\ \E said \in Answered :
       /\ entries' \in {said, Archived(said)}
       /\ lost' = lost \cap DOMAIN entries'
  /\ UNCHANGED open

\* The run ends by an abort, an error or its timeout.
Interrupted ==
  /\ alive
  /\ alive' = FALSE
  /\ open' = {}
  /\ UNCHANGED <<entries, lost>>

Compact ==
  /\ Room
  /\ Requesting
  /\ \E k \in SafeCuts :
       LET source == Earlier(Compactable, k)
       IN \E rest \in Sources(source) :
            /\ entries' = Append(entries, Summary(Compactable \ source, rest))
            /\ lost' = source \ rest
  /\ UNCHANGED <<alive, open>>

ContextNext ==
  \/ UserSpeaks \/ ModelCallsTools \/ SubagentReports \/ ToolReports
  \/ FollowUp \/ ModelAnswers \/ Interrupted \/ Compact

ContextSpec == ContextInit /\ [][ContextNext]_contextVars

-------------------------------------------------------------------------------
(* Properties.                                                             *)

\* Every request shows the model the latest question of the user, however often
\* the session was compacted and however little the budget leaves room for.
QuestionSent ==
  Requesting =>
    \A u \in OfKind(DOMAIN entries, "user") :
      u = Latest(OfKind(DOMAIN entries, "user")) => u \in View /\ \A S \in Trims : u \in S

\* Entry i answers a call of entry a.
Answers(i, a) == Is(i, "tool_result") /\ Asks(a) /\ entries[i].calls \subseteq entries[a].calls

\* In a request made of S, every result stands behind the message that asked
\* for it, with nothing between them but results of the same message.
PairedIn(S) ==
  \A r \in OfKind(S, "tool_result") :
    \E a \in S :
      /\ Answers(r, a)
      /\ SentBefore(S, a, r)
      /\ \A i \in S : SentBefore(S, a, i) /\ SentBefore(S, i, r) => Answers(i, a)

Asides == OfKind(DOMAIN entries, "branch_summary")

\* No compaction, and no summary a subagent puts between a call and its result,
\* parts a result from its message in an untrimmed request.  Two summaries in a
\* row are beyond this: the cut point steps back over one entry only.
ViewKeepsPairs ==
  (Requesting /\ \A i \in Asides : i + 1 \notin Asides) => PairedIn(View)

\* No trim parts a result from its message either, if results stand right
\* behind their messages: behind a subagent's summary they are orphans to
\* groupedEntries, and an aggressive trim may keep one for its neighbour's sake.
TrimKeepsPairs ==
  (Requesting /\ Asides = {}) => \A S \in Trims : PairedIn(S)

\* No request of src/runtime/context-view.ts, trimmed or not, parts a call from
\* its result.
ViewsKeepPairs == ContextTypeOK /\ ViewKeepsPairs /\ TrimKeepsPairs

\* Nothing is forgotten in silence: an entry a request does not show was read
\* for the summary it does show, is itself an older summary, or was dropped
\* because the summary's own request overflowed.
OnlySummarisedMissing ==
  \A i \in DOMAIN entries \ View :
    i \in entries[Latest(Compactions)].source \cup Compactions \cup lost
===============================================================================
