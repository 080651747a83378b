---------------------------- MODULE ContextPasses ----------------------------
(***************************************************************************)
(* What the loop does to a session before each request                     *)
(* (src/runtime/loop.ts): old results collapsed by turn, cleared after a   *)
(* pause, cleared when the view grows large; then, behind a compaction,    *)
(* the files last read put back in front of the view.  Token counts are    *)
(* left out: a view may or may not be large, every restored item has the   *)
(* same cost.  The trims of a view are ContextView's; here a request shows *)
(* its whole view.                                                         *)
(***************************************************************************)
EXTENDS Integers, Sequences, FiniteSets, SequencesExt

CONSTANTS
  PassTools,     \* names of the tools the model calls
  Paths,         \* what their calls name
  PassConfigs,   \* configurations of the passes
  MaxLog,        \* bound: entries of a session
  MaxPassCalls,  \* bound: calls of a session
  MaxFiles,      \* files a restore returns (8 in the code)
  MaxRestored    \* items it has room for (about 10 in the code)

Off == -1   \* a count that is set is none below 0, but for collapse
Config == [collapse : Int, timed : Nat \cup {Off}, micro : Nat \cup {Off}, names : SUBSET PassTools]

ASSUME PassAssumption ==
  /\ PassConfigs \subseteq Config /\ PassConfigs # {}
  /\ {MaxLog, MaxPassCalls, MaxFiles, MaxRestored} \subseteq Nat

VARIABLES
  passStage,    \* what the run is at; "user" between runs
  passConfig,   \* contextCollapse.preserveRecentTurns, timeBased.keepRecent,
                \* keepRecentTools (each Off when disabled), compactableToolNames
  passLog,      \* session.entries; its calls have ids in the order made
  passSeen,     \* history: calls whose results a request has shown in full
  passRestored  \* files in front of the last request, newest first

passVars == <<passStage, passConfig, passLog, passSeen, passRestored>>

PassCall == [id : Nat, tool : PassTools, path : Paths]
Texts == {"content", "cleared", "collapsed"}
LogEntry == [kind : {"user", "assistant", "tool_result", "compaction"},
             calls : SUBSET PassCall, failed : BOOLEAN, text : Texts, source : SUBSET Nat]

Fresh(kind) == [kind |-> kind, calls |-> {}, failed |-> FALSE, text |-> "content", source |-> {}]

OfLog(l, kind)  == {i \in DOMAIN l : l[i].kind = kind}
Only(S)         == CHOOSE x \in S : TRUE
Newest(S)       == CHOOSE i \in S : \A j \in S : j <= i
FromLast(S, n)  == CHOOSE i \in S : Cardinality({j \in S : j >= i}) = n
CallsOf(l, S)   == UNION {l[i].calls : i \in S}
ResultCall(l, i) == Only(l[i].calls)

\* The results at the positions S get a marker for their content.
WithMarker(l, S, marker) ==
  [i \in DOMAIN l |-> IF i \in S THEN [l[i] EXCEPT !.text = marker] ELSE l[i]]

-------------------------------------------------------------------------------
(* Collapse: results of the turns before the last preserveRecentTurns.     *)

CollapsedTools == {"Read", "Bash", "Glob", "Grep", "WebFetch", "WebSearch"}

Collapse(l) ==
  LET keep   == passConfig.collapse
      turns  == OfLog(l, "user")
      cutoff == FromLast(turns, keep)
      old    == {i \in OfLog(l, "assistant") : i < cutoff}
      ids    == {c.id : c \in {c \in CallsOf(l, old) : c.tool \in CollapsedTools}}
  IN IF keep <= 0 \/ Cardinality(turns) <= keep   \* no turn is at turnStarts[length - 0]
     THEN l
     ELSE WithMarker(l, {i \in OfLog(l, "tool_result") :
                             i < cutoff /\ ResultCall(l, i).id \in ids},
                     "collapsed")

\* slice(-keepRecent), which is all of them when keepRecent is 0.
RecentAnswers(l) ==
  LET answers == OfLog(l, "assistant")
  IN {a \in answers : passConfig.timed = 0
                        \/ Cardinality({b \in answers : b > a}) < passConfig.timed}

\* A result either clearing pass may replace.
Clearable(l, i) ==
  l[i].kind = "tool_result" /\ l[i].text # "cleared" /\ ~l[i].failed

ClearedTools == CollapsedTools \cup {"FileEdit", "FileWrite"}

TimeBased(l) ==
  LET recent == {c.id : c \in CallsOf(l, RecentAnswers(l))}
  IN WithMarker(l, {i \in DOMAIN l : /\ Clearable(l, i)
                                     /\ ResultCall(l, i).tool \in ClearedTools
                                     /\ ResultCall(l, i).id \notin recent},
                "cleared")

\* defaultCompactableToolNames unless some are configured.
CompactableTools == IF passConfig.names = {} THEN ClearedTools ELSE passConfig.names

Compactables(l) ==
  {c \in CallsOf(l, OfLog(l, "assistant")) : c.tool \in CompactableTools}
KeptCalls(l) ==
  {c \in Compactables(l) : Cardinality({d \in Compactables(l) : d.id > c.id}) < passConfig.micro}

MicroCompact(l) ==
  WithMarker(l, {i \in DOMAIN l : /\ Clearable(l, i)
                                  /\ ResultCall(l, i) \in Compactables(l) \ KeptCalls(l)},
             "cleared")

\* The three passes in the loop's order; the pause and the size are the
\* environment's.
Passed(l, paused, large) ==
  LET collapsed == IF passConfig.collapse = Off THEN l ELSE Collapse(l)
      timed     == IF passConfig.timed = Off \/ ~paused THEN collapsed ELSE TimeBased(collapsed)
  IN IF passConfig.micro = Off \/ ~large THEN timed ELSE MicroCompact(timed)

-------------------------------------------------------------------------------
(* Restore: the files last read, after a compaction has dropped them.      *)

RestorableTools == {"Read", "read_file", "read", "Grep", "Glob", "WebFetch", "web_fetch"}

Restorables(l, source) ==
  {i \in source : l[i].kind = "tool_result" /\ ResultCall(l, i).tool \in RestorableTools}

SameFile(l, i, j) ==
  ResultCall(l, i).tool = ResultCall(l, j).tool /\ ResultCall(l, i).path = ResultCall(l, j).path

\* Mutated form of Deduplicate: the first result of a file is the one kept.
DeduplicateFirst(l, found) ==
  LET kept[n \in 0 .. Len(l)] ==
        IF n = 0 THEN {}
        ELSE IF n \in found /\ ~ \E j \in kept[n - 1] : SameFile(l, n, j)
        THEN kept[n - 1] \cup {n} ELSE kept[n - 1]
  IN kept[Len(l)]

\* deduplicateByPath, entry after entry
Deduplicate(l, found) ==
  LET kept[n \in 0 .. Len(l)] ==
        IF n = 0 THEN {}
        ELSE IF n \in found THEN {j \in kept[n - 1] : ~SameFile(l, n, j)} \cup {n}
        ELSE kept[n - 1]
  IN kept[Len(l)]

\* The latest question and answer take their place first.
Anchors(l, source) ==
  Cardinality({kind \in {"user", "assistant"} : \E i \in source : l[i].kind = kind})

Restored(l, source) ==
  LET latest == Deduplicate(l, Restorables(l, source))
      fit    == Min({Cardinality(latest), MaxFiles, MaxRestored - Anchors(l, source)})
  IN [n \in 1 .. fit |-> [at |-> FromLast(latest, n), text |-> l[FromLast(latest, n)].text]]

-------------------------------------------------------------------------------
PassBlank ==
  /\ passStage = "blank"
  /\ passConfig \in {Only(PassConfigs)}
  /\ passLog = <<>>
  /\ passSeen = {}
  /\ passRestored = <<>>

StartPasses ==
  /\ passStage = "blank"
  /\ passConfig' \in PassConfigs
  /\ passStage' = "user"
  /\ UNCHANGED <<passLog, passSeen, passRestored>>

Speak ==
  /\ passStage = "user" /\ Len(passLog) < MaxLog
  /\ passLog' = Append(passLog, Fresh("user"))
  /\ passStage' = "due"
  /\ UNCHANGED <<passConfig, passSeen, passRestored>>

\* What compactions leave out of a view.
Hidden(l) ==
  LET compactions == OfLog(l, "compaction")
  IN compactions \cup (IF compactions = {} THEN {} ELSE 1 .. Newest(l[Newest(compactions)].source))

\* A compaction summarises everything up to the last question or before (see
\* ContextView for the cuts); the calls it drops have their results with them.
CompactionSources(l) ==
  {{i \in 1 .. u - 1 : l[i].kind # "compaction"} :
     u \in {u \in OfLog(l, "user") : \E i \in 1 .. u - 1 : l[i].kind = "assistant"}}

\* getCompactedSourceEntries finds the entry just appended.
Request ==
  /\ passStage = "due"
  /\ \E paused, large \in BOOLEAN :
       LET l == Passed(passLog, paused, large)
       IN \E source \in CompactionSources(l) \cup {{}} :
            /\ passLog' = IF source = {} THEN l
                          ELSE Append(l, [Fresh("compaction") EXCEPT !.source = source])
            /\ passRestored' = IF source = {} THEN <<>> ELSE Restored(l, source)
  /\ passSeen' = passSeen \cup
       {ResultCall(passLog', i).id :
          i \in {i \in OfLog(passLog', "tool_result") \ Hidden(passLog') : passLog'[i].text = "content"}}
  /\ passStage' = "asked"
  /\ UNCHANGED passConfig

Made(l) == Cardinality(CallsOf(l, OfLog(l, "assistant")))

\* An answer makes one or two calls, or ends the run with none.
ModelReplies ==
  /\ passStage = "asked" /\ Len(passLog) < MaxLog
  /\ \E n \in 0 .. 2 :
       /\ Made(passLog) + n <= MaxPassCalls
       /\ \E named \in [1 .. n -> PassTools \X Paths] :
            passLog' = Append(passLog, [Fresh("assistant") EXCEPT !.calls =
              {[id |-> Made(passLog) + k, tool |-> named[k][1], path |-> named[k][2]] : k \in 1 .. n}])
       /\ passStage' = IF n = 0 THEN "user" ELSE "calls"
  /\ passRestored' = <<>>
  /\ UNCHANGED <<passConfig, passSeen>>

\* The batch's results are appended together, in the order of the calls.
Report ==
  /\ passStage = "calls"
  /\ LET calls == passLog[Len(passLog)].calls
         n     == Cardinality(calls)
     IN /\ Len(passLog) + n <= MaxLog
        /\ \E failed \in [1 .. n -> BOOLEAN] :
             passLog' = passLog \o [k \in 1 .. n |->
               [Fresh("tool_result") EXCEPT !.calls = {c \in calls : c.id = Made(passLog) - n + k},
                                            !.failed = failed[k]]]
  /\ passStage' = "due"
  /\ UNCHANGED <<passConfig, passSeen, passRestored>>

\* The user gives up, or the model fails.
GiveUp ==
  /\ passStage \in {"due", "asked", "calls"}
  /\ passStage' = "user"
  /\ passRestored' = <<>>
  /\ UNCHANGED <<passConfig, passLog, passSeen>>

PassNext == StartPasses \/ Speak \/ Request \/ ModelReplies \/ Report \/ GiveUp

PassSpec == PassBlank /\ [][PassNext]_passVars

-------------------------------------------------------------------------------
(* Type correctness. *)
PassTypeOK ==
  /\ passStage \in {"blank", "user", "due", "asked", "calls"}
  /\ passConfig \in PassConfigs
  /\ passLog \in Seq(LogEntry) /\ Len(passLog) <= MaxLog + 1
  /\ passSeen \subseteq 1 .. MaxPassCalls
  /\ passRestored \in Seq([at : DOMAIN passLog, text : Texts])

(* A result no request has shown yet is replaced only if its run was given *)
(* up before the question now asked, or if its answer made more calls than *)
(* keepRecentTools keeps.                                                  *)
SparesUnseen ==
  \A i \in OfLog(passLog, "tool_result") :
    LET c      == ResultCall(passLog, i)
        answer == Only({a \in OfLog(passLog, "assistant") : c \in passLog[a].calls})
    IN /\ passLog[i].text = "content" /\ passLog'[i].text # "content" /\ c.id \notin passSeen
       => \/ i < Newest(OfLog(passLog, "user"))
          \/ /\ passConfig.micro # Off
             /\ Cardinality({d \in passLog[answer].calls : d.tool \in CompactableTools})
                  > passConfig.micro

(* What a restore puts in front of a request is the newest the compaction  *)
(* took away: no file twice, none whose later result was dropped as well,  *)
(* and none passed over for an older one.                                  *)
RestoresLatest ==
  \A n \in DOMAIN passRestored :
    LET at     == passRestored[n].at
        source == passLog[Len(passLog)].source
        taken  == {passRestored[m].at : m \in 1 .. n}
    IN /\ at \in source
       /\ \A i \in source :
            /\ i > at /\ passLog[i].kind = "tool_result"
            /\ ResultCall(passLog, i).tool \in RestorableTools
            => ~SameFile(passLog, i, at) /\ \E j \in taken : j >= i /\ SameFile(passLog, i, j)

(* The passes of src/runtime spare what the model has not read, and a      *)
(* restore gives back the newest.                                          *)
PassesSparing == [][PassTypeOK /\ SparesUnseen /\ RestoresLatest']_passVars
===============================================================================
