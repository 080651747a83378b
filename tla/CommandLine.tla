---------------------------- MODULE CommandLine ----------------------------
(***************************************************************************)
(* The command line of cli/args.ts and cli/main.ts: the words of a line    *)
(* are split into flags and at most one positional word, the flags and the *)
(* defaults of the config file are made into a command, or into complaints *)
(* that end the process with exit code 2, and the command is dispatched.   *)
(*                                                                         *)
(* A line is a sequence of tokens.  What main.ts has to tell apart in a    *)
(* word that is not a flag: the empty word, a word every flag accepts and  *)
(* a word that the flags with a fixed set of values refuse.                *)
(***************************************************************************)
EXTENDS Naturals, FiniteSets, Sequences, SequencesExt

CONSTANTS
  MaxTokens,     \* bound: tokens of a line put together word by word
  MaxOptions,    \* bound: options of a line put together option by option
  LooseTokens,   \* the tokens lines are put together from word by word
  TypedFlags,    \* the flags lines are put together from option by option, by command
  Choosy         \* the flags among them with a fixed set of values

Empty == ""
Fine  == "word"
Odd   == "odd word"
Words == {Empty, Fine, Odd}
Absent == "undefined"

Truthy(v) == v \notin {Absent, Empty}

BooleanFlags == {"--json", "--help", "--force", "--list", "--open"}

\* as the code has it, "--token-budget" is not among them
ValueFlags ==
  {"--provider", "--model", "--base-url", "--api-key", "--provider-format",
   "--tool-profile", "--report", "--report-format", "--history", "--format",
   "--output", "--trace", "--run-id", "--left", "--right", "--agent",
   "--baseline-agent", "--candidate-agent", "--task", "--suite", "--session",
   "--resume", "--session-dir", "--port", "--host", "--static-dir", "--sop-dir",
   "--output-dir", "--skill-bank", "--config", "--auto", "--generate"}

CommandKinds ==
  {"models.discover", "mcp.status", "mcp.diagnostics", "chat", "web", "run",
   "benchmark", "evolve", "replay", "diff", "sop.list", "sop.run", "sop.import",
   "sop.deposit"}

\* commands that take a word of their own
WithPositional == {"chat", "sop.run", "sop.import"}

ModelFlags == {"--provider", "--model", "--base-url"}
Defaulted == ModelFlags \union {"--agent", "--tool-profile"}

ASSUME LineAssumption ==
  /\ MaxTokens \in Nat
  /\ \A kind \in CommandKinds :
       TypedFlags[kind] \subseteq ValueFlags \union BooleanFlags /\ IsFiniteSet(TypedFlags[kind])

VARIABLES
  lineStage,   \* "idle", "typed", "split", "parsed", "built", "ran"
  verb,        \* the command the first words name, "help" or "unknown"
  line,        \* the tokens after them
  defaults,    \* the flags the config file has a value for
  flagArgs,    \* the tokens parseFlags reads
  parsed,      \* [flags, positional, complaints] of the line
  built,       \* the command, as [kind, fields], or Absent
  ranAs,       \* the handler, and for evolve its mode
  exit         \* exit code, or 9 while there is none

lineVars == <<lineStage, verb, line, flagArgs, defaults, parsed, built, ranAs, exit>>

NothingParsed == [flags |-> << >>, positional |-> Absent, complaints |-> {}]
NoCommand     == [kind |-> "none", fields |-> << >>]

(***************************************************************************)
(* Splitting the line.                                                     *)
(***************************************************************************)

\* parseFlags: a flag takes the next token for its value unless that is a flag too
HasValue(tokens, i) ==
  tokens[i] \in ValueFlags /\ i < Len(tokens) /\ tokens[i + 1] \in Words

\* the flags of the line, the later one of two winning
FlagsOf(tokens) ==
  LET of(f) == {i \in DOMAIN tokens : tokens[i] = f /\ (f \in BooleanFlags \/ HasValue(tokens, i))}
  IN  [f \in {g \in ValueFlags \union BooleanFlags : of(g) # {}} |->
         IF f \in BooleanFlags THEN Fine
         ELSE tokens[1 + (CHOOSE i \in of(f) : \A j \in of(f) : j <= i)]]

ParseFlags(tokens) ==
  LET is(i, kinds) == tokens[i] \in kinds
  IN  [flags |-> FlagsOf(tokens),
       complaints |->
         {"missing value" : i \in {k \in DOMAIN tokens : is(k, ValueFlags) /\ ~HasValue(tokens, k)}}
         \union {"unknown option" : i \in {k \in DOMAIN tokens :
                      ~is(k, ValueFlags \union BooleanFlags \union Words)}}
         \union {"unexpected" : i \in {k \in DOMAIN tokens :
                      is(k, Words) /\ ~(k > 1 /\ HasValue(tokens, k - 1))}}]

\* the first pass over the line of a command with a positional word: a flag
\* that is not boolean, known or not, takes the next token with it
Swallowed(tokens) ==
  LET at[i \in 1..Len(tokens)] ==
        i > 1 /\ tokens[i - 1] \notin Words \union BooleanFlags /\ ~at[i - 1]
  IN  at

LooseWords(tokens) == {i \in DOMAIN tokens : tokens[i] \in Words /\ ~Swallowed(tokens)[i]}
FirstOf(positions) == IF positions = {} THEN 0
                      ELSE CHOOSE i \in positions : \A j \in positions : i <= j

\* `first` is the position of the word the command takes, or 0; every other loose
\* word that is not skipped is complained about
Split(tokens, loose, first, skipped) ==
  [positional |-> IF first = 0 THEN Absent ELSE tokens[first],
   flagArgs   |-> [n \in 1..(Len(tokens) - Cardinality(loose)) |->
                     tokens[CHOOSE i \in DOMAIN tokens \ loose :
                              Cardinality({j \in DOMAIN tokens \ loose : j <= i}) = n]],
   complaints |-> IF loose \subseteq {first} \union skipped THEN {} ELSE {"unexpected"}]

\* parseChatArgs and parseSopRunArgs: the first word, empty or not, is it
SplitChatArgs(tokens) ==
  LET loose == LooseWords(tokens) IN Split(tokens, loose, FirstOf(loose), {})

\* parseSopImportArgs: the first word that is not empty is it, and the empty ones
\* in front of it are dropped
SplitImportArgs(tokens) ==
  LET loose == LooseWords(tokens)
      first == FirstOf({i \in loose : tokens[i] # Empty})
  IN  Split(tokens, loose, first, {i \in loose : first = 0 \/ i < first})

SplitTokens(kind, tokens) ==
  CASE kind \in {"chat", "sop.run"} -> SplitChatArgs(tokens)
    [] kind = "sop.import" -> SplitImportArgs(tokens)
    [] OTHER -> [positional |-> Absent, flagArgs |-> tokens, complaints |-> {}]

(***************************************************************************)
(* From flags to a command.                                                *)
(***************************************************************************)

\* `optionValue`: the flag as it was typed, an empty value included, or the default
OptionValue(flags, f) ==
  IF f \in DOMAIN flags THEN flags[f]
  ELSE IF f \in defaults THEN Fine ELSE Absent

\* `stringFlag`: no default
StringFlag(flags, f) == IF f \in DOMAIN flags THEN flags[f] ELSE Absent

\* values outside the fixed set of the flag; an empty port is port 0
BadFormat(flags)  == StringFlag(flags, "--format") \notin {Absent, Fine} /\ "--json" \notin DOMAIN flags
BadProviderFormat(flags) == StringFlag(flags, "--provider-format") \notin {Absent, Fine}
BadProfile(flags) == OptionValue(flags, "--tool-profile") \notin {Absent, Fine}
BadReportFormat(flags) == StringFlag(flags, "--report-format") \notin {Absent, Fine}
BadPort(flags)    == StringFlag(flags, "--port") = Odd

\* `requiredOption` for each flag of a set
MissingOption(flags, fs) == {f \in fs : ~Truthy(OptionValue(flags, f))}

\* What a builder makes of the flags: the fields it sets, and its complaints.
\* One that finds a required option missing returns no command.
Result(kind, flags, required, optional, complaints) ==
  LET fields == [f \in {g \in required \union optional : Truthy(OptionValue(flags, g))} |->
                   OptionValue(flags, f)]
      missing == MissingOption(flags, required)
  IN  [command |-> IF missing = {} THEN [kind |-> kind, fields |-> fields] ELSE NoCommand,
       complaints |-> (IF missing = {} THEN complaints ELSE {"missing option"})]

Refusal(complaint) == [command |-> NoCommand, complaints |-> {complaint}]

If(condition, complaint) == IF condition THEN {complaint} ELSE {}

BuildModelsDiscover(flags) ==
  Result("models.discover", flags, {"--provider", "--base-url"}, {"--api-key"}, {})

BuildMcp(kind, flags) == Result(kind, flags, {}, {}, {})

BuildChat(flags) ==
  LET resuming == Truthy(StringFlag(flags, "--resume"))
      needed   == ModelFlags \union {"--agent"}
  IN  Result("chat", flags, IF resuming THEN {} ELSE needed,
             {"--api-key", "--session", "--resume", "--session-dir", "--tool-profile"}
               \union (IF resuming THEN needed ELSE {}),
             If(BadProfile(flags), "tool profile")
               \union If(resuming /\ Truthy(StringFlag(flags, "--session")), "session and resume"))

BuildWeb(flags) ==
  LET chat == BuildChat(flags)
  IN  IF chat.command = NoCommand THEN chat
      ELSE [command |-> [chat.command EXCEPT !.kind = "web"],
            complaints |-> chat.complaints \union If(BadPort(flags), "port")]

BuildRun(flags) ==
  Result("run", flags, ModelFlags \union {"--agent", "--task"}, {"--api-key"},
         If(BadProfile(flags), "tool profile"))

BuildBenchmark(flags) ==
  Result("benchmark", flags, ModelFlags \union {"--agent", "--suite"}, {"--api-key", "--report"},
         If(BadProfile(flags), "tool profile") \union If(BadReportFormat(flags), "report format"))

BuildEvolveList(flags) ==
  LET bad == If(BadProfile(flags), "tool profile")
               \union If(BadReportFormat(flags), "report format")
  IN  IF Truthy(StringFlag(flags, "--history"))
      THEN [command |-> [kind |-> "evolve",
                         fields |-> [f \in {"--list", "--history"} |-> flags[f]]],
            complaints |-> bad]
      ELSE Refusal("history")

BuildEvolveCommon(flags, more) ==
  LET bad == If(BadProfile(flags), "tool profile")
               \union If(BadReportFormat(flags), "report format")
      result == Result("evolve", flags, ModelFlags \union {"--baseline-agent", "--suite"},
                       more \union {"--history", "--report", "--api-key"}, bad)
  IN  [result EXCEPT !.complaints = @ \union bad]

\* "--auto" with a count that is no positive integer is complained about and
\* read as if it had not been given
BuildEvolve(flags) ==
  LET auto      == StringFlag(flags, "--auto")
      generate  == Truthy(StringFlag(flags, "--generate"))
      wrong     == If(auto = Odd, "auto")
      rest ==
        CASE "--list" \in DOMAIN flags -> BuildEvolveList(flags)
          [] "--list" \notin DOMAIN flags /\ auto = Fine /\ ~generate -> Refusal("generate")
          [] "--list" \notin DOMAIN flags /\ auto = Fine /\ generate ->
               BuildEvolveCommon(flags, {"--auto", "--generate"})
          [] "--list" \notin DOMAIN flags /\ auto # Fine /\ generate ->
               BuildEvolveCommon(flags, {"--generate"})
          [] OTHER ->
               Result("evolve", flags,
                      ModelFlags \union {"--baseline-agent", "--candidate-agent", "--suite"},
                      {"--history", "--report", "--api-key"},
                      If(BadProfile(flags), "tool profile")
                        \union If(BadReportFormat(flags), "report format"))
  IN  [rest EXCEPT !.complaints = @ \union wrong]

BuildReplay(flags) ==
  IF Truthy(StringFlag(flags, "--trace"))
  THEN Result("replay", flags, {"--trace"}, {"--run-id"}, {})
  ELSE Refusal("missing option")

BuildDiff(flags) == Result("diff", flags, {"--left", "--right"}, {}, {})

\* the commands on procedures: the ones that need a word of their own refuse an
\* empty one
BuildSop(kind, flags, positional) ==
  IF kind \in {"sop.run", "sop.import"} /\ ~Truthy(positional) THEN Refusal("argument")
  ELSE Result(kind, flags, {}, {"--sop-dir", "--output-dir", "--skill-bank"}, {})

Build(kind, p) ==
  CASE kind = "models.discover" -> BuildModelsDiscover(p.flags)
    [] kind \in {"mcp.status", "mcp.diagnostics"} -> BuildMcp(kind, p.flags)
    [] kind = "chat" -> BuildChat(p.flags)
    [] kind = "web" -> BuildWeb(p.flags)
    [] kind = "run" -> BuildRun(p.flags)
    [] kind = "benchmark" -> BuildBenchmark(p.flags)
    [] kind = "evolve" -> BuildEvolve(p.flags)
    [] kind = "replay" -> BuildReplay(p.flags)
    [] kind = "diff" -> BuildDiff(p.flags)
    [] OTHER -> BuildSop(kind, p.flags, p.positional)

\* the complaints of parseOutputFormat and commonCommandFields, for every command
CommonComplaints(flags) ==
  If(BadFormat(flags), "format") \union If(BadProviderFormat(flags), "provider format")

(***************************************************************************)
(* Running it.                                                             *)
(***************************************************************************)

\* handleEvolve as a bug would have it: a generator is run once whatever --auto says
GenerateFirst(fields) ==
  CASE {"--list", "--history"} \subseteq DOMAIN fields -> "list"
    [] {"--generate", "--baseline-agent", "--suite"} \subseteq DOMAIN fields -> "generate"
    [] OTHER -> "compare"

\* which of its four modes handleEvolve runs the command in
EvolveMode(fields) ==
  CASE {"--list", "--history"} \subseteq DOMAIN fields -> "list"
    [] {"--auto", "--generate", "--baseline-agent", "--suite"} \subseteq DOMAIN fields -> "auto"
    [] {"--generate", "--baseline-agent", "--suite"} \subseteq DOMAIN fields
         /\ "--auto" \notin DOMAIN fields -> "generate"
    [] {"--candidate-agent", "--baseline-agent", "--suite"} \subseteq DOMAIN fields
         /\ "--generate" \notin DOMAIN fields -> "compare"
    [] OTHER -> "nothing to do"

LineBlank ==
  /\ lineStage = "idle" /\ verb = Absent /\ line = << >> /\ flagArgs = << >> /\ defaults = {}
  /\ parsed = NothingParsed /\ built = NoCommand /\ ranAs = Absent /\ exit = 9

LineInit == LineBlank

\* a line put together from tokens in any order
TypeLoosely(kind, tokens, given) ==
  /\ lineStage = "idle"
  /\ lineStage' = "typed"
  /\ verb' = kind
  /\ line' = tokens
  /\ defaults' = given
  /\ UNCHANGED <<flagArgs, parsed, built, ranAs, exit>>

\* a line of whole options, with a word in front for the commands that take one
TypeOptions(kind, flags, given) ==
  LET valued == SetToSeq(DOMAIN flags \ BooleanFlags)
      valuedWords == [n \in 1..(2 * Len(valued)) |->
                        IF n % 2 = 1 THEN valued[(n + 1) \div 2] ELSE flags[valued[n \div 2]]]
      options == SetToSeq(DOMAIN flags \intersect BooleanFlags) \o valuedWords
  IN  /\ lineStage = "idle"
      /\ lineStage' = "typed"
      /\ verb' = kind
      /\ line' = (IF kind \in WithPositional THEN <<Fine>> ELSE << >>) \o options
      /\ defaults' = given
      /\ UNCHANGED <<flagArgs, parsed, built, ranAs, exit>>

\* no words, "help", or a first word that names no command
TypeNothing(v) ==
  /\ lineStage = "idle"
  /\ lineStage' = "built"
  /\ verb' = v
  /\ parsed' = [NothingParsed EXCEPT !.complaints = If(v = "unknown", "unknown command")]
  /\ UNCHANGED <<line, flagArgs, defaults, built, ranAs, exit>>

\* parseCliArgs: the word of the command apart from its flags
SplitLine ==
  LET split == SplitTokens(verb, line)
  IN  /\ lineStage = "typed"
      /\ lineStage' = "split"
      /\ flagArgs' = split.flagArgs
      /\ parsed' = [parsed EXCEPT !.positional = split.positional, !.complaints = split.complaints]
      /\ UNCHANGED <<verb, line, defaults, built, ranAs, exit>>

\* then the flags, and the fields every command has
ParseLine ==
  LET p == ParseFlags(flagArgs)
  IN  /\ lineStage = "split"
      /\ lineStage' = "parsed"
      /\ parsed' = [parsed EXCEPT !.flags = p.flags,
                      !.complaints = @ \union p.complaints \union CommonComplaints(p.flags)]
      /\ UNCHANGED <<verb, line, flagArgs, defaults, built, ranAs, exit>>

\* then the command, unless "--help" is among them
BuildLine ==
  /\ lineStage = "parsed"
  /\ lineStage' = "built"
  /\ IF "--help" \in DOMAIN parsed.flags
     THEN verb' = "help" /\ UNCHANGED <<parsed, built>>
     ELSE \E b \in {Build(verb, parsed)} :
            /\ parsed' = [parsed EXCEPT !.complaints = @ \union b.complaints]
            /\ built' = b.command
            /\ UNCHANGED verb
  /\ UNCHANGED <<line, flagArgs, defaults, ranAs, exit>>

\* any complaint, and the line is not run; so is one that gave no command
RefuseLine ==
  /\ lineStage = "built"
  /\ parsed.complaints # {} \/ (verb # "help" /\ built = NoCommand)
  /\ lineStage' = "ran"
  /\ exit' = 2
  /\ UNCHANGED <<verb, line, flagArgs, defaults, parsed, built, ranAs>>

PrintHelp ==
  /\ lineStage = "built"
  /\ verb = "help" /\ parsed.complaints = {}
  /\ lineStage' = "ran"
  /\ exit' = 0
  /\ UNCHANGED <<verb, line, flagArgs, defaults, parsed, built, ranAs>>

\* runCommand and, for chat and evolve, the mode of the handler; a handler that
\* throws or reports a failure ends the process with 1
RunLine(code) ==
  /\ lineStage = "built"
  /\ parsed.complaints = {} /\ built # NoCommand
  /\ lineStage' = "ran"
  /\ ranAs' = CASE built.kind = "evolve" -> EvolveMode(built.fields)
                [] built.kind = "chat" ->
                     IF Truthy(parsed.positional) THEN "turn" ELSE "repl"
                [] OTHER -> built.kind
  /\ exit' = code
  /\ UNCHANGED <<verb, line, flagArgs, defaults, parsed, built>>

LineNext ==
  \/ /\ lineStage = "idle"
     /\ \E kind \in CommandKinds, n \in 1..MaxTokens : \E tokens \in [1..n -> LooseTokens] :
          TypeLoosely(kind, tokens, Defaulted)
  \/ /\ lineStage = "idle"
     /\ \E kind \in CommandKinds, given \in {{}, ModelFlags, Defaulted} : \E used \in SUBSET TypedFlags[kind] :
         /\ Cardinality(used) <= MaxOptions
         /\ \E flags \in [used -> Words] :
              /\ \A f \in used : flags[f] = Odd => f \in Choosy
              /\ TypeOptions(kind, flags, given)
  \/ \E v \in {"help", "unknown"} : TypeNothing(v)
  \/ SplitLine
  \/ ParseLine
  \/ BuildLine
  \/ RefuseLine
  \/ PrintHelp
  \/ \E code \in {0, 1} : RunLine(code)

LineSpec == LineInit /\ [][LineNext]_lineVars

(***************************************************************************)
(* Properties.                                                             *)
(***************************************************************************)

LineTypeOK ==
  /\ lineStage \in {"idle", "typed", "split", "parsed", "built", "ran"}
  /\ verb \in CommandKinds \union {Absent, "help", "unknown"}
  /\ line \in Seq(LooseTokens \union ValueFlags \union BooleanFlags \union Words)
  /\ defaults \subseteq Defaulted
  /\ DOMAIN parsed.flags \subseteq ValueFlags \union BooleanFlags
  /\ parsed.positional \in Words \union {Absent}
  /\ built = NoCommand \/ built.kind \in CommandKinds
  /\ exit \in {0, 1, 2, 9}

\* A line that runs was understood to its last token: every token is a flag, the
\* value of the flag in front of it, the command's own word, or an empty word in
\* its place; and of a flag given twice the later value counts
\* (args.ts:459 parseFlags, :486 parseChatArgs and its two copies).
EveryTokenRead ==
  ranAs # Absent =>
    \A i \in DOMAIN line :
      \/ line[i] \in BooleanFlags /\ line[i] \in DOMAIN parsed.flags
      \/ /\ line[i] \in ValueFlags
         /\ i < Len(line) /\ line[i + 1] \in Words
         /\ (\A j \in (i + 1)..Len(line) : line[j] # line[i]) => parsed.flags[line[i]] = line[i + 1]
      \/ line[i] \in Words /\ i > 1 /\ line[i - 1] \in ValueFlags
      \/ line[i] \in Words /\ (line[i] = parsed.positional \/ line[i] = Empty)

\* A process that refuses its line says why: no builder gives up without a
\* complaint (main.ts:17, args.ts:551-1055).
RefusalExplained ==
  exit = 2 => parsed.complaints # {}

\* The handler of evolve runs in the mode the line asks for, and never reaches the
\* error it keeps for a command that fits none (commands.ts:243-250): what the
\* builder accepts and what the handler looks for agree.
EvolveRunsAsAsked ==
  ranAs # Absent /\ built.kind = "evolve" =>
    LET given(f) == f \in DOMAIN parsed.flags /\ parsed.flags[f] # Empty
    IN  ranAs = (CASE given("--list") -> "list"
                   [] ~given("--list") /\ given("--auto") -> "auto"
                   [] ~given("--list") /\ ~given("--auto") /\ given("--generate") -> "generate"
                   [] OTHER -> "compare")

\* A command runs with what its handler opens without asking: files, and a model
\* for whatever talks to one.  A chat that resumes takes them from the stored
\* session instead (commands.ts:112, :126, :526).
HandlerHasItsOptions ==
  ranAs # Absent =>
    LET has(fs) == fs \subseteq DOMAIN built.fields
    IN  /\ built.kind \in {"chat", "web"} =>
             has(ModelFlags \union {"--agent"}) \/ has({"--resume"})
        /\ built.kind \in {"run", "benchmark"} => has(ModelFlags \union {"--agent"})
        /\ built.kind = "run" => has({"--task"})
        /\ built.kind = "benchmark" => has({"--suite"})
        /\ ranAs \in {"auto", "generate", "compare"} =>
             has(ModelFlags \union {"--baseline-agent", "--suite"})
        /\ ranAs = "auto" => has({"--generate"})
        /\ ranAs = "list" => has({"--history"})
        /\ ~has({"--session", "--resume"})

\* A command line (src/cli/args.ts) is refused with a reason or does what it says.
LineUnderstood ==
  /\ LineTypeOK /\ EveryTokenRead /\ RefusalExplained
  /\ EvolveRunsAsAsked /\ HandlerHasItsOptions

=============================================================================
