---------------------------- MODULE ModelRouting ----------------------------
(***************************************************************************)
(* Which model a request goes to: cli/config.ts reads the providers and    *)
(* the routing of the config file, cli/commands.ts settles flags, stored   *)
(* startup context and defaults into one command, cli/model-routing.ts     *)
(* fills a ModelRegistry from it, and models/router.ts resolves every      *)
(* request.  A process is one pass from Launch to Exit; a chat may store   *)
(* its startup context, which a later process resumes from.                *)
(*                                                                         *)
(* A provider stands for its id and for the one model asked of it, and a   *)
(* base URL for the provider whose endpoint it is.                         *)
(***************************************************************************)
EXTENDS Naturals, FiniteSets

CONSTANTS
  Providers,        \* ids of providers
  Primary,          \* the provider, model and base URL of the config file
  Other,            \* the provider the flags may name
  MaxLaunches,      \* bound: processes started one after the other
  Unset             \* stands for undefined

ASSUME RoutingAssumption ==
  Primary \in Providers /\ Other \in Providers /\ Unset \notin Providers /\ MaxLaunches \in Nat

Formats   == {"openai-responses", "openai-chat", "anthropic-messages"}
Purposes  == {"main", "compaction"}
Misplaced == "no baseURL"       \* an entry of config.providers without baseURL

VARIABLES
  phase,       \* "idle", "parsed", "resolved", "ready", "refused", "failed"
  launches,    \* processes started so far
  config,      \* the config file
  agent,       \* modelRouting of the agent file
  kind,        \* the command of this process, "chat" or "run"
  flags,       \* its flags
  saved,       \* startupContext of the stored session, or Unset
  cmd,         \* the resolved command, or Unset
  registered,  \* providers of the ModelRegistry: id -> [url, format]
  models,      \* models of the ModelRegistry: provider -> format
  last         \* the latest request and how it was resolved, or Unset

routingVars == <<phase, launches, config, agent, kind, flags, saved, cmd, registered, models, last>>

\* `a ?? b`
Or(a, b) == IF a # Unset THEN a ELSE b

(***************************************************************************)
(* The config file and the agent file.  Routing has at most the alias "a"; *)
(* a route or a default alias may name an alias "b" nobody defines.        *)
(***************************************************************************)
Routings ==
  [aliases : {Unset, Other}, main : {Unset, "a"},
   compaction : {Unset, "b"}, defaultAlias : {Unset, "b"}]

Configs ==
  {c \in [own     : {Primary},          \* provider, model and baseURL
          entries : [Providers -> {Unset, Misplaced, "anthropic-messages"}],
          routing : Routings \union {Unset}] : c.entries[Primary] # Misplaced}

NoConfig == [own |-> Unset, entries |-> [p \in Providers |-> Unset], routing |-> Unset]

NoRouting == [aliases |-> Unset, main |-> Unset, compaction |-> Unset, defaultAlias |-> Unset]

AgentRoutings == {NoRouting, [NoRouting EXCEPT !.aliases = Other, !.compaction = "a"]}

Flags == [provider : {Unset, Other}, url : {Unset, Other},
          format : {Unset, "openai-chat"}]

\* parseModelRoutes: a route must name a defined alias, but only where aliases
\* are given at all; the default alias is not looked up
UnknownAlias(r) == r # Unset /\ r.aliases # Unset /\ "b" \in {r.main, r.compaction}

\* parseProvider: an entry without a base URL is dropped, without a diagnostic
Entries ==
  [p \in {q \in Providers : config.entries[q] \notin {Unset, Misplaced}} |-> config.entries[p]]

\* the fields neither a flag nor the config file gives; chat asks for them
\* after it has looked into the stored session
Missing(fs) == {f \in {"provider", "url"} : fs[f] = Unset /\ config.own = Unset}

(***************************************************************************)
(* resolveChatCommand: a flag wins over the stored startup context, which  *)
(* wins over the config file.  A flag that names a model, a provider, its  *)
(* URL or its format drops the stored providers and all routing.           *)
(***************************************************************************)
Overrides == \E f \in DOMAIN flags : flags[f] # Unset
StoredField(f)   == IF saved = Unset THEN Unset ELSE saved[f]

\* Mutated form of Settle: the configuration goes before the saved session.
ConfigFirst(f, default) == Or(flags[f], Or(default, StoredField(f)))

Settle(f, default) == Or(flags[f], Or(StoredField(f), default))

ResolvedChat ==
  [provider |-> Settle("provider", config.own),
   url      |-> Settle("url", config.own),
   format   |-> Settle("format", "openai-responses"),
   explicit |-> flags.format # Unset,
   entries  |-> IF Overrides THEN Entries ELSE Or(StoredField("entries"), Entries),
   routing  |-> IF Overrides THEN Unset ELSE Or(StoredField("routing"), config.routing)]

\* buildRun, buildBenchmark, buildEvolve: the same fields without
\* providedFlags, so no such command counts as explicit
ResolvedRun ==
  [provider |-> Or(flags.provider, config.own),
   url      |-> Or(flags.url, config.own),
   format   |-> Or(flags.format, "openai-responses"),
   explicit |-> FALSE,
   entries  |-> Entries,
   routing  |-> config.routing]

\* mergePrimaryProvider and primaryProvider for the command's own provider
PrimaryConfig ==
  [url |-> cmd.url,
   format |-> IF cmd.explicit \/ cmd.provider \notin DOMAIN cmd.entries
              THEN cmd.format ELSE cmd.entries[cmd.provider]]

\* providerConfigs: the configured providers, the command's own one among them
ProviderConfigs ==
  [p \in DOMAIN cmd.entries \union {cmd.provider} |->
     IF p = cmd.provider THEN PrimaryConfig ELSE [url |-> p, format |-> cmd.entries[p]]]

\* providerFormat, of a routed model's provider
ProviderFormat(p) ==
  IF p \notin DOMAIN cmd.entries \/ (p = cmd.provider /\ cmd.explicit)
  THEN cmd.format ELSE cmd.entries[p]

\* effectiveModelRouting: the command's routing over the agent's, with the
\* alias "default" for the command's own model
EffectiveRouting ==
  LET over == IF cmd.routing = Unset THEN NoRouting ELSE cmd.routing
  IN [f \in DOMAIN NoRouting |-> Or(over[f], agent[f])]

\* routedModels: the main model and every alias
RoutedModels == {cmd.provider} \union ({EffectiveRouting.aliases} \ {Unset})

(***************************************************************************)
(* DeterministicModelRouter.resolve and ModelRegistry.createClient.        *)
(***************************************************************************)
RouteAlias(r, purpose) == Or(r[purpose], Or(r.defaultAlias, "default"))

\* the provider of the alias, Unset when no alias of that name is defined
AliasModel(r, alias, own) ==
  CASE alias = "default" -> own
    [] alias = "a"       -> r.aliases
    [] OTHER             -> Unset

Outcome(p) ==
  IF p = Unset THEN "missing alias"
  ELSE IF p \notin DOMAIN registered THEN "provider not registered"
  ELSE IF p \notin DOMAIN models THEN "model not registered"
  ELSE IF registered[p].format # models[p] THEN "format mismatch" ELSE "served"

-----------------------------------------------------------------------------

NoFlags == [provider |-> Unset, url |-> Unset, format |-> Unset]

RoutingInit ==
  /\ phase = "idle" /\ launches = 0 /\ config = NoConfig /\ agent = NoRouting
  /\ kind = "chat" /\ flags = NoFlags /\ saved = Unset
  /\ cmd = Unset /\ registered = << >> /\ models = << >> /\ last = Unset

\* the user writes the files, before the first process
Configure(c, a) ==
  /\ phase = "idle" /\ launches = 0 /\ config = NoConfig
  /\ config' = c /\ agent' = a
  /\ UNCHANGED <<phase, launches, kind, flags, saved, cmd, registered, models, last>>

\* the next process starts in a directory without a config file
Move ==
  /\ phase = "idle" /\ launches > 0 /\ config # NoConfig
  /\ config' = NoConfig
  /\ UNCHANGED <<phase, launches, agent, kind, flags, saved, cmd, registered, models, last>>

\* loadCliDefaults and parseCliArgs: any diagnostic ends the process with a
\* usage error.  A chat resumes the stored session when there is one.
Launch(k, fs) ==
  /\ phase = "idle" /\ launches < MaxLaunches
  /\ launches' = launches + 1
  /\ kind' = k /\ flags' = fs
  /\ phase' = IF UnknownAlias(config.routing) \/ (Missing(fs) # {} /\ (k = "run" \/ saved = Unset))
              THEN "refused" ELSE "parsed"
  /\ UNCHANGED <<config, agent, saved, cmd, registered, models, last>>

Resolve ==
  /\ phase = "parsed"
  /\ cmd' = IF kind = "chat" THEN ResolvedChat ELSE ResolvedRun
  /\ phase' = "resolved"
  /\ UNCHANGED <<launches, config, agent, kind, flags, saved, registered, models, last>>

\* registerModel throws for a model whose provider is not registered
Register ==
  /\ phase = "resolved"
  /\ registered' = ProviderConfigs
  /\ IF RoutedModels \subseteq DOMAIN registered'
     THEN models' = [p \in RoutedModels |-> ProviderFormat(p)] /\ phase' = "ready"
     ELSE models' = << >> /\ phase' = "failed"
  /\ UNCHANGED <<launches, config, agent, kind, flags, saved, cmd, last>>

\* RoutingModelClient.complete for a request of the main agent
Ask(purpose) ==
  /\ phase = "ready"
  /\ LET r == EffectiveRouting
         alias == RouteAlias(r, purpose)
         p == AliasModel(r, alias, cmd.provider)
     IN last' = [asker |-> "main agent", purpose |-> purpose, provider |-> p, outcome |-> Outcome(p)]
  /\ UNCHANGED <<phase, launches, config, agent, kind, flags, saved, cmd, registered, models>>

\* a subagent without routing of its own, whose model the registry of the
\* command was never told of
AskSubagent(p) ==
  /\ phase = "ready"
  /\ last' = [asker |-> "subagent", purpose |-> "main", provider |-> p, outcome |-> Outcome(p)]
  /\ UNCHANGED <<phase, launches, config, agent, kind, flags, saved, cmd, registered, models>>

\* runChatTurn stores the session with storedStartupContext(command)
Save ==
  /\ phase = "ready" /\ kind = "chat"
  /\ last # Unset /\ last.outcome = "served"
  /\ saved' = [provider |-> cmd.provider, url |-> cmd.url, format |-> cmd.format,
               entries |-> IF DOMAIN cmd.entries = {} THEN Unset ELSE cmd.entries,
               routing |-> cmd.routing]
  /\ UNCHANGED <<phase, launches, config, agent, kind, flags, cmd, registered, models, last>>

\* the process ends, in whichever phase
Exit ==
  /\ phase \in {"refused", "failed", "ready"}
  /\ phase' = "idle"
  /\ kind' = "chat" /\ flags' = NoFlags /\ cmd' = Unset /\ registered' = << >> /\ models' = << >> /\ last' = Unset
  /\ UNCHANGED <<launches, config, agent, saved>>

RoutingNext ==
  \/ \E c \in Configs, a \in AgentRoutings : Configure(c, a)
  \/ Move
  \/ \E k \in {"chat", "run"}, fs \in Flags : Launch(k, fs)
  \/ Resolve \/ Register \/ Save \/ Exit
  \/ \E purpose \in Purposes : Ask(purpose)
  \/ AskSubagent(Other)

RoutingSpec == RoutingInit /\ [][RoutingNext]_routingVars

-----------------------------------------------------------------------------

\* Types of the variables.
RoutingTypeOK ==
  /\ phase \in {"idle", "parsed", "resolved", "ready", "refused", "failed"}
  /\ launches \in 0..MaxLaunches
  /\ config \in Configs \union {NoConfig} /\ agent \in AgentRoutings
  /\ kind \in {"chat", "run"} /\ flags \in Flags
  /\ DOMAIN registered \subseteq Providers /\ DOMAIN models \subseteq DOMAIN registered
  /\ \A p \in DOMAIN models : models[p] \in Formats
  /\ \A p \in DOMAIN registered : registered[p] \in [url : Providers, format : Formats]
  /\ saved # Unset => saved.format \in Formats /\ {saved.provider, saved.url} \subseteq Providers

\* A process that got past its startup has everything its own agent can be
\* routed to: no request of the main agent is refused for a provider or a model
\* that was never registered, or for a format that two readings of the config
\* (providerConfigs and providerFormat) disagree on.
MainAlwaysRegistered ==
  last # Unset /\ last.asker = "main agent" => last.outcome \in {"served", "missing alias"}

\* Every request leaves for the endpoint of the provider that was chosen: only
\* the command's own provider may be asked at another URL, and only at the one
\* a flag, the stored session or the config file gives for it.
EndpointsStay ==
  phase = "ready" => \A p \in DOMAIN registered : p # cmd.provider => registered[p].url = p

\* A chat resumed without flags talks to the provider, at the URL, with the
\* configured providers it was saved with, wherever it is resumed and whatever
\* the config file has become.
ResumedAsSaved ==
  phase = "ready" /\ kind = "chat" /\ saved # Unset /\ flags = NoFlags =>
    /\ cmd.provider = saved.provider /\ cmd.url = saved.url
    /\ saved.entries # Unset => cmd.entries = saved.entries
    /\ saved.routing # Unset => cmd.routing = saved.routing

\* A process, and each that resumes its session, reaches the providers and models
\* it was told to (src/cli/model-routing.ts).
RoutingKept == RoutingTypeOK /\ MainAlwaysRegistered /\ EndpointsStay /\ ResumedAsSaved

=============================================================================
