---------------------------------- MODULE Mcp ----------------------------------
(***************************************************************************)
(* MCP servers: createMcpRuntimeBundle (src/mcp/registry.ts), which starts *)
(* all configured servers at once, the tools it wraps them in              *)
(* (src/mcp/adapter.ts, result.ts) and diagnoseMcpServers (diagnostics.ts),*)
(* which visits them one by one.  A server and the SDK's client are        *)
(* external: connecting, listing, calling and closing succeed or fail.     *)
(***************************************************************************)
EXTENDS Naturals, Sequences, FiniteSets, SequencesExt

CONSTANT MaxServers   \* configured servers, numbered in the order of the configuration

ASSUME McpAssumption == MaxServers \in Nat \ {0}

Servers == 1 .. MaxServers

VARIABLES
  mcpStage,    \* what createMcpRuntimeBundle or diagnoseMcpServers awaits
  config,      \* McpServersConfig
  server,      \* where each server's start-up stands
  open,        \* servers with a connected client that nobody has asked to close
  listed,      \* tool names each server has listed so far
  tools,       \* McpRuntimeBundle.tools: pairs of qualified name and server
  told,        \* what the caller of createMcpRuntimeBundle heard
  summary      \* McpDiagnosticsSummary

mcpVars == <<mcpStage, config, server, open, listed, tools, told, summary>>

\* Server and tool names up to normalizeMcpName: distinct names may become one,
\* or none at all.
Names == {"x", "y"}
NoName == "empty"
ToolNames == {"t", "resources_list", NoName}
Configs == [name: Names \cup {NoName}, enabled: BOOLEAN, failPolicy: {"fail", "warn"},
            resources: BOOLEAN]
ServerStages == {"none", "disabled", "connecting", "listing", "discarding", "ready", "failed"}
EmptySummary == [enabled |-> 0, connected |-> 0, required |-> 0, optional |-> 0]

Usual == [name |-> "x", enabled |-> TRUE, failPolicy |-> "fail", resources |-> FALSE]

McpInit ==
  /\ mcpStage = "blank"
  /\ config = [s \in Servers |-> Usual]
  /\ server = [s \in Servers |-> "none"]
  /\ open = {}
  /\ listed = [s \in Servers |-> <<>>]
  /\ tools = {}
  /\ told = "nothing"
  /\ summary = EmptySummary

(* Promise.allSettled runs every server's start-up to its first await.     *)
StartServers ==
  /\ mcpStage = "blank"
  /\ \E c \in [Servers -> Configs] :
       /\ config' = c
       /\ server' = [s \in Servers |-> IF ~c[s].enabled THEN "disabled"
                                       ELSE IF c[s].name = NoName THEN "failed"
                                       ELSE "connecting"]
  /\ mcpStage' = "starting"
  /\ UNCHANGED <<open, listed, tools, told, summary>>

StartUp(s, from, to) ==
  /\ mcpStage = "starting" /\ server[s] = from
  /\ server' = [server EXCEPT ![s] = to]
  /\ UNCHANGED <<mcpStage, config, tools, told, summary>>

Connects(s) == StartUp(s, "connecting", "listing") /\ open' = open \cup {s} /\ UNCHANGED listed

ConnectFails(s) == StartUp(s, "connecting", "failed") /\ UNCHANGED <<open, listed>>

\* A page of tools and the cursor of the next; the last page ends the listing.
ListsPage(s) ==
  /\ mcpStage = "starting" /\ server[s] = "listing" /\ Len(listed[s]) < 2
  /\ \E t \in ToolNames : listed' = [listed EXCEPT ![s] = Append(@, t)]
  /\ UNCHANGED <<mcpStage, config, server, open, tools, told, summary>>

\* assertUniqueToolNames and normalizeMcpName refuse what a server may list.
Wrappable(names) == IsInjective(names) /\ NoName \notin Range(names)

ListsAll(s) ==
  /\ Wrappable(listed[s])
  /\ StartUp(s, "listing", "ready") /\ UNCHANGED <<open, listed>>

\* Mutated form of ListingFails: the client is left open.
ListingFailsUnclosed(s) ==
  StartUp(s, "listing", "discarding") /\ UNCHANGED <<open, listed>>

\* Listing fails or its tools cannot be wrapped: the client is closed first.
ListingFails(s) ==
  StartUp(s, "listing", "discarding") /\ open' = open \ {s} /\ UNCHANGED listed

Discarded(s) == StartUp(s, "discarding", "failed") /\ UNCHANGED <<open, listed>>

AllSettled == \A s \in Servers : server[s] \in {"disabled", "ready", "failed"}
Ready == {s \in Servers : server[s] = "ready"}
Fatal == {s \in Servers : server[s] = "failed" /\ config[s].failPolicy = "fail"}

\* createMcpTools: the listed tools and the two resource helpers, by qualified name.
Wrapped(s) ==
  LET helpers == IF config[s].resources THEN {"resources_list", "resource_read"} ELSE {}
  IN {<<config[s].name, t, s>> : t \in Range(listed[s]) \cup helpers}

(* No required server failed: the bundle is handed to the caller.          *)
BundleReady ==
  /\ mcpStage = "starting" /\ AllSettled /\ Fatal = {}
  /\ tools' = UNION {Wrapped(s) : s \in Ready}
  /\ mcpStage' = "up" /\ told' = "bundle"
  /\ UNCHANGED <<config, server, open, listed, summary>>

(* A required server failed: the clients of all the others are closed,     *)
(* then its failure, the last one if there are several, is thrown.         *)
RollBack ==
  /\ mcpStage = "starting" /\ AllSettled /\ Fatal # {}
  /\ open' = open \ Ready
  /\ mcpStage' = "closing"
  /\ UNCHANGED <<config, server, listed, tools, told, summary>>

RolledBack ==
  /\ mcpStage = "closing" /\ told = "nothing"
  /\ mcpStage' = "down" /\ told' = "error"
  /\ UNCHANGED <<config, server, open, listed, tools, summary>>

(* ToolRegistry.close: every client is asked to close, whatever the others *)
(* do; a failure is reported after all have settled.                       *)
CloseBundle ==
  /\ mcpStage = "up"
  /\ open' = open \ Ready
  /\ mcpStage' = "closing"
  /\ UNCHANGED <<config, server, listed, tools, told, summary>>

BundleClosed ==
  /\ mcpStage = "closing" /\ told = "bundle"
  /\ mcpStage' = "down"
  /\ UNCHANGED <<config, server, open, listed, tools, told, summary>>

-------------------------------------------------------------------------------
(* diagnoseMcpServers.                                                     *)
Visited == {s \in Servers : server[s] \in {"disabled", "ready", "failed"}}
Visiting == Cardinality(Visited) + 1

StartDiagnosis ==
  /\ mcpStage = "blank"
  /\ \E c \in [Servers -> Configs] : config' = c
  /\ mcpStage' = "diagnosing"
  /\ UNCHANGED <<server, open, listed, tools, told, summary>>

Visit(s, stage, sum, clients) ==
  /\ mcpStage = "diagnosing" /\ s = Visiting /\ s \in Servers
  /\ server' = [server EXCEPT ![s] = stage]
  /\ summary' = sum
  /\ open' = clients
  /\ UNCHANGED <<mcpStage, config, listed, tools, told>>

VisitDisabled(s) == ~config[s].enabled /\ Visit(s, "disabled", summary, open)

VisitConnects(s) ==
  /\ config[s].enabled /\ server[s] = "none"
  /\ Visit(s, "listing", [summary EXCEPT !.enabled = @ + 1], open \cup {s})

Failures(s, sum) ==
  IF config[s].failPolicy = "warn" THEN [sum EXCEPT !.optional = @ + 1]
  ELSE [sum EXCEPT !.required = @ + 1]

VisitConnectFails(s) ==
  /\ config[s].enabled /\ server[s] = "none"
  /\ Visit(s, "failed", Failures(s, [summary EXCEPT !.enabled = @ + 1]), open)

\* Tools, and resources if configured, are listed; the client is closed either way.
VisitLists(s) ==
  /\ server[s] = "listing"
  /\ Visit(s, "ready", [summary EXCEPT !.connected = @ + 1], open \ {s})

\* With details the names of the tools are normalised after the server was
\* counted as connected; one that becomes empty makes it a failure as well.
VisitFails(s) ==
  /\ server[s] = "listing"
  /\ \/ Visit(s, "failed", Failures(s, summary), open \ {s})
     \/ Visit(s, "failed", Failures(s, [summary EXCEPT !.connected = @ + 1]), open \ {s})

DiagnosisEnds ==
  /\ mcpStage = "diagnosing" /\ Visited = Servers
  /\ mcpStage' = "diagnosed"
  /\ UNCHANGED <<config, server, open, listed, tools, told, summary>>

ReportOk == summary.required = 0

McpNext ==
  \/ StartServers \/ BundleReady \/ RollBack \/ RolledBack \/ CloseBundle \/ BundleClosed
  \/ StartDiagnosis \/ DiagnosisEnds
  \/ \E s \in Servers :
       \/ Connects(s) \/ ConnectFails(s) \/ ListsPage(s) \/ ListsAll(s)
       \/ ListingFails(s) \/ Discarded(s)
       \/ VisitDisabled(s) \/ VisitConnects(s) \/ VisitConnectFails(s)
       \/ VisitLists(s) \/ VisitFails(s)

McpSpec == McpInit /\ [][McpNext]_mcpVars

-------------------------------------------------------------------------------
(* Type correctness.                                                       *)
McpTypeOK ==
  /\ mcpStage \in {"blank", "starting", "up", "closing", "down", "diagnosing", "diagnosed"}
  /\ config \in [Servers -> Configs]
  /\ server \in [Servers -> ServerStages]
  /\ open \subseteq Servers
  /\ \A s \in Servers : Range(listed[s]) \subseteq ToolNames
  /\ told \in {"nothing", "bundle", "error"}

\* No client outlives what owns it: once start-up has been rejected, the bundle
\* closed or the diagnosis is over, every client that connected has been asked
\* to close; and while the bundle is up the open clients are those of its servers.
NoClientLeft ==
  /\ mcpStage \in {"closing", "down", "diagnosed"} => open = {}
  /\ mcpStage = "up" => open = Ready

\* A server that is allowed to fail costs the run its own tools only: start-up
\* is refused exactly when a required server failed, however the start-ups
\* interleave, and otherwise every tool of every server that came up is there.
OptionalServersOptional ==
  /\ told = "error" => Fatal # {}
  /\ told = "bundle" => /\ Fatal = {}
                        /\ {t[3] : t \in tools} \subseteq Ready
                        /\ \A s \in Ready : \A t \in Range(listed[s]) :
                             <<config[s].name, t, s>> \in tools

\* The report of a diagnosis accounts for every enabled server, and calls the
\* configuration ok exactly if no required server failed.
ReportAccounts ==
  mcpStage = "diagnosed" =>
    /\ summary.enabled = Cardinality({s \in Servers : config[s].enabled})
    /\ summary.connected + summary.required + summary.optional >= summary.enabled
    /\ ReportOk <=> Fatal = {}

\* Clients, tools and reports of src/mcp agree, whatever fails.
McpAccounted == McpTypeOK /\ NoClientLeft /\ OptionalServersOptional /\ ReportAccounts

===============================================================================
