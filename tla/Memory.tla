-------------------------------- MODULE Memory --------------------------------
(***************************************************************************)
(* Long-term memory (memory/manager.ts, resolution.ts and the stores): an  *)
(* append-only list of items, where an update appends a replacement that   *)
(* supersedes what it replaces, forgetting appends tombstones, and reading *)
(* resolves what is superseded, out of scope, revoked or outranked.        *)
(*                                                                         *)
(* Updates and forgets read first and write after an await; several of     *)
(* them are under way at a time: two sessions, the memories extracted from *)
(* a turn in the background, and a tool call that was given up after its   *)
(* timeout and goes on.                                                    *)
(*                                                                         *)
(* An item's id is its place in the order of time; items written in the    *)
(* same millisecond, which the code orders by id, come in any order here.  *)
(* A session or a project is an audience, and so is everyone (the scopes   *)
(* user and agent).  Priorities and expiry dates are left out: nothing in  *)
(* src sets them.  Layer and topic are part of the key or the text.        *)
(***************************************************************************)
EXTENDS Integers, Sequences, FiniteSets

CONSTANTS
  Audiences,   \* sessions that read and write memory
  Everyone,    \* the scope that all of them share
  Keys,        \* keys an item may be stored under
  Texts,       \* texts of items without a key
  Writers,     \* updates and forgets that may be under way at a time
  MaxItems     \* bound: items appended

ASSUME MemoryAssumption == Everyone \notin Audiences /\ MaxItems \in Nat

VARIABLES
  store,     \* which MemoryStore it is
  items,     \* what has been appended
  writers,   \* what each writer has read and not yet written
  gone       \* history: ids replaced by an accepted update, or forgotten

memoryVars == <<store, items, writers, gone>>

Items == [status : {"verified", "quarantined", "revoked"}, scope : Audiences \cup {Everyone},
          topic : Keys \cup Texts, stable : BOOLEAN, supersedes : SUBSET Nat]
Idle == [phase |-> "idle", ids |-> {}]

-----------------------------------------------------------------------------
(* Reading: resolveReadableMemories.                                         *)

\* JsonMemoryStore.list leaves out the quarantine file; SqliteMemoryStore.list
\* has one table for all.
ListedBy(kind) ==
  {i \in DOMAIN items : kind = "sqlite" \/ items[i].status # "quarantined"}

Visible(kind, a) == {i \in ListedBy(kind) : items[i].scope \in {Everyone, a}}

\* Mutant: what another audience supersedes is hidden too.
SupersededAnywhere(kind, a) == UNION {items[i].supersedes : i \in ListedBy(kind)}

\* supersededIds: whatever the status of the item that supersedes.
Superseded(kind, a) == UNION {items[i].supersedes : i \in Visible(kind, a)}

\* memoryConflictKey: a key counts in all scopes, a text in its own.
Slot(item) ==
  IF item.topic \in Keys THEN <<item.topic>> ELSE <<item.scope, item.topic>>

\* compareMemoryPriority: the narrower scope, the stable item, the later one.
ScopeRank(item) == IF item.scope = Everyone THEN 0 ELSE 1
StableRank(item) == IF item.stable THEN 1 ELSE 0
Outranks(i, j) ==
  \/ ScopeRank(items[i]) > ScopeRank(items[j])
  \/ /\ ScopeRank(items[i]) = ScopeRank(items[j])
     /\ \/ StableRank(items[i]) > StableRank(items[j])
        \/ StableRank(items[i]) = StableRank(items[j]) /\ i > j

\* Mutant: a tombstone takes part and wins the slot of what it revokes.
CurrentWithRevoked(kind, a) ==
  {i \in Visible(kind, a) \ Superseded(kind, a) : items[i].status # "quarantined"}

Current(kind, a) ==
  {i \in Visible(kind, a) \ Superseded(kind, a) : items[i].status = "verified"}

\* The winner of every slot.
ReadableIn(kind, a) ==
  LET current == Current(kind, a)
  IN  {i \in current : \A j \in current \ {i} :
                          Slot(items[i]) = Slot(items[j]) => Outranks(i, j)}

Readable(a) == ReadableIn(store, a)

-----------------------------------------------------------------------------
(* Writing.                                                                  *)

\* verifyMemoryCandidate decides on the text, which may be anything.
Verdicts == {"verified", "quarantined"}

Record(item) ==
  /\ Len(items) < MaxItems
  /\ items' = Append(items, item)

\* recordManualMemory, and every candidate recordTurn extracts; the model may
\* name an item of its scopes as superseded.
Remember(a) ==
  \E verdict \in Verdicts, scope \in {a, Everyone}, topic \in Keys \cup Texts,
     stable \in BOOLEAN, supersedes \in {{}} \cup {{i} : i \in Visible("sqlite", a)} :
    /\ Record([status |-> verdict, scope |-> scope, topic |-> topic, stable |-> stable,
               supersedes |-> supersedes])
    /\ UNCHANGED <<store, writers, gone>>

\* updateMemory up to its await: only what is readable can be updated.
BeginUpdate(w, a) ==
  /\ writers[w].phase = "idle"
  /\ \E i \in Readable(a) :
       writers' = [writers EXCEPT ![w] = [phase |-> "updating", ids |-> {i}]]
  /\ UNCHANGED <<store, items, gone>>

\* Mutant: the replacement is remembered for one session, whatever was replaced.
ReplacementForRequester(i, verdict, topic, stable) ==
  [status |-> verdict, scope |-> CHOOSE a \in Audiences : TRUE, topic |-> topic,
   stable |-> stable, supersedes |-> items[i].supersedes \cup {i}]

\* The scope stays; so does a key, unless another is given.
Replacement(i, verdict, topic, stable) ==
  [status |-> verdict, scope |-> items[i].scope, topic |-> topic, stable |-> stable,
   supersedes |-> items[i].supersedes \cup {i}]

\* A tombstone is the item itself, revoked and with its own id superseded.
Tombstone(i) == Replacement(i, "revoked", items[i].topic, items[i].stable)

FinishUpdate(w) ==
  /\ writers[w].phase = "updating"
  /\ \E i \in writers[w].ids, verdict \in Verdicts, topic \in Keys \cup Texts, stable \in BOOLEAN :
       /\ items[i].topic \in Keys => topic \in Keys
       /\ Record(Replacement(i, verdict, topic, stable))
       /\ gone' = IF verdict = "verified" THEN gone \cup {i} ELSE gone
  /\ writers' = [writers EXCEPT ![w] = Idle]
  /\ UNCHANGED store

\* forgetMemories reads all its ids at once ...
BeginForget(w, a) ==
  /\ writers[w].phase = "idle"
  /\ \E ids \in SUBSET Readable(a) \ {{}} :
       writers' = [writers EXCEPT ![w] = [phase |-> "forgetting", ids |-> ids]]
  /\ UNCHANGED <<store, items, gone>>

\* ... and appends a tombstone for each, one after the other.
Revoke(w) ==
  /\ writers[w].phase = "forgetting"
  /\ \E i \in writers[w].ids :
       /\ Record(Tombstone(i))
       /\ gone' = gone \cup {i}
       /\ writers' = [writers EXCEPT ![w] =
                        IF writers[w].ids = {i} THEN Idle
                        ELSE [phase |-> "forgetting", ids |-> writers[w].ids \ {i}]]
  /\ UNCHANGED store

\* The store throws, or the process ends: what is not yet written never is.
WriteFails(w) ==
  /\ writers[w].phase # "idle"
  /\ writers' = [writers EXCEPT ![w] = Idle]
  /\ UNCHANGED <<store, items, gone>>

MemoryInit ==
  /\ store \in {"json", "sqlite"}
  /\ items = <<>>
  /\ writers = [w \in Writers |-> Idle]
  /\ gone = {}

MemoryNext ==
  \/ \E a \in Audiences :
       \/ Remember(a)
       \/ \E w \in Writers : BeginUpdate(w, a) \/ BeginForget(w, a)
  \/ \E w \in Writers : FinishUpdate(w) \/ Revoke(w) \/ WriteFails(w)

MemorySpec == MemoryInit /\ [][MemoryNext]_memoryVars

-----------------------------------------------------------------------------
(* Properties.                                                               *)

\* Types; what a writer has read is in the store.
MemoryTypeOK ==
  /\ store \in {"json", "sqlite"}
  /\ items \in Seq(Items)
  /\ gone \subseteq DOMAIN items
  /\ \A i \in DOMAIN items : items[i].supersedes \subseteq 1 .. (i - 1)
  /\ writers \in [Writers -> [phase : {"idle", "updating", "forgetting"},
                              ids : SUBSET DOMAIN items]]

\* What was replaced by an accepted update, or forgotten, is never read again by
\* any session, whatever is updated, forgotten or quarantined at the same time or
\* later (updateMemory, forgetMemories and supersededIds).
GoneStaysHidden ==
  \A a \in Audiences : Readable(a) \cap gone = {}

\* A memory of one session is without effect on what another reads, be it by its
\* key, its rank or what it supersedes (isMemoryInScope, supersededIds).
ScopesApart ==
  [][\A a \in Audiences :
       /\ items' # items
       /\ \A i \in DOMAIN items' \ DOMAIN items : items'[i].scope \notin {Everyone, a}
       => Readable(a)' = Readable(a)]_memoryVars

\* The memories accounted for in a's view: their slot is read, or they were
\* superseded by a tombstone, a quarantined item or one that is accounted for.
Accounted(a) ==
  LET visible == Visible(store, a)
      readSlots == {Slot(items[i]) : i \in {j \in Readable(a) \cap visible : items[j].status = "verified"}}
      accounted[i \in DOMAIN items] ==
        \/ Slot(items[i]) \in readSlots
        \/ \E j \in visible :
             /\ i \in items[j].supersedes
             /\ items[j].status # "verified" \/ accounted[j]
  IN  {i \in visible : accounted[i]}

\* No verified memory in scope vanishes: a session reads a verified one of its
\* slot, or the chain of its replacements ends in such a slot, in a tombstone or
\* in a quarantined item (resolveReadableMemories).
NothingVanishes ==
  /\ MemoryTypeOK
  /\ \A a \in Audiences :
       \A i \in Visible(store, a) : items[i].status = "verified" => i \in Accounted(a)

\* "Drop-in replacement for JsonMemoryStore" (memory/sqlite-memory-store.ts:17):
\* the same items are read in the same way.
DropInReplacement ==
  \A a \in Audiences : ReadableIn("json", a) = ReadableIn("sqlite", a)
=============================================================================
