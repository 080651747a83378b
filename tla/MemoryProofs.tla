----------------------------- MODULE MemoryProofs -----------------------------
(***************************************************************************)
(* Proofs about long-term memory, for any sessions, writers and items.     *)
(* Items are only appended; so what is superseded stays superseded, and    *)
(* the invariant Linked says that whatever is gone is superseded by a      *)
(* listed item of its own scope, which is in view wherever it is itself.   *)
(* Supersession only leads to later items; so what becomes of an item is   *)
(* settled from the last one down.                                         *)
(***************************************************************************)
EXTENDS Memory, TLAPS, WellFoundedInduction

\* The items stay, and an item may be added behind them.
Extended(item) ==
  /\ items' = Append(items, item)
  /\ item \in Items
  /\ item.supersedes \subseteq DOMAIN items

LEMMA AppendedItems ==
  ASSUME MemoryTypeOK, NEW item, Extended(item)
  PROVE  /\ DOMAIN items = 1 .. Len(items)
         /\ Len(items) \in Nat
         /\ items' \in Seq(Items)
         /\ DOMAIN items' = 1 .. (Len(items) + 1)
         /\ \A i \in DOMAIN items : items'[i] = items[i]
         /\ items'[Len(items) + 1] = item
BY DEF MemoryTypeOK, Extended

\* Types survive an append, if what else is typed stays typed.
LEMMA AppendTyped ==
  ASSUME MemoryTypeOK, NEW item, Extended(item),
         UNCHANGED store,
         gone' \subseteq DOMAIN items,
         writers' \in [Writers -> [phase : {"idle", "updating", "forgetting"},
                                   ids : SUBSET DOMAIN items]]
  PROVE  MemoryTypeOK'
<1>1. /\ DOMAIN items = 1 .. Len(items)
      /\ Len(items) \in Nat
      /\ items' \in Seq(Items)
      /\ DOMAIN items' = 1 .. (Len(items) + 1)
      /\ \A i \in DOMAIN items : items'[i] = items[i]
      /\ items'[Len(items) + 1] = item
  BY AppendedItems
<1>2. DOMAIN items \subseteq DOMAIN items'
  BY <1>1
<1>3. gone' \subseteq DOMAIN items'
  BY <1>2
<1>4. \A i \in DOMAIN items' : items'[i].supersedes \subseteq 1 .. (i - 1)
  <2> TAKE i \in DOMAIN items'
  <2>1. CASE i \in DOMAIN items
    BY <1>1, <2>1 DEF MemoryTypeOK
  <2>2. CASE i = Len(items) + 1
    BY <1>1, <2>2 DEF Extended
  <2>3. QED
    BY <1>1, <2>1, <2>2
<1>5. writers' \in [Writers -> [phase : {"idle", "updating", "forgetting"},
                                ids : SUBSET DOMAIN items']]
  <2>1. [phase : {"idle", "updating", "forgetting"}, ids : SUBSET DOMAIN items]
          \subseteq [phase : {"idle", "updating", "forgetting"}, ids : SUBSET DOMAIN items']
    BY <1>2
  <2>2. QED
    BY <2>1
<1>6. QED
  BY <1>1, <1>3, <1>4, <1>5 DEF MemoryTypeOK

-----------------------------------------------------------------------------
(* What the actions append.                                                  *)

LEMMA RememberExtends ==
  ASSUME MemoryTypeOK, NEW a \in Audiences, Remember(a)
  PROVE  \E item : Extended(item)
<1>1. PICK verdict \in Verdicts, scope \in {a, Everyone}, topic \in Keys \cup Texts,
           stable \in BOOLEAN, supersedes \in {{}} \cup {{i} : i \in Visible("sqlite", a)} :
        items' = Append(items, [status |-> verdict, scope |-> scope, topic |-> topic,
                                stable |-> stable, supersedes |-> supersedes])
  BY DEF Remember, Record
<1>2. supersedes \subseteq DOMAIN items
  BY DEF Visible, ListedBy
<1>3. DOMAIN items \subseteq Nat
  BY DEF MemoryTypeOK
<1>4. [status |-> verdict, scope |-> scope, topic |-> topic,
       stable |-> stable, supersedes |-> supersedes] \in Items
  BY <1>2, <1>3 DEF Items, Verdicts
<1>5. QED
  BY <1>1, <1>2, <1>4 DEF Extended

\* What an item of the store supersedes is in the store.
LEMMA EarlierSuperseded ==
  ASSUME MemoryTypeOK, NEW i \in DOMAIN items
  PROVE  /\ i \in Nat
         /\ items[i] \in Items
         /\ items[i].supersedes \cup {i} \subseteq DOMAIN items
         /\ items[i].supersedes \cup {i} \in SUBSET Nat
<1>1. /\ items \in Seq(Items)
      /\ items[i].supersedes \subseteq 1 .. (i - 1)
  BY DEF MemoryTypeOK
<1>2. DOMAIN items = 1 .. Len(items) /\ Len(items) \in Nat /\ items[i] \in Items
  BY <1>1
<1>3. QED
  BY <1>1, <1>2

LEMMA ReplacementTyped ==
  ASSUME MemoryTypeOK, NEW i \in DOMAIN items, NEW verdict \in Verdicts \cup {"revoked"},
         NEW topic \in Keys \cup Texts, NEW stable \in BOOLEAN
  PROVE  /\ Replacement(i, verdict, topic, stable) \in Items
         /\ Replacement(i, verdict, topic, stable).supersedes \subseteq DOMAIN items
         /\ i \in Replacement(i, verdict, topic, stable).supersedes
         /\ Replacement(i, verdict, topic, stable).scope = items[i].scope
         /\ Replacement(i, verdict, topic, stable).status = verdict
BY EarlierSuperseded DEF Replacement, Items, Verdicts

LEMMA TombstoneTyped ==
  ASSUME MemoryTypeOK, NEW i \in DOMAIN items
  PROVE  /\ Tombstone(i) \in Items
         /\ Tombstone(i).supersedes \subseteq DOMAIN items
         /\ i \in Tombstone(i).supersedes
         /\ Tombstone(i).scope = items[i].scope
         /\ Tombstone(i).status = "revoked"
<1>1. items[i].topic \in Keys \cup Texts /\ items[i].stable \in BOOLEAN
  BY EarlierSuperseded DEF Items
<1>2. QED
  BY <1>1, ReplacementTyped DEF Tombstone

\* A writer that ends, or goes on with less, stays typed.
LEMMA WriterTyped ==
  ASSUME MemoryTypeOK, NEW w \in Writers,
         NEW phase \in {"idle", "updating", "forgetting"}, NEW ids \in SUBSET DOMAIN items,
         writers' = [writers EXCEPT ![w] = [phase |-> phase, ids |-> ids]]
  PROVE  writers' \in [Writers -> [phase : {"idle", "updating", "forgetting"},
                                   ids : SUBSET DOMAIN items]]
BY DEF MemoryTypeOK

-----------------------------------------------------------------------------
(* What is gone is superseded by a listed item of its scope.                 *)

Hides(j, i) ==
  /\ items[j].scope = items[i].scope
  /\ i \in items[j].supersedes

Linked == \A i \in gone : \E j \in ListedBy(store) : Hides(j, i)

\* An append keeps every link, and may make one for an item newly gone.
LEMMA AppendLinked ==
  ASSUME MemoryTypeOK, Linked, NEW item, Extended(item), UNCHANGED store,
         \A i \in gone' \ gone :
           /\ i \in DOMAIN items
           /\ item.status # "quarantined"
           /\ item.scope = items[i].scope
           /\ i \in item.supersedes
  PROVE  Linked'
<1>1. /\ DOMAIN items = 1 .. Len(items)
      /\ Len(items) \in Nat
      /\ DOMAIN items' = 1 .. (Len(items) + 1)
      /\ \A i \in DOMAIN items : items'[i] = items[i]
      /\ items'[Len(items) + 1] = item
  BY AppendedItems
<1> SUFFICES ASSUME NEW i \in gone'
             PROVE  \E j \in ListedBy(store)' : Hides(j, i)'
  BY DEF Linked
<1>2. CASE i \in gone
  <2>1. PICK j \in ListedBy(store) : Hides(j, i)
    BY <1>2 DEF Linked
  <2>2. i \in DOMAIN items
    BY <1>2 DEF MemoryTypeOK
  <2>3. j \in DOMAIN items /\ j \in DOMAIN items'
    BY <1>1 DEF ListedBy
  <2>4. j \in ListedBy(store)'
    BY <1>1, <2>1, <2>3 DEF ListedBy
  <2>5. Hides(j, i)'
    BY <1>1, <2>1, <2>2, <2>3 DEF Hides
  <2>6. QED
    BY <2>4, <2>5
<1>3. CASE i \notin gone
  <2>1. /\ i \in DOMAIN items
        /\ item.status # "quarantined"
        /\ item.scope = items[i].scope
        /\ i \in item.supersedes
    BY <1>3
  <2>2. Len(items) + 1 \in ListedBy(store)'
    BY <1>1, <2>1 DEF ListedBy
  <2>3. /\ items'[Len(items) + 1].scope = items'[i].scope
        /\ i \in items'[Len(items) + 1].supersedes
    BY <1>1, <2>1
  <2>4. PICK j \in ListedBy(store)' : j = Len(items) + 1
    BY <2>2
  <2>5. Hides(j, i)'
    BY <2>3, <2>4 DEF Hides
  <2>6. QED
    BY <2>4, <2>5
<1>4. QED
  BY <1>2, <1>3

MemoryInv == MemoryTypeOK /\ Linked

LEMMA MemoryInitial == MemoryInit => MemoryInv
<1> SUFFICES ASSUME MemoryInit PROVE MemoryInv
  OBVIOUS
<1>1. MemoryTypeOK
  BY DEF MemoryInit, MemoryTypeOK, Idle
<1>2. Linked
  BY DEF MemoryInit, Linked
<1>3. QED
  BY <1>1, <1>2 DEF MemoryInv

LEMMA MemoryPreserved == MemoryInv /\ [MemoryNext]_memoryVars => MemoryInv'
<1> SUFFICES ASSUME MemoryInv, [MemoryNext]_memoryVars PROVE MemoryInv'
  OBVIOUS
<1>0. MemoryTypeOK /\ Linked
  BY DEF MemoryInv
<1>1. ASSUME NEW a \in Audiences, Remember(a) PROVE MemoryInv'
  <2>1. PICK item : Extended(item)
    BY <1>0, <1>1, RememberExtends
  <2>2. UNCHANGED <<store, writers, gone>>
    BY <1>1 DEF Remember
  <2>3. gone' \subseteq DOMAIN items /\
        writers' \in [Writers -> [phase : {"idle", "updating", "forgetting"},
                                  ids : SUBSET DOMAIN items]]
    BY <1>0, <2>2 DEF MemoryTypeOK
  <2>4. MemoryTypeOK'
    BY <1>0, <2>1, <2>2, <2>3, AppendTyped
  <2>5. Linked'
    BY <1>0, <2>1, <2>2, AppendLinked
  <2>6. QED
    BY <2>4, <2>5 DEF MemoryInv
<1>2. ASSUME NEW w \in Writers, NEW a \in Audiences, BeginUpdate(w, a) \/ BeginForget(w, a)
      PROVE  MemoryInv'
  <2>1. Readable(a) \subseteq DOMAIN items
    BY DEF Readable, ReadableIn, Current, Visible, ListedBy
  <2>2. PICK phase \in {"updating", "forgetting"}, ids \in SUBSET DOMAIN items :
          writers' = [writers EXCEPT ![w] = [phase |-> phase, ids |-> ids]]
    BY <1>2, <2>1 DEF BeginUpdate, BeginForget
  <2>3. UNCHANGED <<store, items, gone>>
    BY <1>2 DEF BeginUpdate, BeginForget
  <2>4. writers' \in [Writers -> [phase : {"idle", "updating", "forgetting"},
                                  ids : SUBSET DOMAIN items]]
    BY <1>0, <2>2, WriterTyped
  <2>5. QED
    BY <1>0, <2>3, <2>4 DEF MemoryInv, MemoryTypeOK, Linked, Hides, ListedBy
<1>3. ASSUME NEW w \in Writers, FinishUpdate(w) PROVE MemoryInv'
  <2>1. PICK i \in writers[w].ids, verdict \in Verdicts, topic \in Keys \cup Texts,
             stable \in BOOLEAN :
          /\ items' = Append(items, Replacement(i, verdict, topic, stable))
          /\ gone' = IF verdict = "verified" THEN gone \cup {i} ELSE gone
    BY <1>3 DEF FinishUpdate, Record
  <2>2. i \in DOMAIN items
    BY <1>0 DEF MemoryTypeOK
  <2>3. Extended(Replacement(i, verdict, topic, stable))
    BY <1>0, <2>1, <2>2, ReplacementTyped DEF Extended
  <2>4. UNCHANGED store
        /\ writers' = [writers EXCEPT ![w] = [phase |-> "idle", ids |-> {}]]
    BY <1>3 DEF FinishUpdate, Idle
  <2>5. writers' \in [Writers -> [phase : {"idle", "updating", "forgetting"},
                                  ids : SUBSET DOMAIN items]]
    BY <1>0, <2>4 DEF MemoryTypeOK
  <2>6. gone' \subseteq DOMAIN items
    BY <1>0, <2>1, <2>2 DEF MemoryTypeOK
  <2>7. MemoryTypeOK'
    BY <1>0, <2>3, <2>4, <2>5, <2>6, AppendTyped
  <2>8. ASSUME NEW k \in gone' \ gone
        PROVE  /\ k \in DOMAIN items
               /\ Replacement(i, verdict, topic, stable).status # "quarantined"
               /\ Replacement(i, verdict, topic, stable).scope = items[k].scope
               /\ k \in Replacement(i, verdict, topic, stable).supersedes
    <3>1. verdict = "verified" /\ k = i
      BY <2>1
    <3>2. QED
      BY <1>0, <2>2, <3>1, ReplacementTyped
  <2>9. Linked'
    BY <1>0, <2>3, <2>4, <2>8, AppendLinked
  <2>10. QED
    BY <2>7, <2>9 DEF MemoryInv
<1>4. ASSUME NEW w \in Writers, Revoke(w) PROVE MemoryInv'
  <2>1. PICK i \in writers[w].ids :
          /\ items' = Append(items, Tombstone(i))
          /\ gone' = gone \cup {i}
          /\ writers' = [writers EXCEPT ![w] =
                           IF writers[w].ids = {i} THEN Idle
                           ELSE [phase |-> "forgetting", ids |-> writers[w].ids \ {i}]]
    BY <1>4 DEF Revoke, Record
  <2>2. i \in DOMAIN items /\ writers[w].ids \subseteq DOMAIN items
    BY <1>0 DEF MemoryTypeOK
  <2>3. Extended(Tombstone(i))
    BY <1>0, <2>1, <2>2, TombstoneTyped DEF Extended
  <2>4. UNCHANGED store
    BY <1>4 DEF Revoke
  <2>5. PICK phase \in {"idle", "forgetting"}, ids \in SUBSET DOMAIN items :
          writers' = [writers EXCEPT ![w] = [phase |-> phase, ids |-> ids]]
    <3>1. CASE writers[w].ids = {i}
      BY <2>1, <3>1 DEF Idle
    <3>2. CASE writers[w].ids # {i}
      BY <2>1, <2>2, <3>2
    <3>3. QED
      BY <3>1, <3>2
  <2>6. writers' \in [Writers -> [phase : {"idle", "updating", "forgetting"},
                                  ids : SUBSET DOMAIN items]]
    BY <1>0, <2>5, WriterTyped
  <2>7. gone' \subseteq DOMAIN items
    BY <1>0, <2>1, <2>2 DEF MemoryTypeOK
  <2>8. MemoryTypeOK'
    BY <1>0, <2>3, <2>4, <2>6, <2>7, AppendTyped
  <2>9. ASSUME NEW k \in gone' \ gone
        PROVE  /\ k \in DOMAIN items
               /\ Tombstone(i).status # "quarantined"
               /\ Tombstone(i).scope = items[k].scope
               /\ k \in Tombstone(i).supersedes
    BY <1>0, <2>1, <2>2, TombstoneTyped
  <2>10. Linked'
    BY <1>0, <2>3, <2>4, <2>9, AppendLinked
  <2>11. QED
    BY <2>8, <2>10 DEF MemoryInv
<1>5. ASSUME NEW w \in Writers, WriteFails(w) PROVE MemoryInv'
  <2>1. writers' \in [Writers -> [phase : {"idle", "updating", "forgetting"},
                                  ids : SUBSET DOMAIN items]]
    BY <1>0, <1>5 DEF WriteFails, Idle, MemoryTypeOK
  <2>2. UNCHANGED <<store, items, gone>>
    BY <1>5 DEF WriteFails
  <2>3. QED
    BY <1>0, <2>1, <2>2 DEF MemoryInv, MemoryTypeOK, Linked, Hides, ListedBy
<1>6. CASE UNCHANGED memoryVars
  BY <1>0, <1>6 DEF MemoryInv, MemoryTypeOK, Linked, Hides, ListedBy, memoryVars
<1>7. QED
  BY <1>1, <1>2, <1>3, <1>4, <1>5, <1>6 DEF MemoryNext

LEMMA MemoryInvariant == MemorySpec => []MemoryInv
<1>1. QED
  BY MemoryInitial, MemoryPreserved, PTL DEF MemorySpec

\* Types, for any sessions, writers and items: what a writer has read is in the
\* store, and items supersede earlier ones only.
THEOREM MemoryTyped == MemorySpec => []MemoryTypeOK
<1>1. MemoryInv => MemoryTypeOK
  BY DEF MemoryInv
<1>2. QED
  BY <1>1, MemoryInvariant, PTL

\* What was replaced by an accepted update, or forgotten, is never read again
\* (updateMemory, forgetMemories, supersededIds).
THEOREM GoneIsHidden == MemorySpec => []GoneStaysHidden
<1>1. MemoryInv => GoneStaysHidden
  <2> SUFFICES ASSUME MemoryInv, NEW a \in Audiences, NEW i \in Readable(a) \cap gone
               PROVE  FALSE
    BY DEF GoneStaysHidden
  <2>1. i \in Visible(store, a) /\ i \notin Superseded(store, a)
    BY DEF Readable, ReadableIn, Current
  <2>2. PICK j \in ListedBy(store) : Hides(j, i)
    BY DEF MemoryInv, Linked
  <2>3. j \in Visible(store, a)
    BY <2>1, <2>2 DEF Visible, Hides
  <2>4. i \in Superseded(store, a)
    BY <2>2, <2>3 DEF Superseded, Hides
  <2>5. QED
    BY <2>1, <2>4
<1>2. QED
  BY <1>1, MemoryInvariant, PTL

-----------------------------------------------------------------------------
(* A step whose item is out of a session's scopes changes nothing it reads.  *)

LEMMA StepExtends ==
  ASSUME MemoryInv, MemoryNext
  PROVE  /\ UNCHANGED store
         /\ UNCHANGED items \/ \E item : Extended(item)
<1>0. MemoryTypeOK
  BY DEF MemoryInv
<1>1. ASSUME NEW a \in Audiences, Remember(a)
      PROVE  UNCHANGED store /\ \E item : Extended(item)
  BY <1>0, <1>1, RememberExtends DEF Remember
<1>2. ASSUME NEW w \in Writers, FinishUpdate(w)
      PROVE  UNCHANGED store /\ \E item : Extended(item)
  <2>1. PICK i \in writers[w].ids, verdict \in Verdicts, topic \in Keys \cup Texts,
             stable \in BOOLEAN :
          items' = Append(items, Replacement(i, verdict, topic, stable))
    BY <1>2 DEF FinishUpdate, Record
  <2>2. i \in DOMAIN items
    BY <1>0 DEF MemoryTypeOK
  <2>3. Extended(Replacement(i, verdict, topic, stable))
    BY <1>0, <2>1, <2>2, ReplacementTyped DEF Extended
  <2>4. QED
    BY <1>2, <2>3 DEF FinishUpdate
<1>3. ASSUME NEW w \in Writers, Revoke(w)
      PROVE  UNCHANGED store /\ \E item : Extended(item)
  <2>1. PICK i \in writers[w].ids : items' = Append(items, Tombstone(i))
    BY <1>3 DEF Revoke, Record
  <2>2. i \in DOMAIN items
    BY <1>0 DEF MemoryTypeOK
  <2>3. Extended(Tombstone(i))
    BY <1>0, <2>1, <2>2, TombstoneTyped DEF Extended
  <2>4. QED
    BY <1>3, <2>3 DEF Revoke
<1>4. ASSUME NEW w \in Writers, NEW a \in Audiences,
             BeginUpdate(w, a) \/ BeginForget(w, a) \/ WriteFails(w)
      PROVE  UNCHANGED <<store, items>>
  BY <1>4 DEF BeginUpdate, BeginForget, WriteFails
<1>5. ASSUME NEW w \in Writers, WriteFails(w) PROVE UNCHANGED <<store, items>>
  BY <1>5 DEF WriteFails
<1>6. QED
  BY <1>1, <1>2, <1>3, <1>4, <1>5 DEF MemoryNext

LEMMA OutOfScope ==
  ASSUME MemoryTypeOK, NEW a, NEW item, Extended(item), UNCHANGED store,
         \A i \in DOMAIN items' \ DOMAIN items : items'[i].scope \notin {Everyone, a}
  PROVE  Readable(a)' = Readable(a)
<1>1. /\ DOMAIN items = 1 .. Len(items)
      /\ Len(items) \in Nat
      /\ DOMAIN items' = 1 .. (Len(items) + 1)
      /\ \A i \in DOMAIN items : items'[i] = items[i]
  BY AppendedItems
<1>2. Visible(store, a)' = Visible(store, a)
  <2>1. DOMAIN items \subseteq DOMAIN items'
    BY <1>1
  <2>2. QED
    BY <1>1, <2>1 DEF Visible, ListedBy
<1>3. \A i \in Visible(store, a) : items'[i] = items[i]
  BY <1>1 DEF Visible, ListedBy
<1>4. Superseded(store, a)' = Superseded(store, a)
  <2>1. {items'[i].supersedes : i \in Visible(store, a)} =
        {items[i].supersedes : i \in Visible(store, a)}
    BY <1>3
  <2>2. QED
    BY <1>2, <2>1 DEF Superseded
<1>5. Current(store, a)' = Current(store, a)
  BY <1>2, <1>3, <1>4 DEF Current
<1>6. Current(store, a) \subseteq Visible(store, a)
  BY DEF Current
<1>7. \A i, j \in Current(store, a) :
        /\ Slot(items[i])' = Slot(items[i])
        /\ Outranks(i, j)' <=> Outranks(i, j)
  BY <1>3, <1>6 DEF Slot, Outranks, ScopeRank, StableRank
<1>8. QED
  BY <1>5, <1>7 DEF Readable, ReadableIn

\* Memories of one session are without effect on what another reads
\* (isMemoryInScope, supersededIds).
THEOREM ScopesDoNotMeet == MemorySpec => ScopesApart
<1> DEFINE Step ==
      \A a \in Audiences :
        /\ items' # items
        /\ \A i \in DOMAIN items' \ DOMAIN items : items'[i].scope \notin {Everyone, a}
        => Readable(a)' = Readable(a)
<1>1. MemoryInv /\ [MemoryNext]_memoryVars => [Step]_memoryVars
  <2> SUFFICES ASSUME MemoryInv, MemoryNext, NEW a \in Audiences, items' # items,
                      \A i \in DOMAIN items' \ DOMAIN items : items'[i].scope \notin {Everyone, a}
               PROVE  Readable(a)' = Readable(a)
    OBVIOUS
  <2>1. UNCHANGED store /\ \E item : Extended(item)
    BY StepExtends
  <2>2. QED
    BY <2>1, OutOfScope DEF MemoryInv
<1>2. QED
  BY <1>1, MemoryInvariant, PTL DEF MemorySpec, ScopesApart

-------------------------------------------------------------------------------
(* What has become of every memory.                                          *)

\* A nonempty set of numbers has a least one.
LEMMA LeastExists ==
  ASSUME NEW S \in SUBSET Nat, S # {}
  PROVE  \E x \in S : \A y \in S : x <= y
<1> DEFINE R == OpToRel(<, Nat)
<1>1. \E x \in S : \A y \in S : ~ (<<y, x>> \in R)
  BY NatLessThanWellFounded, WFMin, Zenon
<1>2. \A x, y \in Nat : y < x => <<y, x>> \in R
  BY DEF OpToRel
<1>3. \E x \in S : \A y \in S : ~ (y < x)
  <2> HIDE DEF R
  <2> QED
    BY <1>1, <1>2, Zenon
<1>4. QED
  BY <1>3

\* The slots that are read.
ReadSlots(a) ==
  {Slot(items[i]) : i \in {j \in Readable(a) \cap Visible(store, a) : items[j].status = "verified"}}

\* A memory is accounted for, given which of the later ones are.
Taken(a, f, i) ==
  \/ Slot(items[i]) \in ReadSlots(a)
  \/ \E j \in Visible(store, a) :
       /\ i \in items[j].supersedes
       /\ items[j].status # "verified" \/ f[j]

IsAccount(f, a) == f = [i \in DOMAIN items |-> Taken(a, f, i)]

\* Every memory is superseded by later ones only.
LEMMA LaterSupersede ==
  ASSUME MemoryTypeOK, NEW a \in Audiences, NEW i, NEW j \in Visible(store, a), i \in items[j].supersedes
  PROVE  /\ j \in 1 .. Len(items) /\ i \in 1 .. Len(items) /\ i < j
<1>1. j \in DOMAIN items /\ DOMAIN items = 1 .. Len(items) /\ Len(items) \in Nat
  BY DEF MemoryTypeOK, Visible, ListedBy
<1>2. items[j].supersedes \subseteq 1 .. (j - 1)
  BY <1>1 DEF MemoryTypeOK
<1>3. QED
  BY <1>1, <1>2

\* An account that agrees on the later memories takes the same.
LEMMA TakenAgree ==
  ASSUME MemoryTypeOK, NEW a \in Audiences, NEW i \in 1 .. Len(items), NEW f, NEW g,
         \A j \in 1 .. Len(items) : i < j => f[j] = g[j]
  PROVE  Taken(a, f, i) = Taken(a, g, i)
<1>1. \A j \in Visible(store, a) : i \in items[j].supersedes => f[j] = g[j]
  BY LaterSupersede
<1>2. QED
  BY <1>1, Zenon DEF Taken

LEMMA AccountsExist ==
  ASSUME MemoryTypeOK, NEW a \in Audiences
  PROVE  \E f : IsAccount(f, a)
<1> DEFINE n == Len(items)
           Upto(f, k) == f = [i \in (n - k) + 1 .. n |-> Taken(a, f, i)]
           Bad == {k \in 0 .. n : ~ \E f : Upto(f, k)}
<1>0. n \in Nat /\ DOMAIN items = 1 .. n
  BY DEF MemoryTypeOK
<1>1. SUFFICES ASSUME Bad # {} PROVE FALSE
  <2>1. n \notin Bad /\ n \in 0 .. n /\ (n - n) + 1 = 1
    BY <1>0, <1>1
  <2>2. PICK f : Upto(f, n)
    BY <2>1, Zenon
  <2>3. f = [i \in DOMAIN items |-> Taken(a, f, i)]
    BY <1>0, <2>1, <2>2, Zenon
  <2>4. QED
    BY <2>3, Zenon DEF IsAccount
<1>2. PICK k \in Bad : \A m \in Bad : k <= m
  <2>1. Bad \subseteq Nat
    BY <1>0
  <2> HIDE DEF Bad
  <2>2. QED
    BY <1>1, <2>1, LeastExists
<1>3. k \in 0 .. n /\ ~ \E f : Upto(f, k)
  BY <1>2
<1>4. k # 0
  <2>1. (n - 0) + 1 .. n = {}
    BY <1>0
  <2>2. Upto([i \in (n - 0) + 1 .. n |-> Taken(a, a, i)], 0)
    BY <2>1
  <2>3. QED
    BY <1>3, <2>2, Zenon
<1>5. k - 1 \in 0 .. n /\ ~ (k <= k - 1)
  BY <1>0, <1>3, <1>4
<1>6. PICK g : Upto(g, k - 1)
  <2>1. k - 1 \notin Bad
    BY <1>2, <1>5, Zenon
  <2>2. QED
    BY <1>5, <2>1, Zenon
<1> DEFINE h == [i \in (n - k) + 1 .. n |-> Taken(a, g, i)]
<1>7. ASSUME NEW j \in (n - (k - 1)) + 1 .. n
      PROVE  g[j] = h[j]
  <2>1. g[j] = Taken(a, g, j)
    BY <1>6, Zenon
  <2>2. j \in (n - k) + 1 .. n
    BY <1>0, <1>3
  <2>3. h[j] = Taken(a, g, j)
    BY <2>2, Zenon
  <2>4. QED
    BY <2>1, <2>3, Zenon
<1>8. ASSUME NEW i \in (n - k) + 1 .. n
      PROVE  Taken(a, g, i) = Taken(a, h, i)
  <2>1. i \in 1 .. n /\ \A j \in 1 .. n : i < j => j \in (n - (k - 1)) + 1 .. n
    BY <1>0, <1>3
  <2> HIDE DEF h
  <2>2. \A j \in 1 .. n : i < j => g[j] = h[j]
    BY <1>7, <2>1, Zenon
  <2>3. QED
    BY <2>1, <2>2, TakenAgree
<1>9. h = [i \in (n - k) + 1 .. n |-> Taken(a, h, i)]
  <2>1. h = [i \in (n - k) + 1 .. n |-> Taken(a, g, i)]
    OBVIOUS
  <2> HIDE DEF h
  <2>2. QED
    BY <1>8, <2>1, Zenon
<1>10. QED
  <2> HIDE DEF h
  <2>1. QED
    BY <1>3, <1>9, Zenon

\* What Accounted holds.
LEMMA AccountedTaken ==
  ASSUME MemoryTypeOK, NEW a \in Audiences
  PROVE  \E f : IsAccount(f, a) /\ Accounted(a) = {i \in Visible(store, a) : f[i]}
<1> DEFINE f == CHOOSE f : f = [i \in DOMAIN items |-> Taken(a, f, i)]
<1>1. IsAccount(f, a)
  BY AccountsExist, Zenon DEF IsAccount
<1>2. Accounted(a) = {i \in Visible(store, a) : f[i]}
  BY Zenon DEF Accounted, Taken, ReadSlots
<1>3. QED
  BY <1>1, <1>2, Zenon

\* Of the memories of a slot one outranks all others: those of the narrowest scope,
\* of these the stable ones, of these the latest.
Above(i, j) ==
  \/ ScopeRank(items[i]) > ScopeRank(items[j])
  \/ ScopeRank(items[i]) = ScopeRank(items[j]) /\ StableRank(items[i]) > StableRank(items[j])

LEMMA WinnerExists ==
  ASSUME MemoryTypeOK, NEW S \in SUBSET DOMAIN items, S # {}
  PROVE  \E w \in S : \A j \in S \ {w} : Outranks(w, j)
<1> DEFINE n == Len(items)
           Best == {i \in S : \A j \in S : ~Above(j, i)}
<1>1. n \in Nat /\ S \subseteq 1 .. n
  BY DEF MemoryTypeOK
<1>2. \A i \in S : ScopeRank(items[i]) \in {0, 1} /\ StableRank(items[i]) \in {0, 1}
  BY DEF ScopeRank, StableRank
<1>3. Best # {}
  <2>1. PICK i \in S : \A j \in S : ScopeRank(items[j]) <= ScopeRank(items[i])
    <3>1. PICK i \in S : TRUE
      OBVIOUS
    <3>2. CASE \E j \in S : ScopeRank(items[j]) = 1
      BY <1>2, <3>2
    <3>3. CASE \A j \in S : ScopeRank(items[j]) = 0
      BY <3>1, <3>3
    <3>4. QED
      BY <1>2, <3>2, <3>3
  <2>2. PICK k \in S :
          /\ ScopeRank(items[k]) = ScopeRank(items[i])
          /\ \A j \in S : ScopeRank(items[j]) = ScopeRank(items[i]) => StableRank(items[j]) <= StableRank(items[k])
    <3>1. CASE \E j \in S : ScopeRank(items[j]) = ScopeRank(items[i]) /\ StableRank(items[j]) = 1
      BY <1>2, <3>1
    <3>2. CASE \A j \in S : ScopeRank(items[j]) = ScopeRank(items[i]) => StableRank(items[j]) = 0
      BY <2>1, <3>2
    <3>3. QED
      BY <1>2, <3>1, <3>2
  <2>3. k \in Best
    BY <1>2, <2>1, <2>2 DEF Above
  <2>4. QED
    BY <2>3
<1> DEFINE Behind == {n - i : i \in Best}
<1>4. PICK m \in Behind : \A x \in Behind : m <= x
  <2>1. Behind \in SUBSET Nat /\ Behind # {}
    BY <1>1, <1>3
  <2> HIDE DEF Behind
  <2>2. QED
    BY <2>1, LeastExists
<1>5. PICK w \in Best : m = n - w
  BY <1>4
<1>6. \A j \in Best : j <= w
  <2>1. SUFFICES ASSUME NEW j \in Best PROVE j <= w
    OBVIOUS
  <2>2. n - j \in Behind
    OBVIOUS
  <2>3. n - w <= n - j
    BY <1>4, <1>5, <2>2, Zenon
  <2>4. w \in 1 .. n /\ j \in 1 .. n
    BY <1>1
  <2>5. QED
    BY <1>1, <2>3, <2>4
<1>7. ASSUME NEW j \in S \ {w}
      PROVE  Outranks(w, j)
  <2>1. ~Above(j, w) /\ w \in 1 .. n /\ j \in 1 .. n /\ w \in S
    BY <1>1
  <2>2. CASE j \in Best
    <3>1. ~Above(w, j) /\ j <= w /\ j # w
      BY <1>6, <2>1, <2>2
    <3>2. j < w
      BY <2>1, <3>1
    <3>3. QED
      BY <1>2, <2>1, <3>1, <3>2 DEF Above, Outranks
  <2>3. CASE j \notin Best
    <3>1. PICK k \in S : Above(k, j)
      BY <2>3
    <3>2. ~Above(k, w)
      OBVIOUS
    <3>3. QED
      BY <1>2, <2>1, <3>1, <3>2 DEF Above, Outranks
  <2>4. QED
    BY <2>2, <2>3
<1>8. QED
  BY <1>5, <1>7

\* What is current has a slot that is read.
LEMMA CurrentRead ==
  ASSUME MemoryTypeOK, NEW a \in Audiences, NEW i \in Current(store, a)
  PROVE  Slot(items[i]) \in ReadSlots(a)
<1> DEFINE S == {j \in Current(store, a) : Slot(items[j]) = Slot(items[i])}
<1>1. S \subseteq DOMAIN items /\ i \in S
  BY DEF Current, Visible, ListedBy
<1>2. PICK w \in S : \A j \in S \ {w} : Outranks(w, j)
  <2> HIDE DEF S
  <2>1. QED
    BY <1>1, WinnerExists
<1>3. w \in Readable(a)
  BY <1>2 DEF Readable, ReadableIn
<1>4. w \in Visible(store, a) /\ items[w].status = "verified"
  BY DEF Current
<1>5. QED
  BY <1>3, <1>4 DEF ReadSlots

LEMMA AllAccounted ==
  ASSUME MemoryTypeOK, NEW a \in Audiences, NEW i \in Visible(store, a), items[i].status = "verified"
  PROVE  i \in Accounted(a)
<1> DEFINE n == Len(items)
<1>0. n \in Nat /\ DOMAIN items = 1 .. n /\ Visible(store, a) \subseteq 1 .. n
  BY DEF MemoryTypeOK, Visible, ListedBy
<1>1. PICK f : IsAccount(f, a) /\ Accounted(a) = {j \in Visible(store, a) : f[j]}
  BY AccountedTaken
<1>2. \A j \in DOMAIN items : f[j] = Taken(a, f, j)
  BY <1>1, Zenon DEF IsAccount
<1> DEFINE Open == {j \in Visible(store, a) : items[j].status = "verified" /\ ~f[j]}
           Behind == {n - j : j \in Open}
<1>3. SUFFICES ASSUME Open # {} PROVE FALSE
  BY <1>1
<1>4. PICK m \in Behind : \A x \in Behind : m <= x
  <2>1. Behind \in SUBSET Nat /\ Behind # {}
    BY <1>0, <1>3
  <2> HIDE DEF Behind
  <2>2. QED
    BY <2>1, LeastExists
<1>5. PICK k \in Open : m = n - k
  BY <1>4
<1>6. k \in DOMAIN items /\ k \in 1 .. n /\ ~Taken(a, f, k)
  <2>1. k \in DOMAIN items /\ k \in 1 .. n /\ ~f[k]
    BY <1>0
  <2>2. QED
    BY <1>2, <2>1, Zenon
<1>7. Slot(items[k]) \notin ReadSlots(a)
  BY <1>6, Zenon DEF Taken
<1>8. k \notin Current(store, a)
  BY <1>7, CurrentRead
<1>9. PICK j \in Visible(store, a) : k \in items[j].supersedes
  BY <1>8 DEF Current, Superseded
<1>10. items[j].status = "verified" /\ ~f[j]
  BY <1>6, <1>9, Zenon DEF Taken
<1>11. n - j \in Behind
  BY <1>10
<1>12. n - k <= n - j
  BY <1>4, <1>5, <1>11, Zenon
<1>13. j \in 1 .. n /\ k < j
  BY <1>9, LaterSupersede
<1>14. QED
  BY <1>0, <1>6, <1>12, <1>13

\* No verified memory in scope vanishes: what does not win its slot, or is
\* superseded, leads on to what is read instead, is forgotten or is quarantined
\* (resolveReadableMemories).
THEOREM NothingIsLost == MemorySpec => []NothingVanishes
<1>1. MemoryTypeOK => NothingVanishes
  BY AllAccounted DEF NothingVanishes
<1>2. QED
  BY <1>1, MemoryTyped, PTL
===============================================================================
