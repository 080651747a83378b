---------------------------- MODULE WebChatProofs -----------------------------
(***************************************************************************)
(* Proofs about the web chat: a context is held by one turn at a time, and *)
(* only a loop that has timed out writes to it besides (SerialInContext);  *)
(* sessions do not run into each other (SessionsNotMixed), for any numbers *)
(* of sessions, turns and resumes; what a session was told survives        *)
(* (AnswersKept); and the view keeps every answer whole (ViewSound), for   *)
(* any numbers of runs, responses and entries.                             *)
(***************************************************************************)
EXTENDS Web, TLAPS, FiniteSetTheorems, SequenceTheorems

ContextType ==
  [session : Sessions, busy : 0 .. MaxTurns, entries : Histories, messages : Nat,
   stats : SUBSET Turns, statsData : SUBSET Turns]

TurnType ==
  [phase : {"unasked", "running", "saving", "late", "adrift", "over", "lost"}, chat : Nat,
   session : Sessions \cup {NoSession}, start : Nat, aborted : BOOLEAN, overran : BOOLEAN,
   answered : BOOLEAN, savedAs : Sessions \cup {NoSession}, file : Files]

ResumeType ==
  [phase : {"unasked", "asked", "read", "over"}, session : Sessions \cup {NoSession}, file : Files]

Typed ==
  /\ store \in [Sessions -> Files]
  /\ chats \in Seq(ContextType)
  /\ current \in 0 .. Len(chats)
  /\ current = 0 => chats = <<>>
  /\ turns \in [Turns -> TurnType]
  /\ resumes \in [Resumes -> ResumeType]

\* A turn that goes on has a context.  As long as its caller waits, it keeps its
\* controller busy and was asked in the session the context still has; after its
\* timeout that is so while it shares the context's entries.
Owned ==
  \A t \in Turns :
    /\ Live(t) \/ Late(t) => turns[t].chat \in DOMAIN chats
    /\ Live(t) => chats[turns[t].chat].busy = t
    /\ Live(t) \/ turns[t].phase = "late" => chats[turns[t].chat].session = turns[t].session
    /\ Late(t) => turns[t].overran
    /\ turns[t].overran => turns[t].phase # "unasked"

\* The turns asked in session s, and those its statistics may count, as functions
\* of the turns.
AskedOf(given, s) == {t \in Turns : given[t].phase # "unasked" /\ given[t].session = s}
CountedFor(given, s) == AskedOf(given, s) \cup {t \in Turns : given[t].overran}

\* Entries and statistics are those of session s.
Fits(given, s, history, stats) ==
  Mentions(history) \subseteq AskedOf(given, s) /\ stats \subseteq CountedFor(given, s)

\* What is in a context, in the copy of the statistics a turn will save, in a
\* file, in a save and in a resume fits its session.
ContextsApart ==
  \A c \in DOMAIN chats : Fits(turns, chats[c].session, chats[c].entries, chats[c].stats)
CopiesApart ==
  \A t \in Turns : Live(t) =>
    chats[turns[t].chat].statsData \subseteq CountedFor(turns, turns[t].session)
SavesApart ==
  \A t \in Turns : turns[t].phase = "saving" =>
    /\ turns[t].savedAs = turns[t].session /\ turns[t].session \in Sessions
    /\ Fits(turns, turns[t].session, turns[t].file.history, turns[t].file.stats)
FilesApart == \A s \in Sessions : Fits(turns, s, store[s].history, store[s].stats)
ResumesApart ==
  \A r \in Resumes : resumes[r].phase \in {"asked", "read"} =>
    /\ resumes[r].session \in Sessions
    /\ Fits(turns, resumes[r].session, resumes[r].file.history, resumes[r].file.stats)

Apart == ContextsApart /\ CopiesApart /\ SavesApart /\ FilesApart /\ ResumesApart

Inv == Typed /\ Owned /\ Apart

-------------------------------------------------------------------------------
(* Values.                                                                   *)

LEMMA FreshTyped ==
  /\ Fresh \in Histories /\ Mentions(Fresh) = {}
  /\ Missing \in Files /\ Missing.history = Fresh /\ Missing.stats = {}
  /\ Torn \in Files /\ Torn.history = Fresh /\ Torn.stats = {}
BY WebChatAssumption DEF Fresh, Histories, Missing, Torn, Files, Mentions, Turns

LEMMA EmptyFits ==
  ASSUME NEW given, NEW s
  PROVE  /\ Fits(given, s, Fresh, {})
         /\ Fits(given, s, Torn.history, Torn.stats)
         /\ Fits(given, s, Missing.history, Missing.stats)
BY FreshTyped DEF Fits

LEMMA WholeTyped ==
  ASSUME NEW h \in Histories, NEW S \in SUBSET Turns
  PROVE  /\ Whole(h, S) \in Files /\ Whole(h, S).state = "whole"
         /\ Whole(h, S).history = h /\ Whole(h, S).stats = S
BY DEF Whole, Files

LEMMA TurnsFinite == IsFiniteSet(Turns)
BY FS_Interval, WebChatAssumption DEF Turns

LEMMA CountTyped ==
  ASSUME NEW h \in Histories
  PROVE  MessageCount(h) \in Nat
<1>1. Cardinality(h.asked) \in Nat
  BY TurnsFinite, FS_Subset, FS_CardinalityType DEF Histories
<1>2. QED
  BY <1>1 DEF MessageCount

LEMMA ContextTyped ==
  ASSUME NEW s \in Sessions, NEW file \in Files
  PROVE  /\ Context(s, file) \in ContextType /\ Context(s, file).session = s
         /\ Context(s, file).entries = file.history /\ Context(s, file).stats = file.stats
         /\ Context(s, file).messages = MessageCount(file.history)
<1>1. MessageCount(file.history) \in Nat
  BY CountTyped DEF Files
<1>2. QED
  BY <1>1, WebChatAssumption DEF Context, ContextType, Files

LEMMA NoTurnTyped ==
  NoTurn \in TurnType /\ NoTurn.phase = "unasked" /\ ~NoTurn.overran /\ ~NoTurn.answered
BY FreshTyped DEF NoTurn, TurnType

\* A turn that is over.
LEMMA ClosedTyped ==
  ASSUME NEW turn \in TurnType, NEW p \in {"over", "lost"}
  PROVE  /\ Closed(turn, p) \in TurnType
         /\ Closed(turn, p).phase = p
         /\ Closed(turn, p).session = turn.session
         /\ Closed(turn, p).overran = turn.overran
         /\ Closed(turn, p).answered = turn.answered
         /\ Closed(turn, p).savedAs = turn.savedAs
BY NoTurnTyped DEF Closed, NoTurn, TurnType

\* A turn whose loop goes on.
LEMMA GoingOnTyped ==
  ASSUME NEW turn \in TurnType
  PROVE  /\ GoingOn(turn) \in TurnType
         /\ GoingOn(turn).phase = "late" /\ GoingOn(turn).overran /\ ~GoingOn(turn).answered
         /\ GoingOn(turn).session = turn.session /\ GoingOn(turn).chat = turn.chat
BY NoTurnTyped DEF GoingOn, NoTurn, TurnType

LEMMA GoneTyped == GoneResume \in ResumeType /\ GoneResume.phase = "over"
                   /\ NoResume \in ResumeType /\ NoResume.phase = "unasked" /\ NoResume.file = Missing
BY FreshTyped DEF GoneResume, NoResume, ResumeType

-------------------------------------------------------------------------------
(* Turns beside the one that moves.                                          *)

\* The turn new is the turn old, but that its context may have other entries now
\* and that its file may have been given late results of the turns in some.
SameTurn(some, old, new) ==
  /\ new.chat = old.chat /\ new.session = old.session /\ new.overran = old.overran
  /\ new.answered = old.answered /\ new.savedAs = old.savedAs
  /\ \/ new.phase = old.phase
     \/ old.phase = "late" /\ new.phase = "adrift"
  /\ new.file.state = old.file.state /\ new.file.stats = old.file.stats
  /\ new.file.history.summary = old.file.history.summary
  /\ new.file.history.asked = old.file.history.asked
  /\ new.file.history.late \subseteq old.file.history.late \cup some

LEMMA SameItself == ASSUME NEW turn, NEW some PROVE SameTurn(some, turn, turn)
BY DEF SameTurn

LEMMA DetachedFacts ==
  ASSUME NEW given \in [Turns -> TurnType], NEW c
  PROVE  /\ Detached(c, given) \in [Turns -> TurnType]
         /\ \A t \in Turns :
              /\ SameTurn({}, given[t], Detached(c, given)[t])
              /\ given[t].phase # "late" => Detached(c, given)[t] = given[t]
              /\ given[t].phase = "late" /\ given[t].chat = c => Detached(c, given)[t].phase = "adrift"
<1> SUFFICES ASSUME NEW t \in Turns
             PROVE  /\ Detached(c, given)[t] \in TurnType
                    /\ SameTurn({}, given[t], Detached(c, given)[t])
                    /\ given[t].phase # "late" => Detached(c, given)[t] = given[t]
                    /\ given[t].phase = "late" /\ given[t].chat = c => Detached(c, given)[t].phase = "adrift"
  <2>1. \E F : Detached(c, given) = [t \in Turns |-> F[t]]
    <3>1. Detached(c, given) = [t \in Turns |-> Detached(c, given)[t]]
      BY DEF Detached
    <3>2. QED
      BY <3>1
  <2>2. QED
    BY <2>1
<1>1. given[t] \in TurnType
  OBVIOUS
<1>2. CASE given[t].phase = "late" /\ given[t].chat = c
  <2> DEFINE n == [given[t] EXCEPT !.phase = "adrift"]
  <2>1. Detached(c, given)[t] = n
    BY <1>2 DEF Detached
  <2>2. n \in TurnType /\ n.phase = "adrift" /\ SameTurn({}, given[t], n)
    BY <1>1, <1>2 DEF TurnType, SameTurn
  <2> HIDE DEF n
  <2>3. QED
    BY <1>2, <2>1, <2>2
<1>3. CASE ~(given[t].phase = "late" /\ given[t].chat = c)
  <2>1. Detached(c, given)[t] = given[t]
    BY <1>3 DEF Detached
  <2>2. QED
    BY <1>1, <1>3, <2>1, SameItself
<1>4. QED
  BY <1>2, <1>3

\* Only the files that turn t may still reach get a late result of it.
LEMMA WithLateFacts ==
  ASSUME Typed, NEW t \in Turns
  PROVE  /\ WithLate(t) \in [Turns -> TurnType]
         /\ \A u \in Turns :
              /\ SameTurn({t}, turns[u], WithLate(t)[u])
              /\ WithLate(t)[u].phase = turns[u].phase
              /\ ~(turns[u].phase = "saving" /\ turns[u].chat = turns[t].chat) =>
                   WithLate(t)[u] = turns[u]
<1> SUFFICES ASSUME NEW u \in Turns
             PROVE  /\ WithLate(t)[u] \in TurnType
                    /\ SameTurn({t}, turns[u], WithLate(t)[u])
                    /\ WithLate(t)[u].phase = turns[u].phase
                    /\ ~(turns[u].phase = "saving" /\ turns[u].chat = turns[t].chat) =>
                         WithLate(t)[u] = turns[u]
  <2>1. WithLate(t) = [u \in Turns |-> WithLate(t)[u]]
    BY DEF WithLate
  <2>2. QED
    BY <2>1
<1>1. turns[u] \in TurnType
  BY DEF Typed
<1>2. CASE turns[u].phase = "saving" /\ turns[u].chat = turns[t].chat
  <2> DEFINE f == turns[u].file
             h == [f.history EXCEPT !.late = @ \cup {t}]
             g == [f EXCEPT !.history = h]
             n == [turns[u] EXCEPT !.file = g]
  <2>1. f \in Files /\ f.history \in Histories
    BY <1>1 DEF TurnType, Files
  <2>2. /\ h \in Histories /\ h.summary = f.history.summary /\ h.asked = f.history.asked
        /\ h.late = f.history.late \cup {t}
    BY <2>1 DEF Histories
  <2>3. WithLate(t)[u] = n
    BY <1>2 DEF WithLate
  <2> HIDE DEF h
  <2>4. g \in Files /\ g.history = h /\ g.state = f.state /\ g.stats = f.stats
    BY <2>1, <2>2 DEF Files
  <2> HIDE DEF g, f
  <2>5. /\ n \in TurnType /\ n.file = g /\ n.phase = turns[u].phase /\ n.chat = turns[u].chat
        /\ n.session = turns[u].session /\ n.overran = turns[u].overran
        /\ n.answered = turns[u].answered /\ n.savedAs = turns[u].savedAs
    BY <1>1, <2>4 DEF TurnType
  <2> HIDE DEF n
  <2>6. SameTurn({t}, turns[u], n)
    BY <2>2, <2>4, <2>5 DEF SameTurn, f
  <2>7. QED
    BY <1>2, <2>3, <2>5, <2>6
<1>3. CASE ~(turns[u].phase = "saving" /\ turns[u].chat = turns[t].chat)
  <2>1. WithLate(t)[u] = turns[u]
    BY <1>3 DEF WithLate
  <2>2. QED
    BY <1>1, <1>3, <2>1, SameItself
<1>4. QED
  BY <1>2, <1>3

\* What was asked stays asked where it was, and who overran has overrun.
Grown(given, later) ==
  \A t \in Turns :
    /\ given[t].phase # "unasked" => later[t].phase # "unasked" /\ later[t].session = given[t].session
    /\ given[t].overran => later[t].overran

LEMMA GrownFits ==
  ASSUME NEW given, NEW later, Grown(given, later)
  PROVE  /\ \A s : AskedOf(given, s) \subseteq AskedOf(later, s)
         /\ \A s : CountedFor(given, s) \subseteq CountedFor(later, s)
         /\ \A s, h, S : Fits(given, s, h, S) => Fits(later, s, h, S)
<1>1. \A s : AskedOf(given, s) \subseteq AskedOf(later, s)
  BY DEF Grown, AskedOf
<1>2. \A s : CountedFor(given, s) \subseteq CountedFor(later, s)
  BY <1>1 DEF Grown, CountedFor
<1>3. QED
  BY <1>1, <1>2 DEF Fits

(* The helpers that change one context, field by field.                      *)

\* The fields of a context that decide what belongs to which session.
SameSessions(k, l) ==
  /\ l \in Seq(ContextType)
  /\ Len(l) = Len(k)
  /\ DOMAIN l = DOMAIN k
  /\ \A c \in DOMAIN k : l[c].session = k[c].session

LEMMA SyncedFacts ==
  ASSUME NEW k \in Seq(ContextType), current \in DOMAIN k
  PROVE  LET l == Synced(k)
         IN  /\ SameSessions(k, l)
             /\ \A c \in DOMAIN k :
                  /\ l[c].busy = k[c].busy
                  /\ l[c].entries = k[c].entries
                  /\ l[c].messages = k[c].messages
                  /\ l[c].stats = k[c].stats
                  /\ l[c].statsData = IF c = current THEN k[c].stats ELSE k[c].statsData
<1>1. k[current] \in ContextType
  OBVIOUS
<1>2. [k[current] EXCEPT !.statsData = k[current].stats] \in ContextType
  BY <1>1 DEF ContextType
<1> DEFINE n == [k[current] EXCEPT !.statsData = k[current].stats]
<1>3. /\ n \in ContextType
      /\ n.session = k[current].session /\ n.busy = k[current].busy /\ n.entries = k[current].entries
      /\ n.messages = k[current].messages /\ n.stats = k[current].stats
      /\ n.statsData = k[current].stats
  BY <1>1, <1>2 DEF ContextType
<1>4. Synced(k) = [k EXCEPT ![current] = n]
  BY DEF Synced
<1> HIDE DEF n
<1>5. QED
  BY <1>3, <1>4 DEF SameSessions

\* l is k with turn t counted in context b.
CountedIn(t, b, k, l) ==
  /\ SameSessions(k, l)
  /\ \A c \in DOMAIN k :
       /\ l[c].busy = k[c].busy
       /\ l[c].entries = k[c].entries
       /\ l[c].messages = k[c].messages
       /\ l[c].stats = IF c = b THEN k[c].stats \cup {t} ELSE k[c].stats
       /\ l[c].statsData = IF c = current THEN l[c].stats ELSE k[c].statsData

LEMMA CountedFacts ==
  ASSUME NEW k \in Seq(ContextType), current \in DOMAIN k,
         NEW t \in Turns, turns[t].chat \in DOMAIN k
  PROVE  CountedIn(t, turns[t].chat, k, Counted(t, k))
<1> DEFINE b == turns[t].chat
           n == [k[b] EXCEPT !.stats = @ \cup {t}]
           m == [k EXCEPT ![b] = n]
<1>1. /\ n \in ContextType
      /\ n.session = k[b].session /\ n.busy = k[b].busy /\ n.entries = k[b].entries
      /\ n.messages = k[b].messages /\ n.statsData = k[b].statsData
      /\ n.stats = k[b].stats \cup {t}
  <2>1. k[b] \in ContextType
    OBVIOUS
  <2>2. QED
    BY <2>1 DEF ContextType
<1>2. Counted(t, k) = Synced(m)
  BY DEF Counted
<1> HIDE DEF n
<1>3. /\ SameSessions(k, m)
      /\ \A c \in DOMAIN k :
           /\ m[c].busy = k[c].busy
           /\ m[c].entries = k[c].entries
           /\ m[c].messages = k[c].messages
           /\ m[c].stats = IF c = b THEN k[c].stats \cup {t} ELSE k[c].stats
           /\ m[c].statsData = k[c].statsData
  <2>1. \A c \in DOMAIN k : m[c] = IF c = b THEN n ELSE k[c]
    OBVIOUS
  <2>2. m \in Seq(ContextType) /\ Len(m) = Len(k) /\ DOMAIN m = DOMAIN k
    BY <1>1
  <2> HIDE DEF m
  <2>3. QED
    BY <1>1, <2>1, <2>2 DEF SameSessions
<1> HIDE DEF m
<1>4. m \in Seq(ContextType) /\ current \in DOMAIN m
  BY <1>3 DEF SameSessions
<1> DEFINE l == Synced(m)
<1>5. /\ SameSessions(m, l)
      /\ \A c \in DOMAIN m :
           /\ l[c].busy = m[c].busy
           /\ l[c].entries = m[c].entries
           /\ l[c].messages = m[c].messages
           /\ l[c].stats = m[c].stats
           /\ l[c].statsData = IF c = current THEN m[c].stats ELSE m[c].statsData
  BY <1>4, SyncedFacts
<1> HIDE DEF l
<1>6. /\ SameSessions(k, l)
      /\ \A c \in DOMAIN k :
           /\ l[c].busy = k[c].busy
           /\ l[c].entries = k[c].entries
           /\ l[c].messages = k[c].messages
           /\ l[c].stats = IF c = b THEN k[c].stats \cup {t} ELSE k[c].stats
           /\ l[c].statsData = IF c = current THEN l[c].stats ELSE k[c].statsData
  <2>1. SameSessions(k, l) /\ DOMAIN m = DOMAIN k
    BY <1>3, <1>5 DEF SameSessions
  <2>2. ASSUME NEW c \in DOMAIN k
        PROVE  /\ l[c].busy = k[c].busy
               /\ l[c].entries = k[c].entries
               /\ l[c].messages = k[c].messages
               /\ l[c].stats = IF c = b THEN k[c].stats \cup {t} ELSE k[c].stats
               /\ l[c].statsData = IF c = current THEN l[c].stats ELSE k[c].statsData
    <3>1. /\ m[c].busy = k[c].busy
          /\ m[c].entries = k[c].entries
          /\ m[c].messages = k[c].messages
          /\ m[c].stats = IF c = b THEN k[c].stats \cup {t} ELSE k[c].stats
          /\ m[c].statsData = k[c].statsData
      BY <1>3, Zenon
    <3>2. /\ l[c].busy = m[c].busy
          /\ l[c].entries = m[c].entries
          /\ l[c].messages = m[c].messages
          /\ l[c].stats = m[c].stats
          /\ l[c].statsData = IF c = current THEN m[c].stats ELSE m[c].statsData
      BY <1>5, <2>1, Zenon
    <3>3. l[c].stats = IF c = b THEN k[c].stats \cup {t} ELSE k[c].stats
      BY <3>1, <3>2, Zenon
    <3>4. l[c].statsData = IF c = current THEN l[c].stats ELSE k[c].statsData
      <4>1. CASE c = current
        BY <3>2, <4>1, Zenon
      <4>2. CASE c # current
        BY <3>1, <3>2, <4>2, Zenon
      <4>3. QED
        BY <4>1, <4>2, Zenon
    <3>5. QED
      BY <3>1, <3>2, <3>3, <3>4, Zenon
  <2>3. QED
    BY <2>1, <2>2
<1>7. CountedIn(t, b, k, l)
  BY <1>6, Zenon DEF CountedIn
<1>8. QED
  BY <1>2, <1>7, Zenon DEF l

LEMMA IdleFacts ==
  ASSUME NEW k \in Seq(ContextType), NEW t \in Turns, turns[t].chat \in DOMAIN k
  PROVE  LET l == Idle(t, k)
         IN  /\ SameSessions(k, l)
             /\ \A c \in DOMAIN k :
                  /\ l[c].busy = IF c = turns[t].chat /\ k[c].busy = t THEN 0 ELSE k[c].busy
                  /\ l[c].entries = k[c].entries
                  /\ l[c].messages = k[c].messages
                  /\ l[c].stats = k[c].stats
                  /\ l[c].statsData = k[c].statsData
<1> DEFINE b == turns[t].chat
           n == [k[b] EXCEPT !.busy = IF @ = t THEN 0 ELSE @]
<1>1. /\ n \in ContextType
      /\ n.session = k[b].session /\ n.stats = k[b].stats /\ n.entries = k[b].entries
      /\ n.messages = k[b].messages /\ n.statsData = k[b].statsData
      /\ n.busy = IF k[b].busy = t THEN 0 ELSE k[b].busy
  <2>1. k[b] \in ContextType
    OBVIOUS
  <2>2. (IF k[b].busy = t THEN 0 ELSE k[b].busy) \in 0 .. MaxTurns
    BY <2>1, WebChatAssumption DEF ContextType
  <2>3. QED
    BY <2>1, <2>2 DEF ContextType
<1>2. Idle(t, k) = [k EXCEPT ![b] = n]
  BY DEF Idle
<1> HIDE DEF n
<1>3. QED
  BY <1>1, <1>2 DEF SameSessions

-------------------------------------------------------------------------------
(* A step of a turn.                                                         *)

\* What a step of turn t may do to context c: its question, its late result or its
\* summary may enter the entries if the context shows its session, and its
\* statistics if it does or t has overrun.
Touched(t, c) ==
  /\ \A u \in Turns : u # t /\ chats[c].busy = u => chats'[c].busy = u
  /\ \/ Mentions(chats'[c].entries) \subseteq Mentions(chats[c].entries)
     \/ /\ Mentions(chats'[c].entries) \subseteq Mentions(chats[c].entries) \cup {t}
        /\ chats[c].session = turns'[t].session
  /\ \/ chats'[c].stats \subseteq chats[c].stats
     \/ /\ chats'[c].stats \subseteq chats[c].stats \cup {t}
        /\ chats[c].session = turns'[t].session \/ turns'[t].overran
  /\ chats'[c].statsData \subseteq chats'[c].stats \cup chats[c].statsData

\* What turn t is after its step, as long as it goes on.
Holds(t) ==
  LET c == turns'[t].chat
  IN  /\ Live(t)' =>
           /\ c \in DOMAIN chats
           /\ chats'[c].busy = t
           /\ chats[c].session = turns'[t].session
           /\ \/ chats'[c].statsData \subseteq chats'[c].stats
              \/ Live(t) /\ chats'[c].statsData \subseteq chats[turns[t].chat].statsData
      /\ Late(t)' =>
           /\ c \in DOMAIN chats
           /\ turns'[t].overran
           /\ turns'[t].phase = "late" => chats[c].session = turns'[t].session
      /\ turns'[t].phase = "saving" =>
           /\ turns'[t].savedAs = turns'[t].session
           /\ \/ turns[t].phase = "saving" /\ turns'[t].file = turns[t].file
              \/ /\ Mentions(turns'[t].file.history) \subseteq Mentions(chats'[c].entries)
                 /\ turns'[t].file.stats \subseteq chats'[c].stats \cup chats'[c].statsData

\* What the steps of turn t have in common, whatever they do to its context, to
\* its record and to the file.
LEMMA TurnStepKeeps ==
  ASSUME Inv, NEW t \in Turns,
         turns' \in [Turns -> TurnType],
         \A u \in Turns : u # t =>
           /\ SameTurn({t}, turns[u], turns'[u])
           /\ turns[u].phase = "saving" =>
                \/ turns'[u].file = turns[u].file
                \/ turns[u].session = turns'[t].session,
         turns'[t].phase # "unasked",
         turns[t].phase # "unasked" => turns'[t].session = turns[t].session,
         turns[t].overran => turns'[t].overran,
         SameSessions(chats, chats'),
         current' = current, resumes' = resumes,
         Holds(t),
         \A c \in DOMAIN chats : Touched(t, c),
         store' \in [Sessions -> Files],
         \A s \in Sessions : Fits(turns, s, store'[s].history, store'[s].stats)
  PROVE  Inv'
<1>1. Grown(turns, turns')
  BY DEF Grown, SameTurn
<1>2. /\ \A s : AskedOf(turns, s) \subseteq AskedOf(turns', s)
      /\ \A s : CountedFor(turns, s) \subseteq CountedFor(turns', s)
      /\ \A s, h, S : Fits(turns, s, h, S) => Fits(turns', s, h, S)
  BY <1>1, GrownFits
<1>3. /\ t \in AskedOf(turns', turns'[t].session)
      /\ t \in CountedFor(turns', turns'[t].session)
      /\ turns'[t].overran => \A s : t \in CountedFor(turns', s)
  BY DEF AskedOf, CountedFor
<1>4. /\ \A s : AskedOf(turns', s) \subseteq CountedFor(turns', s)
      /\ DOMAIN chats' = DOMAIN chats
      /\ \A c \in DOMAIN chats : chats'[c].session = chats[c].session
  BY DEF CountedFor, SameSessions
<1>5. Typed'
  BY DEF Inv, Typed, SameSessions
<1>6. ASSUME NEW u \in Turns, u # t
      PROVE  /\ Live(u)' => Live(u)
             /\ Late(u)' => Late(u)
             /\ turns'[u].phase = "late" => turns[u].phase = "late"
             /\ turns'[u].phase = "saving" => turns[u].phase = "saving"
  BY <1>6 DEF SameTurn, Live, Late
<1>7. Owned'
  <2> SUFFICES ASSUME NEW u \in Turns
               PROVE  /\ (Live(u) \/ Late(u))' => turns'[u].chat \in DOMAIN chats
                      /\ Live(u)' => chats'[turns'[u].chat].busy = u
                      /\ Live(u)' \/ turns'[u].phase = "late" =>
                           chats[turns'[u].chat].session = turns'[u].session
                      /\ Late(u)' => turns'[u].overran
                      /\ turns'[u].overran => turns'[u].phase # "unasked"
    BY <1>4 DEF Owned, Live, Late
  <2>1. CASE u = t
    BY <2>1 DEF Holds, Late
  <2>2. CASE u # t
    <3>1. turns'[u].chat = turns[u].chat /\ turns'[u].session = turns[u].session
          /\ turns'[u].overran = turns[u].overran
      BY <2>2 DEF SameTurn
    <3>2. /\ Live(u) \/ Late(u) => turns[u].chat \in DOMAIN chats
          /\ Live(u) => chats[turns[u].chat].busy = u
          /\ Live(u) \/ turns[u].phase = "late" => chats[turns[u].chat].session = turns[u].session
          /\ Late(u) => turns[u].overran
          /\ turns[u].overran => turns[u].phase # "unasked"
      BY DEF Inv, Owned
    <3>3. turns[u].chat \in DOMAIN chats /\ chats[turns[u].chat].busy = u => chats'[turns[u].chat].busy = u
      BY <2>2 DEF Touched
    <3>4. QED
      BY <1>6, <2>2, <3>1, <3>2, <3>3 DEF SameTurn
  <2>3. QED
    BY <2>1, <2>2
<1>8. ContextsApart'
  <2> SUFFICES ASSUME NEW c \in DOMAIN chats
               PROVE  Fits(turns', chats[c].session, chats'[c].entries, chats'[c].stats)
    BY <1>4 DEF ContextsApart
  <2>1. Fits(turns', chats[c].session, chats[c].entries, chats[c].stats)
    BY <1>2 DEF Inv, Apart, ContextsApart
  <2>2. Mentions(chats'[c].entries) \subseteq AskedOf(turns', chats[c].session)
    BY <1>3, <2>1 DEF Touched, Fits
  <2>3. chats'[c].stats \subseteq CountedFor(turns', chats[c].session)
    BY <1>3, <2>1 DEF Touched, Fits
  <2>4. QED
    BY <2>2, <2>3 DEF Fits
<1>9. CopiesApart'
  <2> SUFFICES ASSUME NEW u \in Turns, Live(u)'
               PROVE  chats'[turns'[u].chat].statsData \subseteq CountedFor(turns', turns'[u].session)
    BY DEF CopiesApart
  <2> DEFINE c == turns'[u].chat
             z == turns'[u].session
  <2>1. c \in DOMAIN chats /\ chats[c].session = z
    BY <1>4, <1>7 DEF Owned, Live
  <2>2. chats'[c].stats \subseteq CountedFor(turns', z)
    BY <1>4, <1>8, <2>1 DEF ContextsApart, Fits
  <2>3. chats'[c].statsData \subseteq chats'[c].stats \cup chats[c].statsData
    BY <2>1 DEF Touched
  <2>4. CASE u = t
    <3>1. CASE chats'[c].statsData \subseteq chats'[c].stats
      BY <2>2, <3>1
    <3>2. CASE Live(t) /\ chats'[c].statsData \subseteq chats[turns[t].chat].statsData
      <4>1. chats[turns[t].chat].statsData \subseteq CountedFor(turns, turns[t].session)
        BY <3>2 DEF Inv, Apart, CopiesApart
      <4>2. z = turns[t].session
        BY <2>4, <3>2 DEF Live
      <4>3. QED
        BY <1>2, <3>2, <4>1, <4>2
    <3>3. QED
      BY <2>4, <3>1, <3>2 DEF Holds
  <2>5. CASE u # t
    <3>1. Live(u) /\ c = turns[u].chat /\ z = turns[u].session
      BY <1>6, <2>5 DEF SameTurn
    <3>2. chats[c].statsData \subseteq CountedFor(turns', z)
      BY <1>2, <3>1 DEF Inv, Apart, CopiesApart
    <3>3. QED
      BY <2>2, <2>3, <3>2
  <2>6. QED
    BY <2>4, <2>5
<1>10. SavesApart'
  <2> SUFFICES ASSUME NEW u \in Turns, turns'[u].phase = "saving"
               PROVE  /\ turns'[u].savedAs = turns'[u].session /\ turns'[u].session \in Sessions
                      /\ Fits(turns', turns'[u].session, turns'[u].file.history, turns'[u].file.stats)
    BY DEF SavesApart
  <2> DEFINE z == turns'[u].session
  <2>1. CASE turns[u].phase = "saving" /\ turns'[u].file = turns[u].file
    <3>1. \/ z = turns[u].session /\ turns'[u].savedAs = turns[u].savedAs
          \/ u = t /\ z = turns[u].session
      BY <2>1 DEF SameTurn
    <3>2. /\ turns[u].savedAs = turns[u].session /\ turns[u].session \in Sessions
          /\ Fits(turns', turns[u].session, turns[u].file.history, turns[u].file.stats)
      BY <1>2, <2>1 DEF Inv, Apart, SavesApart
    <3>3. u = t => turns'[u].savedAs = z
      BY DEF Holds
    <3>4. QED
      BY <2>1, <3>1, <3>2, <3>3
  <2>2. CASE u = t /\ ~(turns[t].phase = "saving" /\ turns'[t].file = turns[t].file)
    <3> DEFINE c == turns'[t].chat
    <3>1. Live(t)'
      BY <2>2 DEF Live
    <3>2. /\ z = turns'[t].session /\ c \in DOMAIN chats /\ chats[c].session = z /\ turns'[t].savedAs = z
          /\ Mentions(turns'[t].file.history) \subseteq Mentions(chats'[c].entries)
          /\ turns'[t].file.stats \subseteq chats'[c].stats \cup chats'[c].statsData
      BY <2>2, <3>1 DEF Holds
    <3>3. Fits(turns', z, chats'[c].entries, chats'[c].stats)
      BY <1>4, <1>8, <3>2 DEF ContextsApart
    <3>4. chats'[c].statsData \subseteq CountedFor(turns', z)
      BY <1>9, <3>1, <3>2 DEF CopiesApart
    <3>5. z \in Sessions
      <4>1. chats[c] \in ContextType
        BY <3>2 DEF Inv, Typed
      <4>2. QED
        BY <3>2, <4>1 DEF ContextType
    <3>6. QED
      BY <2>2, <3>2, <3>3, <3>4, <3>5 DEF Fits
  <2>3. CASE u # t /\ turns'[u].file # turns[u].file
    <3>1. /\ turns[u].phase = "saving" /\ z = turns[u].session /\ turns'[u].savedAs = turns[u].savedAs
          /\ turns[u].session = turns'[t].session
          /\ turns'[u].file.stats = turns[u].file.stats
          /\ turns'[u].file.history.summary = turns[u].file.history.summary
          /\ turns'[u].file.history.asked = turns[u].file.history.asked
          /\ turns'[u].file.history.late \subseteq turns[u].file.history.late \cup {t}
      BY <1>6, <2>3 DEF SameTurn
    <3>2. /\ turns[u].savedAs = turns[u].session /\ turns[u].session \in Sessions
          /\ Fits(turns', z, turns[u].file.history, turns[u].file.stats)
      BY <1>2, <3>1 DEF Inv, Apart, SavesApart
    <3>3. Mentions(turns'[u].file.history) \subseteq Mentions(turns[u].file.history) \cup {t}
      BY <3>1 DEF Mentions
    <3>4. Fits(turns', z, turns'[u].file.history, turns'[u].file.stats)
      BY <1>3, <3>1, <3>2, <3>3 DEF Fits
    <3>5. QED
      BY <3>1, <3>2, <3>4
  <2>4. QED
    BY <1>6, <2>1, <2>2, <2>3
<1>11. FilesApart' /\ ResumesApart'
  BY <1>2 DEF Inv, Apart, FilesApart, ResumesApart
<1>12. QED
  BY <1>5, <1>7, <1>8, <1>9, <1>10, <1>11 DEF Inv, Apart

\* A turn that goes on has a context, so one is on show, and its statistics may be
\* counted there.
LEMMA HasContext ==
  ASSUME Inv, NEW t \in Turns, Live(t) \/ Late(t)
  PROVE  /\ chats \in Seq(ContextType)
         /\ turns[t].chat \in DOMAIN chats
         /\ chats[turns[t].chat] \in ContextType
         /\ current \in DOMAIN chats
         /\ turns[t] \in TurnType /\ turns[t].phase # "unasked"
         /\ chats[turns[t].chat].session = turns[t].session \/ turns[t].overran
BY DEF Inv, Typed, Owned, Live, Late

LEMMA LiveHasContext ==
  ASSUME Inv, NEW t \in Turns, Live(t)
  PROVE  /\ turns[t].chat \in DOMAIN chats
         /\ chats[turns[t].chat] \in ContextType
         /\ current \in DOMAIN chats
         /\ turns[t] \in TurnType
         /\ chats[turns[t].chat].busy = t
         /\ chats[turns[t].chat].session = turns[t].session
BY HasContext DEF Inv, Owned

\* l is k after turn t was heard of: at most counted, with its late result in the
\* entries, or at rest.
Reported(t, k, l) ==
  /\ SameSessions(k, l)
  /\ \A c \in DOMAIN k :
       /\ l[c].busy = k[c].busy \/ (c = turns[t].chat /\ k[c].busy = t)
       /\ l[c].messages = k[c].messages
       /\ l[c].entries.summary = k[c].entries.summary
       /\ l[c].entries.asked = k[c].entries.asked
       /\ \/ l[c].entries.late = k[c].entries.late
          \/ c = turns[t].chat /\ turns[t].phase = "late" /\ l[c].entries.late = k[c].entries.late \cup {t}
       /\ \/ l[c].stats = k[c].stats
          \/ c = turns[t].chat /\ l[c].stats = k[c].stats \cup {t}
       /\ l[c].statsData = k[c].statsData \/ l[c].statsData = l[c].stats

LEMMA SyncedReports ==
  ASSUME Inv, NEW t \in Turns, Live(t) \/ Late(t)
  PROVE  Reported(t, chats, Synced(chats)) /\ \A c \in DOMAIN chats : Synced(chats)[c].busy = chats[c].busy
<1> DEFINE l == Synced(chats)
<1>1. /\ SameSessions(chats, l)
      /\ \A c \in DOMAIN chats :
           /\ l[c].busy = chats[c].busy
           /\ l[c].entries = chats[c].entries
           /\ l[c].messages = chats[c].messages
           /\ l[c].stats = chats[c].stats
           /\ l[c].statsData = IF c = current THEN chats[c].stats ELSE chats[c].statsData
  BY HasContext, SyncedFacts
<1> HIDE DEF l
<1>2. Reported(t, chats, l) /\ \A c \in DOMAIN chats : l[c].busy = chats[c].busy
  BY <1>1 DEF Reported
<1>3. QED
  BY <1>2 DEF l

LEMMA CountedReports ==
  ASSUME Inv, NEW t \in Turns, Live(t) \/ Late(t)
  PROVE  /\ Reported(t, chats, Counted(t, chats))
         /\ \A c \in DOMAIN chats : Counted(t, chats)[c].busy = chats[c].busy
<1> DEFINE l == Counted(t, chats)
<1>1. CountedIn(t, turns[t].chat, chats, l)
  BY HasContext, CountedFacts
<1> HIDE DEF l
<1>2. ASSUME NEW c \in DOMAIN chats
      PROVE  /\ l[c].busy = chats[c].busy
             /\ l[c].entries = chats[c].entries
             /\ l[c].messages = chats[c].messages
             /\ l[c].stats = IF c = turns[t].chat THEN chats[c].stats \cup {t} ELSE chats[c].stats
             /\ l[c].statsData = IF c = current THEN l[c].stats ELSE chats[c].statsData
  BY <1>1, Zenon DEF CountedIn
<1>3. SameSessions(chats, l)
  BY <1>1, Zenon DEF CountedIn
<1>4. Reported(t, chats, l) /\ \A c \in DOMAIN chats : l[c].busy = chats[c].busy
  BY <1>2, <1>3 DEF Reported
<1>5. QED
  BY <1>4 DEF l

LEMMA IdleReports ==
  ASSUME Inv, NEW t \in Turns, Live(t) \/ Late(t), NEW k, Reported(t, chats, k)
  PROVE  Reported(t, chats, Idle(t, k))
<1> DEFINE l == Idle(t, k)
<1>1. k \in Seq(ContextType) /\ DOMAIN k = DOMAIN chats /\ turns[t].chat \in DOMAIN k
  BY HasContext DEF Reported, SameSessions
<1>2. /\ SameSessions(k, l)
      /\ \A c \in DOMAIN k :
           /\ l[c].busy = IF c = turns[t].chat /\ k[c].busy = t THEN 0 ELSE k[c].busy
           /\ l[c].entries = k[c].entries
           /\ l[c].messages = k[c].messages
           /\ l[c].stats = k[c].stats
           /\ l[c].statsData = k[c].statsData
  BY <1>1, IdleFacts
<1> HIDE DEF l
<1>3. SameSessions(chats, l)
  BY <1>2 DEF Reported, SameSessions
<1>4. ASSUME NEW c \in DOMAIN chats
      PROVE  l[c].busy = chats[c].busy \/ (c = turns[t].chat /\ chats[c].busy = t)
  BY <1>1, <1>2 DEF Reported
<1>5. Reported(t, chats, l)
  BY <1>1, <1>2, <1>3, <1>4 DEF Reported
<1>6. QED
  BY <1>5 DEF l

\* A step of a turn that goes on in which no more than that happens to the contexts.
LEMMA ReportKeeps ==
  ASSUME Inv, NEW t \in Turns, Live(t) \/ Late(t), Reported(t, chats, chats'),
         NEW a \in TurnType, turns' = [turns EXCEPT ![t] = a],
         a.phase # "unasked", a.session = turns[t].session, turns[t].overran => a.overran,
         Holds(t), UNCHANGED <<current, resumes>>,
         store' \in [Sessions -> Files],
         \A s \in Sessions : Fits(turns, s, store'[s].history, store'[s].stats)
  PROVE  Inv'
<1>1. /\ turns' \in [Turns -> TurnType] /\ turns'[t] = a
      /\ \A u \in Turns : u # t => turns'[u] = turns[u]
  BY DEF Inv, Typed
<1>2. ASSUME NEW c \in DOMAIN chats
      PROVE  Touched(t, c)
  <2>1. c = turns[t].chat => chats[c].session = turns'[t].session \/ turns'[t].overran
    BY <1>1, HasContext
  <2>2. c = turns[t].chat /\ turns[t].phase = "late" => chats[c].session = turns'[t].session
    BY <1>1 DEF Inv, Owned
  <2>3. \/ Mentions(chats'[c].entries) \subseteq Mentions(chats[c].entries)
        \/ /\ Mentions(chats'[c].entries) \subseteq Mentions(chats[c].entries) \cup {t}
           /\ chats[c].session = turns'[t].session
    BY <2>2 DEF Reported, Mentions
  <2>4. \/ chats'[c].stats \subseteq chats[c].stats
        \/ /\ chats'[c].stats \subseteq chats[c].stats \cup {t}
           /\ chats[c].session = turns'[t].session \/ turns'[t].overran
    BY <2>1 DEF Reported
  <2>5. /\ \A u \in Turns : u # t /\ chats[c].busy = u => chats'[c].busy = u
        /\ chats'[c].statsData \subseteq chats'[c].stats \cup chats[c].statsData
    BY DEF Reported
  <2>6. QED
    BY <2>3, <2>4, <2>5 DEF Touched
<1>3. \A u \in Turns : u # t => SameTurn({t}, turns[u], turns'[u]) /\ turns'[u].file = turns[u].file
  BY <1>1, SameItself
<1>4. SameSessions(chats, chats')
  BY DEF Reported
<1>5. QED
  BY <1>1, <1>2, <1>3, <1>4, TurnStepKeeps

LEMMA StoreSame ==
  ASSUME Inv, store' = store
  PROVE  /\ store' \in [Sessions -> Files]
         /\ \A s \in Sessions : Fits(turns, s, store'[s].history, store'[s].stats)
BY DEF Inv, Typed, Apart, FilesApart

LEMMA InterruptKeeps ==
  ASSUME Inv, NEW t \in Turns, Interrupt(t)
  PROVE  Inv'
<1> DEFINE a == [turns[t] EXCEPT !.aborted = TRUE]
<1>1. Live(t)
  BY DEF Interrupt
<1>2. turns[t] \in TurnType
  BY <1>1, LiveHasContext
<1>3. /\ a \in TurnType /\ a.phase = turns[t].phase /\ a.session = turns[t].session
      /\ a.chat = turns[t].chat /\ a.overran = turns[t].overran /\ a.savedAs = turns[t].savedAs
      /\ a.file = turns[t].file
  BY <1>2 DEF TurnType
<1>4. chats' = Synced(chats) /\ turns' = [turns EXCEPT ![t] = a] /\ UNCHANGED <<store, current, resumes>>
  BY DEF Interrupt
<1> HIDE DEF a
<1>5. turns'[t] = a
  BY <1>4 DEF Inv, Typed
<1>6. Reported(t, chats, chats') /\ \A c \in DOMAIN chats : chats'[c].busy = chats[c].busy
  BY <1>1, <1>4, SyncedReports
<1>7. Holds(t)
  <2> DEFINE c == turns[t].chat
  <2>1. /\ c \in DOMAIN chats /\ chats[c].busy = t /\ chats[c].session = turns[t].session
    BY <1>1, LiveHasContext
  <2>2. chats'[c].statsData = chats[c].statsData \/ chats'[c].statsData = chats'[c].stats
    BY <1>6, <2>1 DEF Reported
  <2>3. turns[t].phase = "saving" => turns[t].savedAs = turns[t].session
    BY DEF Inv, Apart, SavesApart
  <2>4. ~Late(t)' /\ turns'[t].chat = c
    BY <1>1, <1>3, <1>5 DEF Live, Late
  <2>5. QED
    BY <1>1, <1>3, <1>5, <1>6, <2>1, <2>2, <2>3, <2>4 DEF Holds
<1>8. a.phase # "unasked"
  BY <1>1, <1>3 DEF Live
<1>9. QED
  BY <1>1, <1>3, <1>4, <1>6, <1>7, <1>8, StoreSame, ReportKeeps

\* The end of a turn, with or without a save behind it, and of a loop.
LEMMA ClosingKeeps ==
  ASSUME Inv, NEW t \in Turns, Live(t) \/ Late(t), Reported(t, chats, chats'),
         NEW a \in TurnType, turns' = [turns EXCEPT ![t] = a],
         a.phase = "over", a.session = turns[t].session, a.overran = turns[t].overran,
         UNCHANGED <<current, resumes>>,
         store' \in [Sessions -> Files],
         \A s \in Sessions : Fits(turns, s, store'[s].history, store'[s].stats)
  PROVE  Inv'
<1>1. turns'[t] = a
  BY DEF Inv, Typed
<1>2. Holds(t)
  BY <1>1 DEF Holds, Live, Late
<1>3. QED
  BY <1>2, ReportKeeps

LEMMA RunErrorsKeeps ==
  ASSUME Inv, NEW t \in Turns, RunErrors(t)
  PROVE  Inv'
<1> DEFINE a == Closed(turns[t], "over")
<1>1. Live(t)
  BY DEF RunErrors, Live
<1>2. a \in TurnType /\ a.phase = "over" /\ a.session = turns[t].session /\ a.overran = turns[t].overran
  BY <1>1, LiveHasContext, ClosedTyped
<1>3. /\ chats' = Idle(t, Counted(t, chats)) /\ turns' = [turns EXCEPT ![t] = a]
      /\ UNCHANGED <<store, current, resumes>>
  BY DEF RunErrors
<1> HIDE DEF a
<1>4. Reported(t, chats, chats')
  BY <1>1, <1>3, CountedReports, IdleReports
<1>5. QED
  BY <1>1, <1>2, <1>3, <1>4, StoreSame, ClosingKeeps

LEMMA RunTimesOutKeeps ==
  ASSUME Inv, NEW t \in Turns, RunTimesOut(t)
  PROVE  Inv'
<1> DEFINE a == GoingOn(turns[t])
<1>1. Live(t)
  BY DEF RunTimesOut, Live
<1>2. /\ a \in TurnType /\ a.phase = "late" /\ a.overran
      /\ a.session = turns[t].session /\ a.chat = turns[t].chat
  BY <1>1, LiveHasContext, GoingOnTyped
<1>3. /\ chats' = Idle(t, Counted(t, chats)) /\ turns' = [turns EXCEPT ![t] = a]
      /\ UNCHANGED <<store, current, resumes>>
  BY DEF RunTimesOut
<1> HIDE DEF a
<1>4. Reported(t, chats, chats')
  BY <1>1, <1>3, CountedReports, IdleReports
<1>5. turns'[t] = a
  BY <1>3 DEF Inv, Typed
<1>6. Holds(t)
  BY <1>1, <1>2, <1>5, LiveHasContext DEF Holds, Live, Late
<1>7. QED
  BY <1>1, <1>2, <1>3, <1>4, <1>6, StoreSame, ReportKeeps

LEMMA LateHolds ==
  ASSUME Inv, NEW t \in Turns, Late(t), turns'[t] = turns[t]
  PROVE  Holds(t)
BY DEF Inv, Owned, Holds, Live, Late

LEMMA LateEventKeeps ==
  ASSUME Inv, NEW t \in Turns, LateEvent(t)
  PROVE  Inv'
<1>1. Late(t) /\ chats' = Counted(t, chats) /\ UNCHANGED <<store, current, turns, resumes>>
  BY DEF LateEvent
<1>2. Reported(t, chats, chats')
  BY <1>1, CountedReports
<1>3. turns[t] \in TurnType /\ turns' = [turns EXCEPT ![t] = turns[t]] /\ turns[t].phase # "unasked"
  BY <1>1, HasContext DEF Inv, Typed
<1>4. Holds(t)
  BY <1>1, LateHolds
<1>5. QED
  BY <1>1, <1>2, <1>3, <1>4, StoreSame, ReportKeeps

LEMMA LateEndKeeps ==
  ASSUME Inv, NEW t \in Turns, LateEnd(t)
  PROVE  Inv'
<1> DEFINE a == Closed(turns[t], "over")
<1>1. Late(t)
  BY DEF LateEnd
<1>2. a \in TurnType /\ a.phase = "over" /\ a.session = turns[t].session /\ a.overran = turns[t].overran
  BY <1>1, HasContext, ClosedTyped
<1>3. turns' = [turns EXCEPT ![t] = a] /\ UNCHANGED <<store, chats, current, resumes>>
  BY DEF LateEnd
<1> HIDE DEF a
<1>4. Reported(t, chats, chats')
  BY <1>1, <1>3, HasContext DEF Reported, SameSessions
<1>5. QED
  BY <1>1, <1>2, <1>3, <1>4, StoreSame, ClosingKeeps

\* The contexts after a late result.
LEMMA LateResultReports ==
  ASSUME Inv, NEW t \in Turns, turns[t].phase = "late",
         chats' = Counted(t, [chats EXCEPT ![turns[t].chat].entries.late = @ \cup {t}])
  PROVE  Reported(t, chats, chats')
<1> DEFINE b == turns[t].chat
           k == chats[b]
           h == [k.entries EXCEPT !.late = @ \cup {t}]
           n == [k EXCEPT !.entries = h]
           m == [chats EXCEPT ![b] = n]
<1>1. Late(t)
  BY DEF Late
<1>2. /\ b \in DOMAIN chats /\ k \in ContextType /\ current \in DOMAIN chats
      /\ chats \in Seq(ContextType)
  BY <1>1, HasContext
<1>3. /\ h \in Histories /\ h.summary = k.entries.summary /\ h.asked = k.entries.asked
      /\ h.late = k.entries.late \cup {t}
  BY <1>2 DEF ContextType, Histories
<1>4. chats' = Counted(t, m)
  OBVIOUS
<1> HIDE DEF h
<1>5. /\ n \in ContextType /\ n.session = k.session /\ n.busy = k.busy /\ n.entries = h
      /\ n.messages = k.messages /\ n.stats = k.stats /\ n.statsData = k.statsData
  BY <1>2, <1>3 DEF ContextType
<1> HIDE DEF n
<1>6. /\ m \in Seq(ContextType) /\ DOMAIN m = DOMAIN chats /\ Len(m) = Len(chats)
      /\ m[b] = n /\ \A c \in DOMAIN chats : c # b => m[c] = chats[c]
  BY <1>2, <1>5
<1> HIDE DEF m
<1>7. CountedIn(t, b, m, chats')
  BY <1>2, <1>4, <1>6, CountedFacts
<1>8. /\ SameSessions(m, chats')
      /\ \A c \in DOMAIN m :
           /\ chats'[c].busy = m[c].busy
           /\ chats'[c].entries = m[c].entries
           /\ chats'[c].messages = m[c].messages
           /\ chats'[c].stats = IF c = b THEN m[c].stats \cup {t} ELSE m[c].stats
           /\ chats'[c].statsData = IF c = current THEN chats'[c].stats ELSE m[c].statsData
  BY <1>7, Zenon DEF CountedIn
<1>13. \A c \in DOMAIN chats :
         /\ m[c].session = chats[c].session /\ m[c].busy = chats[c].busy
         /\ m[c].messages = chats[c].messages /\ m[c].stats = chats[c].stats
         /\ m[c].statsData = chats[c].statsData
         /\ m[c].entries = IF c = b THEN h ELSE chats[c].entries
  BY <1>5, <1>6
<1>9. SameSessions(chats, chats')
  <2>1. SameSessions(m, chats')
    BY <1>8
  <2>2. QED
    BY <1>6, <1>13, <2>1, Zenon DEF SameSessions
<1>10. ASSUME NEW c \in DOMAIN chats
       PROVE  /\ chats'[c].busy = chats[c].busy
              /\ chats'[c].messages = chats[c].messages
              /\ chats'[c].entries = IF c = b THEN h ELSE chats[c].entries
              /\ chats'[c].stats = IF c = b THEN chats[c].stats \cup {t} ELSE chats[c].stats
              /\ chats'[c].statsData = IF c = current THEN chats'[c].stats ELSE chats[c].statsData
  <2>1. c \in DOMAIN m
    BY <1>6
  <2>2. /\ chats'[c].busy = m[c].busy
        /\ chats'[c].entries = m[c].entries
        /\ chats'[c].messages = m[c].messages
        /\ chats'[c].stats = IF c = b THEN m[c].stats \cup {t} ELSE m[c].stats
        /\ chats'[c].statsData = IF c = current THEN chats'[c].stats ELSE m[c].statsData
    BY <1>8, <2>1, Zenon
  <2>3. /\ m[c].busy = chats[c].busy
        /\ m[c].messages = chats[c].messages /\ m[c].stats = chats[c].stats
        /\ m[c].statsData = chats[c].statsData
        /\ m[c].entries = IF c = b THEN h ELSE chats[c].entries
    BY <1>13, Zenon
  <2> HIDE DEF b
  <2>4. QED
    BY <2>2, <2>3
<1>11. QED
  BY <1>3, <1>9, <1>10 DEF Reported

LEMMA LateResultKeeps ==
  ASSUME Inv, NEW t \in Turns, LateResult(t)
  PROVE  Inv'
<1>1. Late(t) /\ ~Live(t) /\ turns[t].phase = "late" /\ UNCHANGED <<store, current, resumes>>
  BY DEF LateResult, Late, Live
<1>2. Reported(t, chats, chats')
  BY <1>1, LateResultReports DEF LateResult
<1>3. turns' = turns \/ turns' = WithLate(t)
  BY DEF LateResult
<1>4. /\ turns' \in [Turns -> TurnType] /\ turns'[t] = turns[t]
      /\ \A u \in Turns :
           /\ SameTurn({t}, turns[u], turns'[u])
           /\ turns'[u] = turns[u] \/ (turns[u].phase = "saving" /\ turns[u].chat = turns[t].chat)
  BY <1>1, <1>3, SameItself, WithLateFacts DEF Inv, Typed
<1>5. Holds(t)
  BY <1>1, <1>4, LateHolds
<1>6. ASSUME NEW u \in Turns, turns[u].phase = "saving", turns'[u] # turns[u]
      PROVE  turns[u].session = turns'[t].session
  BY <1>1, <1>4, <1>6 DEF Inv, Owned, Live
<1>7. ASSUME NEW c \in DOMAIN chats
      PROVE  Touched(t, c)
  <2>1. c = turns[t].chat => chats[c].session = turns'[t].session
    BY <1>1, <1>4 DEF Inv, Owned
  <2>2. \/ Mentions(chats'[c].entries) \subseteq Mentions(chats[c].entries)
        \/ /\ Mentions(chats'[c].entries) \subseteq Mentions(chats[c].entries) \cup {t}
           /\ chats[c].session = turns'[t].session
    BY <1>2, <2>1 DEF Reported, Mentions
  <2>3. \/ chats'[c].stats \subseteq chats[c].stats
        \/ /\ chats'[c].stats \subseteq chats[c].stats \cup {t}
           /\ chats[c].session = turns'[t].session
    BY <1>2, <2>1 DEF Reported
  <2>4. /\ \A u \in Turns : u # t /\ chats[c].busy = u => chats'[c].busy = u
        /\ chats'[c].statsData \subseteq chats'[c].stats \cup chats[c].statsData
    BY <1>2 DEF Reported
  <2>5. QED
    BY <2>2, <2>3, <2>4 DEF Touched
<1>8. SameSessions(chats, chats') /\ turns[t].phase # "unasked"
  BY <1>1, <1>2 DEF Reported
<1>9. QED
  BY <1>1, <1>4, <1>5, <1>6, <1>7, <1>8, StoreSame, TurnStepKeeps

\* A file a save may leave holds what was asked in its session.
LEMMA WritingKeeps ==
  ASSUME Inv, NEW t \in Turns, turns[t].phase = "saving",
         NEW file \in {turns[t].file, store[turns[t].savedAs], Torn},
         store' = [store EXCEPT ![turns[t].savedAs] = file]
  PROVE  /\ store' \in [Sessions -> Files]
         /\ \A s \in Sessions : Fits(turns, s, store'[s].history, store'[s].stats)
<1>1. turns[t].savedAs \in Sessions /\ turns[t].file \in Files
  BY DEF Inv, Apart, SavesApart, Typed, TurnType
<1>2. file \in Files /\ Fits(turns, turns[t].savedAs, file.history, file.stats)
  <2>1. CASE file = turns[t].file
    BY <1>1, <2>1 DEF Inv, Apart, SavesApart
  <2>2. CASE file = store[turns[t].savedAs]
    BY <1>1, <2>2 DEF Inv, Apart, FilesApart, Typed
  <2>3. CASE file = Torn
    BY <2>3, FreshTyped, EmptyFits
  <2>4. QED
    BY <2>1, <2>2, <2>3
<1>3. QED
  BY <1>1, <1>2 DEF Inv, Typed, Apart, FilesApart

LEMMA SaveDoneKeeps ==
  ASSUME Inv, NEW t \in Turns, SaveDone(t)
  PROVE  Inv'
<1> DEFINE a == Closed(turns[t], "over")
<1>1. turns[t].phase = "saving" /\ Live(t)
  BY DEF SaveDone, Live
<1>2. a \in TurnType /\ a.phase = "over" /\ a.session = turns[t].session /\ a.overran = turns[t].overran
  BY <1>1, LiveHasContext, ClosedTyped
<1>3. /\ chats' = Idle(t, Synced(chats)) /\ turns' = [turns EXCEPT ![t] = a]
      /\ UNCHANGED <<current, resumes>>
  BY DEF SaveDone
<1> HIDE DEF a
<1>4. Reported(t, chats, chats')
  BY <1>1, <1>3, SyncedReports, IdleReports
<1>5. PICK file \in {turns[t].file, store[turns[t].savedAs], Torn} :
        store' = [store EXCEPT ![turns[t].savedAs] = file]
  BY DEF SaveDone
<1>6. /\ store' \in [Sessions -> Files]
      /\ \A s \in Sessions : Fits(turns, s, store'[s].history, store'[s].stats)
  BY <1>1, <1>5, WritingKeeps
<1>7. QED
  BY <1>1, <1>2, <1>3, <1>4, <1>6, ClosingKeeps

\* What a finalized turn leaves in the contexts and in the records of the turns.
LEMMA Finalized ==
  ASSUME Inv, NEW t \in Turns, Live(t), NEW h \in Histories, NEW b \in BOOLEAN,
         NEW given \in [Turns -> TurnType], given[t] = turns[t], Finalize(t, h, b, given)
  PROVE  /\ turns' \in [Turns -> TurnType] /\ \A u \in Turns : u # t => turns'[u] = given[u]
         /\ turns'[t].phase = "saving" /\ turns'[t].chat = turns[t].chat /\ turns'[t].answered = b
         /\ turns'[t].session = turns[t].session /\ turns'[t].savedAs = turns[t].session
         /\ turns'[t].overran = turns[t].overran
         /\ turns'[t].file.state = "whole" /\ turns'[t].file.history = h
         /\ turns'[t].file.stats = chats'[turns[t].chat].statsData
         /\ SameSessions(chats, chats')
         /\ \A c \in DOMAIN chats :
              /\ chats'[c].busy = chats[c].busy
              /\ chats'[c].entries = IF c = turns[t].chat THEN h ELSE chats[c].entries
              /\ chats'[c].messages = IF c = turns[t].chat THEN MessageCount(h) ELSE chats[c].messages
              /\ chats'[c].stats = IF c = turns[t].chat THEN chats[c].stats \cup {t} ELSE chats[c].stats
              /\ chats'[c].statsData = IF c = current THEN chats'[c].stats ELSE chats[c].statsData
<1> DEFINE e == turns[t].chat
           k == Counted(t, chats)
           n == [k[e] EXCEPT !.entries = h, !.messages = MessageCount(h)]
           f == Whole(h, k[e].statsData)
           a == [given[t] EXCEPT !.phase = "saving", !.answered = b, !.savedAs = k[e].session, !.file = f]
<1>1. /\ e \in DOMAIN chats /\ turns[t] \in TurnType /\ chats[e].session = turns[t].session
      /\ current \in DOMAIN chats /\ chats \in Seq(ContextType)
  BY LiveHasContext DEF Inv, Typed
<1>2. chats' = [k EXCEPT ![e] = n] /\ turns' = [given EXCEPT ![t] = a]
  BY DEF Finalize
<1>3. CountedIn(t, e, chats, k)
  BY <1>1, CountedFacts
<1> HIDE DEF k
<1>4. /\ SameSessions(chats, k)
      /\ \A c \in DOMAIN chats :
           /\ k[c].busy = chats[c].busy
           /\ k[c].entries = chats[c].entries
           /\ k[c].messages = chats[c].messages
           /\ k[c].stats = IF c = e THEN chats[c].stats \cup {t} ELSE chats[c].stats
           /\ k[c].statsData = IF c = current THEN k[c].stats ELSE chats[c].statsData
  BY <1>3, Zenon DEF CountedIn
<1>5. /\ k \in Seq(ContextType) /\ DOMAIN k = DOMAIN chats /\ k[e] \in ContextType
      /\ k[e].session = turns[t].session
  BY <1>1, <1>4 DEF SameSessions
<1>6. /\ n \in ContextType /\ n.session = k[e].session /\ n.busy = k[e].busy /\ n.entries = h
      /\ n.messages = MessageCount(h) /\ n.stats = k[e].stats /\ n.statsData = k[e].statsData
  BY <1>5, CountTyped DEF ContextType
<1>7. /\ f \in Files /\ f.state = "whole" /\ f.history = h /\ f.stats = k[e].statsData
      /\ k[e].session \in Sessions
  BY <1>5, WholeTyped DEF ContextType
<1> HIDE DEF f
<1>8. /\ a \in TurnType /\ a.phase = "saving" /\ a.chat = e /\ a.answered = b
      /\ a.session = turns[t].session /\ a.savedAs = turns[t].session /\ a.file = f
      /\ a.overran = turns[t].overran
  BY <1>1, <1>5, <1>7 DEF TurnType
<1> HIDE DEF n, a
<1>9. /\ turns' \in [Turns -> TurnType] /\ turns'[t] = a /\ \A u \in Turns : u # t => turns'[u] = given[u]
  BY <1>2, <1>8
<1>10. /\ chats' \in Seq(ContextType) /\ DOMAIN chats' = DOMAIN k /\ Len(chats') = Len(k)
       /\ chats'[e] = n /\ \A c \in DOMAIN k : c # e => chats'[c] = k[c]
  BY <1>1, <1>2, <1>5, <1>6
<1>11. SameSessions(chats, chats')
  BY <1>4, <1>6, <1>10 DEF SameSessions
<1>12. ASSUME NEW c \in DOMAIN chats
       PROVE  /\ chats'[c].busy = chats[c].busy
              /\ chats'[c].entries = IF c = e THEN h ELSE chats[c].entries
              /\ chats'[c].messages = IF c = e THEN MessageCount(h) ELSE chats[c].messages
              /\ chats'[c].stats = IF c = e THEN chats[c].stats \cup {t} ELSE chats[c].stats
              /\ chats'[c].statsData = IF c = current THEN chats'[c].stats ELSE chats[c].statsData
  <2>1. CASE c = e
    BY <1>4, <1>6, <1>10, <2>1
  <2>2. CASE c # e
    <3>1. chats'[c] = k[c]
      BY <1>5, <1>10, <2>2
    <3>2. /\ k[c].busy = chats[c].busy
          /\ k[c].entries = chats[c].entries
          /\ k[c].messages = chats[c].messages
          /\ k[c].stats = IF c = e THEN chats[c].stats \cup {t} ELSE chats[c].stats
          /\ k[c].statsData = IF c = current THEN k[c].stats ELSE chats[c].statsData
      BY <1>4
    <3> HIDE DEF e
    <3>3. QED
      BY <2>2, <3>1, <3>2
  <2>3. QED
    BY <2>1, <2>2
<1>13. turns'[t].file.stats = chats'[e].statsData
  BY <1>6, <1>7, <1>8, <1>9, <1>10
<1>14. QED
  BY <1>7, <1>8, <1>9, <1>11, <1>12, <1>13

LEMMA FinalizeKeeps ==
  ASSUME Inv, NEW t \in Turns, Live(t),
         NEW h \in Histories, Mentions(h) \subseteq Mentions(chats[turns[t].chat].entries) \cup {t},
         NEW b \in BOOLEAN, NEW given \in [Turns -> TurnType], given[t] = turns[t],
         \A u \in Turns : SameTurn({}, turns[u], given[u]),
         \A u \in Turns : turns[u].phase = "saving" => given[u] = turns[u],
         Finalize(t, h, b, given), UNCHANGED <<current, resumes>>,
         store' \in [Sessions -> Files],
         \A s \in Sessions : Fits(turns, s, store'[s].history, store'[s].stats)
  PROVE  Inv'
<1> DEFINE e == turns[t].chat
<1>1. /\ turns' \in [Turns -> TurnType] /\ \A u \in Turns : u # t => turns'[u] = given[u]
      /\ turns'[t].phase = "saving" /\ turns'[t].chat = e /\ turns'[t].answered = b
      /\ turns'[t].session = turns[t].session /\ turns'[t].savedAs = turns[t].session
      /\ turns'[t].overran = turns[t].overran
      /\ turns'[t].file.state = "whole" /\ turns'[t].file.history = h
      /\ turns'[t].file.stats = chats'[e].statsData
      /\ SameSessions(chats, chats')
      /\ \A c \in DOMAIN chats :
           /\ chats'[c].busy = chats[c].busy
           /\ chats'[c].entries = IF c = e THEN h ELSE chats[c].entries
           /\ chats'[c].messages = IF c = e THEN MessageCount(h) ELSE chats[c].messages
           /\ chats'[c].stats = IF c = e THEN chats[c].stats \cup {t} ELSE chats[c].stats
           /\ chats'[c].statsData = IF c = current THEN chats'[c].stats ELSE chats[c].statsData
  BY Finalized, Zenon
<1>2. e \in DOMAIN chats /\ chats[e].busy = t /\ chats[e].session = turns[t].session
  BY LiveHasContext
<1>3. Holds(t)
  <2>1. \/ chats'[e].statsData \subseteq chats'[e].stats
        \/ Live(t) /\ chats'[e].statsData \subseteq chats[turns[t].chat].statsData
    BY <1>1, <1>2
  <2>2. Mentions(turns'[t].file.history) \subseteq Mentions(chats'[e].entries)
    BY <1>1, <1>2
  <2>3. ~Late(t)'
    BY <1>1 DEF Late
  <2>4. chats'[e].busy = t
    BY <1>1, <1>2
  <2>5. QED
    BY <1>1, <1>2, <2>1, <2>2, <2>3, <2>4 DEF Holds
<1>4. ASSUME NEW c \in DOMAIN chats
      PROVE  Touched(t, c)
  <2>1. c = e => chats[c].session = turns'[t].session
    BY <1>1, <1>2
  <2>2. \/ Mentions(chats'[c].entries) \subseteq Mentions(chats[c].entries)
        \/ /\ Mentions(chats'[c].entries) \subseteq Mentions(chats[c].entries) \cup {t}
           /\ chats[c].session = turns'[t].session
    BY <1>1, <2>1
  <2>3. \/ chats'[c].stats \subseteq chats[c].stats
        \/ /\ chats'[c].stats \subseteq chats[c].stats \cup {t}
           /\ chats[c].session = turns'[t].session
    BY <1>1, <2>1
  <2>4. /\ \A u \in Turns : u # t /\ chats[c].busy = u => chats'[c].busy = u
        /\ chats'[c].statsData \subseteq chats'[c].stats \cup chats[c].statsData
    BY <1>1
  <2>5. QED
    BY <2>2, <2>3, <2>4 DEF Touched
<1>5. ASSUME NEW u \in Turns, u # t
      PROVE  /\ SameTurn({t}, turns[u], turns'[u])
             /\ turns[u].phase = "saving" => turns'[u].file = turns[u].file
  BY <1>1, <1>5 DEF SameTurn
<1>6. QED
  BY <1>1, <1>3, <1>4, <1>5, TurnStepKeeps

LEMMA RunAnswersKeeps ==
  ASSUME Inv, NEW t \in Turns, RunAnswers(t)
  PROVE  Inv'
<1> DEFINE k == chats[turns[t].chat].entries
           h == Summarised(t, k)
           d == Detached(turns[t].chat, turns)
<1>1. /\ Live(t) /\ turns[t].phase = "running" /\ UNCHANGED <<store, current, resumes>>
      /\ Finalize(t, h, TRUE, d) \/ Finalize(t, k, TRUE, turns)
  BY DEF RunAnswers, Live
<1>2. turns \in [Turns -> TurnType] /\ k \in Histories
  BY <1>1, LiveHasContext DEF Inv, Typed, ContextType
<1>3. h \in Histories /\ Mentions(h) \subseteq {t}
  BY WebChatAssumption DEF Summarised, Histories, Mentions, Turns
<1>4. /\ d \in [Turns -> TurnType] /\ d[t] = turns[t]
      /\ \A u \in Turns : SameTurn({}, turns[u], d[u])
      /\ \A u \in Turns : turns[u].phase = "saving" => d[u] = turns[u]
  BY <1>1, <1>2, DetachedFacts
<1> HIDE DEF h, d
<1>5. CASE Finalize(t, h, TRUE, d)
  BY <1>1, <1>3, <1>4, <1>5, StoreSame, FinalizeKeeps
<1>6. CASE Finalize(t, k, TRUE, turns)
  BY <1>1, <1>2, <1>6, SameItself, StoreSame, FinalizeKeeps
<1>7. QED
  BY <1>1, <1>5, <1>6

LEMMA RunInterruptedKeeps ==
  ASSUME Inv, NEW t \in Turns, RunInterrupted(t)
  PROVE  Inv'
<1> DEFINE k == chats[turns[t].chat].entries
<1>1. Live(t) /\ Finalize(t, k, FALSE, turns) /\ UNCHANGED <<store, current, resumes>>
  BY DEF RunInterrupted, Live
<1>2. turns \in [Turns -> TurnType] /\ k \in Histories
  BY <1>1, LiveHasContext DEF Inv, Typed, ContextType
<1>3. QED
  BY <1>1, <1>2, SameItself, StoreSame, FinalizeKeeps

LEMMA SaveFailsKeeps ==
  ASSUME Inv, NEW t \in Turns, SaveFails(t)
  PROVE  Inv'
<1> DEFINE o == Closed(turns[t], "over")
           a == [o EXCEPT !.answered = FALSE]
           k == chats[turns[t].chat].entries
<1>1. turns[t].phase = "saving" /\ Live(t) /\ UNCHANGED <<current, resumes>>
  BY DEF SaveFails, Live
<1>2. turns \in [Turns -> TurnType] /\ k \in Histories
  BY <1>1, LiveHasContext DEF Inv, Typed, ContextType
<1>3. PICK file \in {turns[t].file, store[turns[t].savedAs], Torn} :
        store' = [store EXCEPT ![turns[t].savedAs] = file]
  BY DEF SaveFails
<1>4. /\ store' \in [Sessions -> Files]
      /\ \A s \in Sessions : Fits(turns, s, store'[s].history, store'[s].stats)
  BY <1>1, <1>3, WritingKeeps
<1>5. CASE Finalize(t, k, FALSE, turns)
  BY <1>1, <1>2, <1>4, <1>5, SameItself, FinalizeKeeps
<1>6. CASE /\ turns' = [turns EXCEPT ![t] = a]
           /\ chats' = Idle(t, IF turns[t].answered THEN Counted(t, chats) ELSE Synced(chats))
  <2>1. a \in TurnType /\ a.phase = "over" /\ a.session = turns[t].session /\ a.overran = turns[t].overran
    <3>1. /\ o \in TurnType /\ o.phase = "over" /\ o.session = turns[t].session
          /\ o.overran = turns[t].overran
      BY <1>1, LiveHasContext, ClosedTyped
    <3> HIDE DEF o
    <3>2. QED
      BY <3>1 DEF TurnType
  <2> HIDE DEF a
  <2>2. Reported(t, chats, chats')
    <3>1. CASE turns[t].answered
      BY <1>1, <1>6, <3>1, CountedReports, IdleReports
    <3>2. CASE ~turns[t].answered
      BY <1>1, <1>6, <3>2, SyncedReports, IdleReports
    <3>3. QED
      BY <3>1, <3>2
  <2>3. QED
    BY <1>1, <1>4, <1>6, <2>1, <2>2, ClosingKeeps
<1>7. QED
  BY <1>5, <1>6 DEF SaveFails

LEMMA AskingContext ==
  ASSUME NEW k \in ContextType, NEW t \in Turns
  PROVE  LET n == Asking(t, k)
         IN  /\ n \in ContextType /\ n.session = k.session /\ n.busy = t /\ n.messages = k.messages
             /\ n.stats = k.stats \cup {t} /\ Mentions(n.entries) \subseteq Mentions(k.entries) \cup {t}
             /\ n.entries.summary = k.entries.summary /\ n.entries.asked = k.entries.asked \cup {t}
<1>1. t \in 0 .. MaxTurns
  BY WebChatAssumption DEF Turns
<1> DEFINE h == Asked(t, k.entries)
<1>2. /\ h \in Histories /\ Mentions(h) \subseteq Mentions(k.entries) \cup {t}
      /\ h.summary = k.entries.summary /\ h.asked = k.entries.asked \cup {t}
  BY DEF Asked, Histories, ContextType, Mentions
<1>3. Asking(t, k) = [k EXCEPT !.entries = h, !.busy = t, !.stats = @ \cup {t}]
  BY DEF Asking
<1> HIDE DEF h
<1> DEFINE n == [k EXCEPT !.entries = h, !.busy = t, !.stats = @ \cup {t}]
<1>4. /\ n \in ContextType /\ n.session = k.session /\ n.busy = t /\ n.messages = k.messages
      /\ n.stats = k.stats \cup {t} /\ n.entries = h
  BY <1>1, <1>2 DEF ContextType
<1> HIDE DEF n
<1>5. Asking(t, k) = n
  BY <1>3 DEF n
<1>6. QED
  BY <1>2, <1>4, <1>5

\* What a submitted turn leaves in the contexts and in its record.
LEMMA Submitted ==
  ASSUME Inv, NEW t \in Turns, Submit(t)
  PROVE  /\ current \in DOMAIN chats /\ turns[t].phase = "unasked" /\ chats[current].busy = 0
         /\ turns' \in [Turns -> TurnType] /\ \A u \in Turns : u # t => turns'[u] = turns[u]
         /\ turns'[t].phase = "running" /\ turns'[t].chat = current /\ ~turns'[t].answered
         /\ turns'[t].session = chats[current].session
         /\ UNCHANGED <<store, current, resumes, forked>>
         /\ SameSessions(chats, chats')
         /\ \A c \in DOMAIN chats :
              /\ chats'[c].messages = chats[c].messages
              /\ c # current => /\ chats'[c].busy = chats[c].busy /\ chats'[c].entries = chats[c].entries
                                /\ chats'[c].stats = chats[c].stats
                                /\ chats'[c].statsData = chats[c].statsData
         /\ chats'[current].busy = t
         /\ Mentions(chats'[current].entries) \subseteq Mentions(chats[current].entries) \cup {t}
         /\ chats'[current].entries.summary = chats[current].entries.summary
         /\ chats'[current].entries.asked = chats[current].entries.asked \cup {t}
         /\ chats'[current].stats = chats[current].stats \cup {t}
         /\ chats'[current].statsData = chats'[current].stats
<1> DEFINE k == chats[current]
           n == Asking(t, k)
           m == [chats EXCEPT ![current] = n]
           a == [NoTurn EXCEPT !.phase = "running", !.chat = current,
                               !.session = chats[current].session,
                               !.start = chats[current].messages]
<1>1. /\ current \in DOMAIN chats /\ chats \in Seq(ContextType) /\ k \in ContextType
      /\ turns[t].phase = "unasked" /\ k.busy = 0
  BY DEF Inv, Typed, Submit, Busy
<1>2. /\ n \in ContextType /\ n.session = k.session /\ n.busy = t /\ n.messages = k.messages
      /\ n.stats = k.stats \cup {t} /\ Mentions(n.entries) \subseteq Mentions(k.entries) \cup {t}
      /\ n.entries.summary = k.entries.summary /\ n.entries.asked = k.entries.asked \cup {t}
  BY <1>1, AskingContext
<1>3. a \in TurnType /\ a.phase = "running" /\ a.session = k.session /\ a.chat = current /\ ~a.answered
  <2>1. k.messages \in Nat /\ k.session \in Sessions /\ current \in Nat
    BY <1>1 DEF ContextType
  <2>2. QED
    BY <2>1, NoTurnTyped DEF NoTurn, TurnType
<1>4. turns' = [turns EXCEPT ![t] = a] /\ chats' = Synced(m) /\ UNCHANGED <<store, current, resumes, forked>>
  <2>1. chats' = Synced(m)
    BY Zenon DEF Submit
  <2>2. turns' = [turns EXCEPT ![t] = a] /\ UNCHANGED <<store, current, resumes, forked>>
    BY Zenon DEF Submit
  <2>3. QED
    BY <2>1, <2>2
<1> HIDE DEF a, n
<1>5. /\ m \in Seq(ContextType) /\ DOMAIN m = DOMAIN chats /\ Len(m) = Len(chats)
      /\ m[current] = n /\ \A c \in DOMAIN chats : c # current => m[c] = chats[c]
  BY <1>1, <1>2
<1> HIDE DEF m
<1>6. /\ SameSessions(m, chats')
      /\ \A c \in DOMAIN chats :
           /\ chats'[c].busy = m[c].busy
           /\ chats'[c].entries = m[c].entries
           /\ chats'[c].messages = m[c].messages
           /\ chats'[c].stats = m[c].stats
           /\ chats'[c].statsData = IF c = current THEN m[c].stats ELSE m[c].statsData
  BY <1>1, <1>4, <1>5, SyncedFacts
<1>7. SameSessions(chats, chats')
  BY <1>2, <1>5, <1>6 DEF SameSessions
<1>8. /\ turns' \in [Turns -> TurnType] /\ turns'[t] = a
      /\ \A u \in Turns : u # t => turns'[u] = turns[u]
  BY <1>3, <1>4 DEF Inv, Typed
<1>9. ASSUME NEW c \in DOMAIN chats, c # current
      PROVE  /\ chats'[c].busy = chats[c].busy /\ chats'[c].entries = chats[c].entries
             /\ chats'[c].stats = chats[c].stats /\ chats'[c].messages = chats[c].messages
             /\ chats'[c].statsData = chats[c].statsData
  BY <1>5, <1>6, <1>9
<1>10. /\ chats'[current].busy = t /\ chats'[current].entries = n.entries
       /\ chats'[current].stats = n.stats /\ chats'[current].messages = n.messages
       /\ chats'[current].statsData = n.stats
  BY <1>1, <1>2, <1>5, <1>6
<1>11. QED
  BY <1>1, <1>2, <1>3, <1>4, <1>7, <1>8, <1>9, <1>10

LEMMA SubmitKeeps ==
  ASSUME Inv, NEW t \in Turns, Submit(t)
  PROVE  Inv'
<1>1. /\ current \in DOMAIN chats /\ turns[t].phase = "unasked" /\ chats[current].busy = 0
      /\ turns' \in [Turns -> TurnType] /\ \A u \in Turns : u # t => turns'[u] = turns[u]
      /\ turns'[t].phase = "running" /\ turns'[t].chat = current
      /\ turns'[t].session = chats[current].session
      /\ UNCHANGED <<store, current, resumes, forked>>
      /\ SameSessions(chats, chats')
      /\ \A c \in DOMAIN chats : c # current =>
           /\ chats'[c].busy = chats[c].busy /\ chats'[c].entries = chats[c].entries
           /\ chats'[c].stats = chats[c].stats /\ chats'[c].statsData = chats[c].statsData
      /\ chats'[current].busy = t
      /\ Mentions(chats'[current].entries) \subseteq Mentions(chats[current].entries) \cup {t}
      /\ chats'[current].stats = chats[current].stats \cup {t}
      /\ chats'[current].statsData = chats'[current].stats
  BY Submitted
<1>2. ~turns[t].overran
  BY <1>1 DEF Inv, Owned
<1>3. Holds(t)
  BY <1>1 DEF Holds, Late
<1>4. ASSUME NEW c \in DOMAIN chats
      PROVE  Touched(t, c)
  <2>1. CASE c = current
    <3>1. \A u \in Turns : chats[c].busy # u
      BY <1>1, <2>1 DEF Turns
    <3>2. QED
      BY <1>1, <2>1, <3>1 DEF Touched
  <2>2. CASE c # current
    BY <1>1, <2>2 DEF Touched
  <2>3. QED
    BY <2>1, <2>2
<1>5. \A u \in Turns : u # t => SameTurn({t}, turns[u], turns'[u]) /\ turns'[u].file = turns[u].file
  BY <1>1, SameItself
<1>6. QED
  BY <1>1, <1>2, <1>3, <1>4, <1>5, StoreSame, TurnStepKeeps

-------------------------------------------------------------------------------
(* Sessions.                                                                 *)

LEMMA StartKeeps ==
  ASSUME Inv, NEW s \in Sessions, Start(s)
  PROVE  Inv'
<1> DEFINE n == Context(s, store[s])
<1>1. /\ n \in ContextType /\ n.session = s /\ n.entries = store[s].history
      /\ n.stats = store[s].stats
  BY ContextTyped DEF Inv, Typed
<1>2. chats' = <<n>> /\ current' = 1 /\ UNCHANGED <<store, turns, resumes>>
  BY DEF Start
<1>3. \A t \in Turns : ~Live(t) /\ ~Late(t)
  BY DEF Start, Inv, Typed, Owned
<1> HIDE DEF n
<1>4. chats' \in Seq(ContextType) /\ Len(chats') = 1 /\ DOMAIN chats' = {1} /\ chats'[1] = n
  BY <1>1, <1>2
<1>5. Typed'
  BY <1>2, <1>4 DEF Inv, Typed
<1>6. Owned' /\ CopiesApart'
  BY <1>2, <1>3 DEF Inv, Owned, CopiesApart, Live, Late
<1>7. ContextsApart'
  BY <1>1, <1>2, <1>4 DEF ContextsApart, Inv, Apart, FilesApart
<1>8. SavesApart' /\ FilesApart' /\ ResumesApart'
  BY <1>2 DEF Inv, Apart, SavesApart, FilesApart, ResumesApart
<1>9. QED
  BY <1>5, <1>6, <1>7, <1>8 DEF Inv, Apart

\* What a reader, or a crash, may find in the file of a session.
LEMMA OutcomesApart ==
  ASSUME Inv, NEW s \in Sessions, NEW file \in Outcomes(s)
  PROVE  file \in Files /\ Fits(turns, s, file.history, file.stats)
<1>1. CASE file = store[s]
  BY <1>1 DEF Inv, Typed, Apart, FilesApart
<1>2. CASE file = Torn
  BY <1>2, FreshTyped, EmptyFits
<1>3. ASSUME NEW t \in Writes(s), file = turns[t].file
      PROVE  file \in Files /\ Fits(turns, s, file.history, file.stats)
  BY <1>3 DEF Writes, Inv, Typed, TurnType, Apart, SavesApart
<1>4. QED
  BY <1>1, <1>2, <1>3 DEF Outcomes

LEMMA CrashKeeps ==
  ASSUME Inv, Crash
  PROVE  Inv'
<1>1. /\ store' \in [Sessions -> Files]
      /\ \A s \in Sessions : Fits(turns, s, store'[s].history, store'[s].stats)
  <2>1. PICK files \in [Sessions -> UNION {Outcomes(s) : s \in Sessions}] :
          (\A s \in Sessions : files[s] \in Outcomes(s)) /\ store' = files
    BY DEF Crash
  <2>2. \A s \in Sessions : store'[s] \in Files /\ Fits(turns, s, store'[s].history, store'[s].stats)
    BY <2>1, OutcomesApart
  <2>3. QED
    BY <2>1, <2>2
<1>2. turns' = [t \in Turns |-> IF Live(t) \/ Late(t) THEN Closed(turns[t], "lost") ELSE turns[t]]
      /\ resumes' = [r \in Resumes |->
                       IF resumes[r].phase \in {"asked", "read"} THEN GoneResume ELSE resumes[r]]
      /\ chats' = <<>> /\ current' = 0
  BY DEF Crash
<1>3. ASSUME NEW t \in Turns
      PROVE  /\ turns'[t] \in TurnType
             /\ turns'[t].phase \notin {"running", "saving", "late", "adrift"}
             /\ turns'[t].session = turns[t].session /\ turns'[t].overran = turns[t].overran
             /\ turns'[t].phase = "unasked" <=> turns[t].phase = "unasked"
  <2>1. turns[t] \in TurnType
    BY DEF Inv, Typed
  <2>2. CASE Live(t) \/ Late(t)
    BY <1>2, <2>1, <2>2, ClosedTyped DEF Live, Late
  <2>3. CASE ~(Live(t) \/ Late(t))
    BY <1>2, <2>1, <2>3 DEF Live, Late
  <2>4. QED
    BY <2>2, <2>3
<1>4. ASSUME NEW r \in Resumes
      PROVE  resumes'[r] \in ResumeType /\ resumes'[r].phase \notin {"asked", "read"}
  BY <1>2, GoneTyped DEF Inv, Typed
<1>5. \A s, h, S : Fits(turns, s, h, S) => Fits(turns', s, h, S)
  <2>1. Grown(turns, turns')
    BY <1>3 DEF Grown
  <2>2. QED
    BY <2>1, GrownFits
<1>6. Typed'
  <2>1. turns' \in [Turns -> TurnType] /\ resumes' \in [Resumes -> ResumeType]
    BY <1>2, <1>3, <1>4
  <2>2. QED
    BY <1>1, <1>2, <2>1 DEF Typed
<1>7. Owned' /\ CopiesApart' /\ SavesApart'
  BY <1>3 DEF Inv, Owned, CopiesApart, SavesApart, Live, Late
<1>8. ContextsApart' /\ ResumesApart'
  BY <1>2, <1>4 DEF ContextsApart, ResumesApart
<1>9. FilesApart'
  BY <1>1, <1>5 DEF FilesApart
<1>10. QED
  BY <1>6, <1>7, <1>8, <1>9 DEF Inv, Apart

\* What a new session leaves in the contexts and in the records of the turns.
LEMMA SessionStarted ==
  ASSUME Inv, NEW s \in Sessions, NewSession(s)
  PROVE  /\ current \in DOMAIN chats
         /\ chats' \in Seq(ContextType) /\ DOMAIN chats' = DOMAIN chats /\ Len(chats') = Len(chats)
         /\ chats'[current].session = s /\ chats'[current].entries = Fresh
         /\ chats'[current].stats = {} /\ chats'[current].messages = MessageCount(Fresh)
         /\ \A c \in DOMAIN chats : c # current => chats'[c] = chats[c]
         /\ turns' \in [Turns -> TurnType]
         /\ \A t \in Turns :
              /\ SameTurn({}, turns[t], turns'[t])
              /\ turns[t].phase # "late" => turns'[t] = turns[t]
              /\ turns'[t].phase = "late" => turns'[t].chat # current
              /\ Live(t) => turns[t].chat \in DOMAIN chats /\ turns[t].chat # current
         /\ UNCHANGED <<store, current, resumes, forked>>
<1> DEFINE k == chats[current]
           n == [k EXCEPT !.session = s, !.busy = 0, !.entries = Fresh,
                          !.messages = MessageCount(Fresh), !.stats = {}]
<1>1. /\ current \in DOMAIN chats /\ chats \in Seq(ContextType) /\ k \in ContextType /\ k.busy = 0
      /\ turns \in [Turns -> TurnType]
  BY DEF Inv, Typed, NewSession, Busy
<1>2. /\ chats' = [chats EXCEPT ![current] = n] /\ turns' = Detached(current, turns)
      /\ UNCHANGED <<store, current, resumes, forked>>
  BY DEF NewSession, StartNewSession
<1>3. /\ n \in ContextType /\ n.session = s /\ n.entries = Fresh /\ n.stats = {}
      /\ n.messages = MessageCount(Fresh)
  <2>1. Fresh \in Histories /\ MessageCount(Fresh) \in Nat /\ 0 \in 0 .. MaxTurns
    BY FreshTyped, CountTyped, WebChatAssumption
  <2>2. QED
    BY <1>1, <2>1 DEF ContextType
<1> HIDE DEF n
<1>4. /\ chats' \in Seq(ContextType) /\ DOMAIN chats' = DOMAIN chats /\ Len(chats') = Len(chats)
      /\ chats'[current] = n /\ \A c \in DOMAIN chats : c # current => chats'[c] = chats[c]
  BY <1>1, <1>2, <1>3
<1>5. \A t \in Turns : Live(t) => turns[t].chat \in DOMAIN chats /\ turns[t].chat # current
  BY <1>1 DEF Inv, Owned, Turns
<1>6. /\ turns' \in [Turns -> TurnType]
      /\ \A t \in Turns :
           /\ SameTurn({}, turns[t], turns'[t])
           /\ turns[t].phase # "late" => turns'[t] = turns[t]
           /\ turns[t].phase = "late" /\ turns[t].chat = current => turns'[t].phase = "adrift"
  BY <1>1, <1>2, DetachedFacts
<1>7. \A t \in Turns : turns'[t].phase = "late" => turns'[t].chat # current
  BY <1>6 DEF SameTurn
<1>8. QED
  BY <1>1, <1>2, <1>3, <1>4, <1>5, <1>6, <1>7

LEMMA NewSessionKeeps ==
  ASSUME Inv, NEW s \in Sessions, NewSession(s)
  PROVE  Inv'
<1>1. /\ current \in DOMAIN chats
      /\ chats' \in Seq(ContextType) /\ DOMAIN chats' = DOMAIN chats /\ Len(chats') = Len(chats)
      /\ chats'[current].session = s /\ chats'[current].entries = Fresh
      /\ chats'[current].stats = {}
      /\ \A c \in DOMAIN chats : c # current => chats'[c] = chats[c]
      /\ turns' \in [Turns -> TurnType]
      /\ \A t \in Turns :
           /\ SameTurn({}, turns[t], turns'[t])
           /\ turns[t].phase # "late" => turns'[t] = turns[t]
           /\ turns'[t].phase = "late" => turns'[t].chat # current
           /\ Live(t) => turns[t].chat \in DOMAIN chats /\ turns[t].chat # current
      /\ UNCHANGED <<store, current, resumes>>
  BY SessionStarted
<1>2. /\ \A z : CountedFor(turns, z) \subseteq CountedFor(turns', z)
      /\ \A z, h, S : Fits(turns, z, h, S) => Fits(turns', z, h, S)
  <2>1. Grown(turns, turns')
    BY <1>1 DEF Grown, SameTurn
  <2>2. QED
    BY <2>1, GrownFits
<1>3. ASSUME NEW t \in Turns
      PROVE  /\ Live(t)' => Live(t) /\ turns'[t] = turns[t]
             /\ Late(t)' => Late(t) /\ turns'[t].chat = turns[t].chat
             /\ turns'[t].phase = "late" => turns[t].phase = "late"
             /\ turns'[t].session = turns[t].session /\ turns'[t].overran = turns[t].overran
             /\ turns'[t].phase = "unasked" => turns[t].phase = "unasked"
  BY <1>1 DEF SameTurn, Live, Late
<1>4. Typed'
  BY <1>1 DEF Inv, Typed
<1>5. Owned'
  <2> SUFFICES ASSUME NEW t \in Turns
               PROVE  /\ (Live(t) \/ Late(t))' => turns'[t].chat \in DOMAIN chats
                      /\ Live(t)' => chats'[turns'[t].chat].busy = t
                      /\ Live(t)' \/ turns'[t].phase = "late" =>
                           chats'[turns'[t].chat].session = turns'[t].session
                      /\ Late(t)' => turns'[t].overran
                      /\ turns'[t].overran => turns'[t].phase # "unasked"
    BY <1>1 DEF Owned, Live, Late
  <2>1. /\ Live(t) \/ Late(t) => turns[t].chat \in DOMAIN chats
        /\ Live(t) => chats[turns[t].chat].busy = t
        /\ Live(t) \/ turns[t].phase = "late" => chats[turns[t].chat].session = turns[t].session
        /\ Late(t) => turns[t].overran
        /\ turns[t].overran => turns[t].phase # "unasked"
    BY DEF Inv, Owned
  <2>2. CASE Live(t)'
    <3>1. chats'[turns[t].chat] = chats[turns[t].chat]
      BY <1>1, <1>3, <2>2
    <3>2. ~Late(t)'
      BY <2>2 DEF Live, Late
    <3>3. QED
      BY <1>3, <2>1, <2>2, <3>1, <3>2
  <2>3. CASE turns'[t].phase = "late"
    <3>1. Late(t)' /\ ~Live(t)'
      BY <2>3 DEF Live, Late
    <3>2. chats'[turns[t].chat] = chats[turns[t].chat]
      BY <1>1, <1>3, <2>1, <2>3, <3>1
    <3>3. QED
      BY <1>3, <2>1, <2>3, <3>1, <3>2
  <2>4. CASE ~Live(t)' /\ turns'[t].phase # "late"
    BY <1>3, <2>1, <2>4
  <2>5. QED
    BY <2>2, <2>3, <2>4
<1>6. CopiesApart'
  <2> SUFFICES ASSUME NEW t \in Turns, Live(t)'
               PROVE  chats'[turns'[t].chat].statsData \subseteq CountedFor(turns', turns'[t].session)
    BY DEF CopiesApart
  <2>1. Live(t) /\ turns'[t] = turns[t] /\ chats'[turns[t].chat] = chats[turns[t].chat]
    BY <1>1, <1>3
  <2>2. chats[turns[t].chat].statsData \subseteq CountedFor(turns, turns[t].session)
    BY <2>1 DEF Inv, Apart, CopiesApart
  <2>3. QED
    BY <1>2, <2>1, <2>2
<1>7. ContextsApart'
  <2> SUFFICES ASSUME NEW c \in DOMAIN chats
               PROVE  Fits(turns', chats'[c].session, chats'[c].entries, chats'[c].stats)
    BY <1>1 DEF ContextsApart
  <2>1. CASE c = current
    BY <1>1, <2>1, EmptyFits
  <2>2. CASE c # current
    BY <1>1, <1>2, <2>2 DEF Inv, Apart, ContextsApart
  <2>3. QED
    BY <2>1, <2>2
<1>8. SavesApart'
  <2> SUFFICES ASSUME NEW t \in Turns, turns'[t].phase = "saving"
               PROVE  /\ turns'[t].savedAs = turns'[t].session /\ turns'[t].session \in Sessions
                      /\ Fits(turns', turns'[t].session, turns'[t].file.history, turns'[t].file.stats)
    BY DEF SavesApart
  <2>1. turns'[t] = turns[t]
    BY <1>3 DEF Live
  <2>2. QED
    BY <1>2, <2>1 DEF Inv, Apart, SavesApart
<1>9. FilesApart' /\ ResumesApart'
  BY <1>1, <1>2 DEF Inv, Apart, FilesApart, ResumesApart
<1>10. QED
  BY <1>4, <1>5, <1>6, <1>7, <1>8, <1>9 DEF Inv, Apart

\* A step that changes no more than the record of one resume.
LEMMA ResumeStepKeeps ==
  ASSUME Inv, NEW r \in Resumes, NEW a \in ResumeType, resumes' = [resumes EXCEPT ![r] = a],
         a.phase \in {"asked", "read"} =>
           a.session \in Sessions /\ Fits(turns, a.session, a.file.history, a.file.stats),
         UNCHANGED <<store, chats, current, turns>>
  PROVE  Inv'
<1>1. /\ resumes' \in [Resumes -> ResumeType] /\ resumes'[r] = a
      /\ \A q \in Resumes : q # r => resumes'[q] = resumes[q]
  BY DEF Inv, Typed
<1>2. Typed' /\ Owned'
  BY <1>1 DEF Inv, Typed, Owned, Live, Late
<1>3. ContextsApart' /\ CopiesApart' /\ SavesApart' /\ FilesApart'
  BY DEF Inv, Apart, ContextsApart, CopiesApart, SavesApart, FilesApart, Live
<1>4. ResumesApart'
  BY <1>1 DEF Inv, Apart, ResumesApart
<1>5. QED
  BY <1>2, <1>3, <1>4 DEF Inv, Apart

LEMMA RequestResumeKeeps ==
  ASSUME Inv, NEW r \in Resumes, NEW s \in Sessions, RequestResume(r, s)
  PROVE  Inv'
<1> DEFINE a == [NoResume EXCEPT !.phase = "asked", !.session = s]
<1>1. a \in ResumeType /\ a.session = s /\ Fits(turns, s, a.file.history, a.file.stats)
  <2>1. a \in ResumeType /\ a.session = s /\ a.file = Missing
    BY FreshTyped DEF NoResume, ResumeType
  <2> HIDE DEF a
  <2>2. QED
    BY <2>1, EmptyFits
<1>2. resumes' = [resumes EXCEPT ![r] = a] /\ UNCHANGED <<store, chats, current, turns>>
  BY DEF RequestResume
<1> HIDE DEF a
<1>3. QED
  BY <1>1, <1>2, ResumeStepKeeps

LEMMA ReadStoredKeeps ==
  ASSUME Inv, NEW r \in Resumes, ReadStored(r)
  PROVE  Inv'
<1> DEFINE s == resumes[r].session
<1>1. resumes[r] \in ResumeType /\ s \in Sessions
  BY DEF ReadStored, Inv, Typed, Apart, ResumesApart
<1>2. PICK file \in Outcomes(s) :
        resumes' = [resumes EXCEPT ![r] =
                      IF file.state = "whole" THEN [resumes[r] EXCEPT !.phase = "read", !.file = file]
                      ELSE GoneResume]
  BY DEF ReadStored
<1>3. file \in Files /\ Fits(turns, s, file.history, file.stats)
  BY <1>1, OutcomesApart
<1> DEFINE b == [resumes[r] EXCEPT !.phase = "read", !.file = file]
           a == IF file.state = "whole" THEN b ELSE GoneResume
<1>4. b \in ResumeType /\ b.session = s /\ b.file = file
  BY <1>1, <1>3 DEF ResumeType
<1>5. UNCHANGED <<store, chats, current, turns>>
  BY DEF ReadStored
<1> HIDE DEF b
<1>6. /\ a \in ResumeType
      /\ a.phase \in {"asked", "read"} =>
           a.session \in Sessions /\ Fits(turns, a.session, a.file.history, a.file.stats)
  BY <1>1, <1>3, <1>4, GoneTyped
<1>7. resumes' = [resumes EXCEPT ![r] = a]
  BY <1>2 DEF b
<1> HIDE DEF a
<1>8. QED
  BY <1>5, <1>6, <1>7, ResumeStepKeeps

LEMMA ResumeFailsKeeps ==
  ASSUME Inv, NEW r \in Resumes, ResumeFails(r)
  PROVE  Inv'
BY GoneTyped, ResumeStepKeeps DEF ResumeFails

LEMMA FinishResumeKeeps ==
  ASSUME Inv, NEW r \in Resumes, FinishResume(r)
  PROVE  Inv'
<1> DEFINE n == Context(resumes[r].session, resumes[r].file)
           l == Len(chats) + 1
<1>1. /\ resumes[r] \in ResumeType /\ resumes[r].phase = "read" /\ resumes[r].session \in Sessions
      /\ Fits(turns, resumes[r].session, resumes[r].file.history, resumes[r].file.stats)
      /\ chats \in Seq(ContextType)
  BY DEF FinishResume, Inv, Typed, Apart, ResumesApart
<1>2. resumes[r].file \in Files
  BY <1>1 DEF ResumeType
<1>3. /\ n \in ContextType /\ n.session = resumes[r].session
      /\ n.entries = resumes[r].file.history /\ n.stats = resumes[r].file.stats
  BY <1>1, <1>2, ContextTyped
<1>5. chats' = Append(chats, n) /\ current' = l /\ resumes' = [resumes EXCEPT ![r] = GoneResume]
      /\ UNCHANGED <<store, turns>>
  BY DEF FinishResume
<1> HIDE DEF n
<1>6. /\ chats' \in Seq(ContextType) /\ Len(chats') = l /\ DOMAIN chats' = 1 .. l
      /\ chats'[l] = n /\ \A c \in DOMAIN chats : c # l /\ chats'[c] = chats[c]
      /\ DOMAIN chats' = DOMAIN chats \cup {l}
  BY <1>1, <1>3, <1>5
<1>7. /\ resumes' \in [Resumes -> ResumeType] /\ resumes'[r].phase = "over"
      /\ \A q \in Resumes : q # r => resumes'[q] = resumes[q]
  BY <1>5, GoneTyped DEF Inv, Typed
<1>8. Typed'
  BY <1>1, <1>5, <1>6, <1>7 DEF Inv, Typed
<1>9. Owned' /\ CopiesApart'
  BY <1>5, <1>6 DEF Inv, Owned, Apart, CopiesApart, Live, Late
<1>10. ContextsApart'
  BY <1>1, <1>3, <1>5, <1>6 DEF Inv, Apart, ContextsApart
<1>11. SavesApart' /\ FilesApart'
  BY <1>5 DEF Inv, Apart, SavesApart, FilesApart
<1>12. ResumesApart'
  BY <1>5, <1>7 DEF Inv, Apart, ResumesApart
<1>13. QED
  BY <1>8, <1>9, <1>10, <1>11, <1>12 DEF Inv, Apart

-------------------------------------------------------------------------------
(* The invariant holds in every state of every behaviour.                    *)

LEMMA InvInit == WebChatInit => Inv
<1> SUFFICES ASSUME WebChatInit PROVE Inv
  OBVIOUS
<1> USE DEF WebChatInit
<1>1. /\ \A t \in Turns : turns[t] \in TurnType /\ turns[t].phase = "unasked" /\ ~turns[t].overran
      /\ \A r \in Resumes : resumes[r] \in ResumeType /\ resumes[r].phase = "unasked"
      /\ \A s \in Sessions : store[s] \in Files /\ store[s] = Missing
  BY NoTurnTyped, GoneTyped, FreshTyped
<1>2. Typed
  BY <1>1 DEF Typed
<1>3. Owned /\ CopiesApart /\ SavesApart
  BY <1>1 DEF Owned, CopiesApart, SavesApart, Live, Late
<1>4. ContextsApart /\ FilesApart /\ ResumesApart
  BY <1>1, EmptyFits DEF ContextsApart, FilesApart, ResumesApart
<1>5. QED
  BY <1>2, <1>3, <1>4 DEF Inv, Apart

LEMMA InvNext ==
  ASSUME Inv, [WebChatNext]_vars
  PROVE  Inv'
<1>1. CASE UNCHANGED vars
  BY <1>1 DEF vars, Inv, Typed, Owned, Apart, ContextsApart, CopiesApart, SavesApart, FilesApart,
     ResumesApart, Live, Late
<1>2. ASSUME NEW s \in Sessions, Start(s) \/ NewSession(s)
      PROVE  Inv'
  BY <1>2, StartKeeps, NewSessionKeeps
<1>3. ASSUME NEW t \in Turns, TurnStep(t)
      PROVE  Inv'
  BY <1>3, SubmitKeeps, InterruptKeeps, RunAnswersKeeps, RunInterruptedKeeps, RunErrorsKeeps,
     RunTimesOutKeeps, LateEventKeeps, LateResultKeeps, LateEndKeeps, SaveDoneKeeps, SaveFailsKeeps
     DEF TurnStep
<1>4. ASSUME NEW r \in Resumes, ReadStored(r) \/ FinishResume(r) \/ ResumeFails(r)
      PROVE  Inv'
  BY <1>4, ReadStoredKeeps, FinishResumeKeeps, ResumeFailsKeeps
<1>5. ASSUME NEW r \in Resumes, NEW s \in Sessions, RequestResume(r, s)
      PROVE  Inv'
  BY <1>5, RequestResumeKeeps
<1>6. CASE Crash
  BY <1>6, CrashKeeps
<1>7. QED
  BY <1>1, <1>2, <1>3, <1>4, <1>5, <1>6 DEF WebChatNext

\* No step, a crash included, takes the chat out of the invariant.
THEOREM WebChatInvariant == WebChatSpec => []Inv
<1>1. Inv /\ [WebChatNext]_vars => Inv'
  BY InvNext
<1>2. QED
  BY InvInit, <1>1, PTL DEF WebChatSpec

\* However turns, saves, interrupts, timeouts, new sessions, resumes and crashes
\* interleave, a context is held by at most one turn, its controller knows it, and
\* the only loops that write to its entries besides have timed out and were asked
\* in the session it shows (server.ts:167, turn-controller.ts:74, timeout.ts:55).
THEOREM ChatsSerial == WebChatSpec => []SerialInContext
<1>1. Inv => SerialInContext
  BY DEF Inv, Owned, SerialInContext, Late
<1>2. QED
  BY <1>1, WebChatInvariant, PTL

\* No interleaving puts a question, a late result or a summary of one session into
\* the context or the file of another, nor statistics but those of a turn that
\* timed out (startNewChatSession, syncStats).
THEOREM ChatsApart == WebChatSpec => []SessionsNotMixed
<1>1. Inv => SessionsNotMixed
  BY DEF Inv, Apart, ContextsApart, FilesApart, SessionsNotMixed, Fits, AskedOf, AskedIn, CountedFor,
     Overran
<1>2. QED
  BY <1>1, WebChatInvariant, PTL

-------------------------------------------------------------------------------
(* What a session was told survives.                                         *)

\* The message list of a context is no longer than its entries.
CopyOf(context) == context.messages <= MessageCount(context.entries)
Copied == \A c \in DOMAIN chats : CopyOf(chats[c])

\* The context on show is the one created last; a resume has read a whole file;
\* turns are asked in order.
LastShown == current = Len(chats)
ReadsWhole == \A r \in Resumes : resumes[r].phase = "read" => resumes[r].file.state = "whole"
AskedInOrder == \A t, u \in Turns : u < t /\ turns[t].phase # "unasked" => turns[u].phase # "unasked"

\* A turn's question stays in its context's entries, or becomes their summary; what
\* it saves is those entries, as its session's.  A turn that overran has no answer.
Holding(t, entries) == t \in entries.asked \/ entries.summary = t
RecordOf(t, turn, entries) ==
  /\ turn.phase = "running" => ~turn.answered /\ t \in entries.asked
  /\ turn.phase \in {"late", "adrift"} => ~turn.answered
  /\ turn.phase = "over" /\ turn.answered => turn.savedAs = turn.session /\ turn.session \in Sessions
  /\ turn.phase = "saving" =>
       /\ turn.savedAs = turn.session /\ turn.file.state = "whole"
       /\ turn.file.history.summary = entries.summary
       /\ turn.file.history.asked = entries.asked
       /\ Holding(t, entries)
Recorded == \A t \in Turns : RecordOf(t, turns[t], chats[turns[t].chat].entries)

\* The answers of session s whose save was reported done.
AnswersOf(given, s) ==
  {t \in Turns : given[t].phase = "over" /\ given[t].answered /\ given[t].session = s}
Covers(history, answers) == \A t \in answers : t <= history.summary \/ t \in history.asked

\* The context c can still be saved as its session's.
Writable(c) == c = current \/ \E t \in Turns : Live(t) /\ turns[t].chat = c

\* A file, and a context that can still be saved, hold them all; the turn that
\* goes on is in the last context of its session, and was asked last.
FileKept(s) ==
  /\ store[s].state = "whole" => Covers(store[s].history, AnswersOf(turns, s))
  /\ store[s].state = "missing" => AnswersOf(turns, s) = {}
ContextsKept(s) ==
  \A c \in DOMAIN chats : chats[c].session = s /\ Writable(c) => Covers(chats[c].entries, AnswersOf(turns, s))
NewestKept(s) ==
  \A t \in Turns : Live(t) /\ turns[t].session = s =>
    /\ \A c \in DOMAIN chats : chats[c].session = s => c <= turns[t].chat
    /\ \A u \in AnswersOf(turns, s) : u < t

Kept ==
  /\ forked \subseteq Sessions
  /\ \A s \in Sessions \ forked : FileKept(s) /\ ContextsKept(s) /\ NewestKept(s)

\* What all of it rests on.
KeptInv == Inv /\ Copied /\ LastShown /\ ReadsWhole /\ AskedInOrder /\ Recorded /\ Kept

\* Entries that differ in late results at most have as many messages and hold the
\* same answers.
SameEntries(old, new) == new.summary = old.summary /\ new.asked = old.asked

LEMMA SameEntriesFacts ==
  ASSUME NEW old, NEW new, SameEntries(old, new)
  PROVE  /\ MessageCount(new) = MessageCount(old)
         /\ \A answers : Covers(old, answers) => Covers(new, answers)
         /\ \A t : Holding(t, old) => Holding(t, new)
BY DEF SameEntries, MessageCount, Covers, Holding

LEMMA SameRecord ==
  ASSUME NEW t, NEW old, NEW new, NEW turn, NEW later, SameEntries(old, new),
         NEW some, SameTurn(some, turn, later), RecordOf(t, turn, old)
  PROVE  RecordOf(t, later, new)
<1>1. turn.phase = later.phase \/ (turn.phase = "late" /\ later.phase = "adrift")
  BY DEF SameTurn
<1>2. CASE turn.phase = "late" /\ later.phase = "adrift"
  BY <1>2 DEF RecordOf, SameTurn
<1>3. CASE turn.phase = later.phase
  BY <1>3 DEF RecordOf, SameTurn, SameEntries, Holding
<1>4. QED
  BY <1>1, <1>2, <1>3

\* A record that is not that of a turn with a context says nothing of entries.
LEMMA RestingRecord ==
  ASSUME NEW t, NEW old, NEW new, NEW turn, turn.phase \notin {"running", "saving"},
         NEW later, NEW some, SameTurn(some, turn, later), RecordOf(t, turn, old)
  PROVE  RecordOf(t, later, new)
<1>1. later.phase \notin {"running", "saving"}
  BY DEF SameTurn
<1>2. QED
  BY <1>1 DEF RecordOf, SameTurn

\* A session put on show from what its file holds has one turn at a time.
LEMMA OneWriter ==
  ASSUME Inv, LastShown, NEW t \in Turns, Live(t), NewestKept(turns[t].session),
         NEW c \in DOMAIN chats, chats[c].session = turns[t].session, Writable(c)
  PROVE  c = turns[t].chat /\ \A u \in Turns : Live(u) /\ turns[u].session = turns[t].session => u = t
<1>1. /\ turns[t].chat \in 1 .. Len(chats) /\ DOMAIN chats = 1 .. Len(chats) /\ Len(chats) \in Nat
      /\ c <= turns[t].chat
  BY DEF Inv, Typed, Owned, NewestKept
<1>2. ASSUME NEW u \in Turns, Live(u), turns[u].session = turns[t].session
      PROVE  turns[u].chat = turns[t].chat /\ u = t
  <2>1. /\ turns[u].chat \in DOMAIN chats /\ chats[turns[u].chat].session = turns[t].session
        /\ chats[turns[t].chat].session = turns[t].session
    BY <1>2 DEF Inv, Owned
  <2>2. turns[u].chat <= turns[t].chat /\ turns[t].chat <= turns[u].chat
    BY <1>1, <1>2, <2>1 DEF NewestKept
  <2>3. turns[u].chat = turns[t].chat
    BY <1>1, <2>1, <2>2
  <2>4. QED
    BY <1>2, <2>3 DEF Inv, Owned
<1>3. c = turns[t].chat
  <2>1. CASE c = current
    BY <1>1, <2>1 DEF LastShown
  <2>2. ASSUME NEW u \in Turns, Live(u), turns[u].chat = c
        PROVE  c = turns[t].chat
    <3>1. turns[u].session = turns[t].session
      BY <2>2 DEF Inv, Owned
    <3>2. QED
      BY <1>2, <2>2, <3>1
  <2>3. QED
    BY <2>1, <2>2 DEF Writable
<1>4. QED
  BY <1>2, <1>3

\* A step of a turn that goes on, told by what it does to the session's file and
\* to the context of the turn.
LEMMA LiveStepKept ==
  ASSUME KeptInv, Inv', NEW t \in Turns, Live(t), turns' \in [Turns -> TurnType],
         \A u \in Turns : u # t => SameTurn({}, turns[u], turns'[u]),
         turns'[t].phase # "unasked", turns'[t].session = turns[t].session,
         turns'[t].phase \in {"running", "saving"} => turns'[t].chat = turns[t].chat,
         SameSessions(chats, chats'), UNCHANGED <<current, resumes, forked>>,
         \A c \in DOMAIN chats : c # turns[t].chat =>
           chats'[c].entries = chats[c].entries /\ chats'[c].messages = chats[c].messages,
         CopyOf(chats'[turns[t].chat]),
         RecordOf(t, turns'[t], chats'[turns[t].chat].entries),
         \A s \in Sessions : s # turns[t].session => store'[s] = store[s],
         turns[t].session \notin forked =>
           /\ store'[turns[t].session].state = "whole" =>
                Covers(store'[turns[t].session].history, AnswersOf(turns', turns[t].session))
           /\ store'[turns[t].session].state = "missing" => AnswersOf(turns', turns[t].session) = {}
           /\ Covers(chats'[turns[t].chat].entries, AnswersOf(turns', turns[t].session))
  PROVE  KeptInv'
<1> DEFINE z == turns[t].session
           b == turns[t].chat
<1>1. /\ b \in DOMAIN chats /\ chats[b].session = z /\ chats[b].busy = t
      /\ DOMAIN chats' = DOMAIN chats /\ Len(chats') = Len(chats)
      /\ \A c \in DOMAIN chats : chats'[c].session = chats[c].session
  BY DEF KeptInv, Inv, Owned, SameSessions
<1>4. \A u \in Turns : Live(u)' => Live(u) /\ turns'[u].chat = turns[u].chat /\ turns'[u].session = turns[u].session
  BY DEF Live, SameTurn
<1>2. Copied' /\ LastShown' /\ ReadsWhole' /\ AskedInOrder'
  <2>1. Copied'
    BY <1>1 DEF KeptInv, Copied, CopyOf
  <2>2. LastShown'
    BY <1>1 DEF KeptInv, LastShown
  <2>3. \A u \in Turns : turns'[u].phase # "unasked" <=> turns[u].phase # "unasked"
    BY DEF Live, SameTurn
  <2>4. AskedInOrder'
    BY <2>3 DEF KeptInv, AskedInOrder
  <2>5. ReadsWhole'
    BY <1>1 DEF KeptInv, ReadsWhole
  <2>6. QED
    BY <2>1, <2>2, <2>4, <2>5
<1>3. Recorded'
  <2> SUFFICES ASSUME NEW u \in Turns
               PROVE  RecordOf(u, turns'[u], chats'[turns'[u].chat].entries)
    BY DEF Recorded
  <2>1. CASE u = t /\ turns'[t].phase \in {"running", "saving"}
    BY <2>1
  <2>2. CASE u = t /\ turns'[t].phase \notin {"running", "saving"}
    BY <2>2 DEF RecordOf
  <2>3. RecordOf(u, turns[u], chats[turns[u].chat].entries)
    BY DEF KeptInv, Recorded
  <2>4. CASE u # t /\ Live(u)
    <3>1. turns[u].chat \in DOMAIN chats /\ turns[u].chat # b
      BY <1>1, <2>4 DEF KeptInv, Inv, Owned
    <3>2. chats'[turns'[u].chat].entries = chats[turns[u].chat].entries
      BY <2>4, <3>1 DEF SameTurn
    <3>3. SameEntries(chats[turns[u].chat].entries, chats'[turns'[u].chat].entries)
      BY <3>2 DEF SameEntries
    <3>4. QED
      BY <2>3, <2>4, <3>3, SameRecord
  <2>5. CASE u # t /\ ~Live(u)
    BY <2>3, <2>5, RestingRecord DEF Live
  <2>6. QED
    BY <2>1, <2>2, <2>4, <2>5
<1>5. \A c \in DOMAIN chats : Writable(c)' => Writable(c)
  BY <1>4 DEF Writable
<1>6. ASSUME NEW s \in Sessions \ forked, s # z
      PROVE  FileKept(s)' /\ ContextsKept(s)' /\ NewestKept(s)'
  <2>1. FileKept(s) /\ ContextsKept(s) /\ NewestKept(s)
    BY DEF KeptInv, Kept
  <2>2. AnswersOf(turns', s) = AnswersOf(turns, s)
    BY <1>6 DEF AnswersOf, SameTurn
  <2>3. store'[s] = store[s]
    BY <1>6
  <2>4. \A c \in DOMAIN chats : chats[c].session = s => chats'[c].entries = chats[c].entries
    BY <1>1, <1>6
  <2>5. QED
    BY <1>1, <1>4, <1>5, <2>1, <2>2, <2>3, <2>4 DEF FileKept, ContextsKept, NewestKept
<1>7. ASSUME z \in Sessions \ forked
      PROVE  FileKept(z)' /\ ContextsKept(z)' /\ NewestKept(z)'
  <2>1. NewestKept(z) /\ LastShown /\ Inv
    BY <1>7 DEF KeptInv, Kept
  <2>2. \A c \in DOMAIN chats : chats[c].session = z /\ Writable(c) => c = b
    BY <2>1, OneWriter
  <2>3. \A u \in Turns : Live(u) /\ turns[u].session = z => u = t
    <3>1. Writable(b)
      BY DEF Writable
    <3>2. QED
      BY <1>1, <2>1, <3>1, OneWriter
  <2>4. FileKept(z)'
    BY <1>7 DEF FileKept
  <2>5. ContextsKept(z)'
    BY <1>1, <1>5, <1>7, <2>2 DEF ContextsKept
  <2>6. NewestKept(z)'
    <3>1. AnswersOf(turns', z) \subseteq AnswersOf(turns, z) \cup {t}
      BY DEF AnswersOf, SameTurn
    <3>2. Live(t)' => t \notin AnswersOf(turns', z)
      BY DEF Live, AnswersOf
    <3>3. QED
      BY <1>1, <1>4, <2>1, <2>3, <3>1, <3>2 DEF NewestKept
  <2>7. QED
    BY <2>4, <2>5, <2>6
<1>8. Kept'
  BY <1>6, <1>7 DEF KeptInv, Kept
<1>9. QED
  BY <1>2, <1>3, <1>8 DEF KeptInv

\* What is known of a turn that goes on.
LEMMA LiveKept ==
  ASSUME KeptInv, NEW t \in Turns, Live(t)
  PROVE  /\ chats[turns[t].chat] \in ContextType /\ CopyOf(chats[turns[t].chat])
         /\ RecordOf(t, turns[t], chats[turns[t].chat].entries)
         /\ Holding(t, chats[turns[t].chat].entries)
         /\ turns[t].session \in Sessions /\ chats[turns[t].chat].session = turns[t].session
         /\ turns[t].session \notin forked =>
              /\ FileKept(turns[t].session)
              /\ Covers(chats[turns[t].chat].entries, AnswersOf(turns, turns[t].session))
              /\ \A u \in AnswersOf(turns, turns[t].session) : u < t
<1>1. /\ turns[t].chat \in DOMAIN chats /\ chats[turns[t].chat] \in ContextType
      /\ chats[turns[t].chat].session = turns[t].session
  BY LiveHasContext DEF KeptInv, Inv, Owned
<1>2. CopyOf(chats[turns[t].chat]) /\ RecordOf(t, turns[t], chats[turns[t].chat].entries)
  BY <1>1 DEF KeptInv, Copied, Recorded
<1>3. turns[t].session \in Sessions
  BY <1>1 DEF ContextType
<1>4. Writable(turns[t].chat)
  BY DEF Writable
<1>5. Holding(t, chats[turns[t].chat].entries)
  BY <1>2 DEF RecordOf, Holding, Live
<1>6. QED
  BY <1>1, <1>2, <1>3, <1>4, <1>5 DEF KeptInv, Kept, ContextsKept, NewestKept

\* A turn whose answer is not reported done adds none to its session.
LEMMA NoAnswerAdded ==
  ASSUME NEW t \in Turns, turns[t].phase # "over",
         \A u \in Turns : u # t => SameTurn({}, turns[u], turns'[u]),
         ~(turns'[t].phase = "over" /\ turns'[t].answered), NEW s
  PROVE  AnswersOf(turns', s) = AnswersOf(turns, s)
BY DEF AnswersOf, SameTurn

\* A step of a turn that is heard of while its caller waits, and adds no answer.
LEMMA QuietStepKept ==
  ASSUME KeptInv, Inv', NEW t \in Turns, Live(t), Reported(t, chats, chats'),
         NEW a \in TurnType, turns' = [turns EXCEPT ![t] = a],
         a.phase \in {"over", "late"}, a.session = turns[t].session, ~a.answered,
         UNCHANGED <<current, resumes, forked>>,
         \A s \in Sessions : store'[s] = store[s] \/ (s = turns[t].session /\ store'[s] = Torn)
  PROVE  KeptInv'
<1>1. /\ turns' \in [Turns -> TurnType] /\ turns'[t] = a
      /\ \A u \in Turns : u # t => SameTurn({}, turns[u], turns'[u])
  BY SameItself DEF KeptInv, Inv, Typed
<1> DEFINE z == turns[t].session
           b == turns[t].chat
<1>2. /\ CopyOf(chats[b]) /\ z \in Sessions /\ b \in DOMAIN chats
      /\ z \notin forked => FileKept(z) /\ Covers(chats[b].entries, AnswersOf(turns, z))
  BY LiveKept, LiveHasContext DEF KeptInv
<1>3. AnswersOf(turns', z) = AnswersOf(turns, z)
  BY <1>1, NoAnswerAdded DEF Live
<1>4. RecordOf(t, turns'[t], chats'[b].entries)
  BY <1>1 DEF RecordOf
<1>5. \A c \in DOMAIN chats :
        /\ SameEntries(chats[c].entries, chats'[c].entries)
        /\ c # b => chats'[c].entries.late = chats[c].entries.late
        /\ chats'[c].messages = chats[c].messages
  BY DEF Reported, SameEntries
<1>6. CopyOf(chats'[b]) /\ \A answers : Covers(chats[b].entries, answers) => Covers(chats'[b].entries, answers)
  BY <1>2, <1>5, SameEntriesFacts DEF CopyOf
<1>7. z \notin forked =>
        /\ store'[z].state = "whole" => Covers(store'[z].history, AnswersOf(turns', z))
        /\ store'[z].state = "missing" => AnswersOf(turns', z) = {}
        /\ Covers(chats'[b].entries, AnswersOf(turns', z))
  <2>1. CASE store'[z] = store[z]
    BY <1>2, <1>3, <1>6, <2>1 DEF FileKept
  <2>2. CASE store'[z] = Torn
    <3>1. store'[z].state = "torn"
      BY <2>2 DEF Torn
    <3>2. QED
      BY <1>2, <1>3, <1>6, <3>1
  <2>3. QED
    BY <1>2, <2>1, <2>2
<1>8. \A c \in DOMAIN chats : c # b => chats'[c].entries = chats[c].entries
  <2> SUFFICES ASSUME NEW c \in DOMAIN chats, c # b PROVE chats'[c].entries = chats[c].entries
    OBVIOUS
  <2>1. chats[c] \in ContextType /\ chats'[c] \in ContextType
    BY DEF KeptInv, Inv, Typed, Reported, SameSessions
  <2>2. chats[c].entries \in Histories /\ chats'[c].entries \in Histories
    BY <2>1 DEF ContextType
  <2>3. QED
    BY <1>5, <2>2 DEF Histories, SameEntries
<1>9. SameSessions(chats, chats')
  BY DEF Reported
<1>10. QED
  BY <1>1, <1>2, <1>4, <1>5, <1>6, <1>7, <1>8, <1>9, LiveStepKept

\* A step that changes neither the session nor the answer of a turn, and no more of
\* the entries than late results.
LEMMA AsideKept ==
  ASSUME KeptInv, Inv', NEW t \in Turns, turns' \in [Turns -> TurnType],
         \A u \in Turns :
           \/ SameTurn({t}, turns[u], turns'[u])
           \/ /\ Late(u) /\ turns'[u].phase = "over" /\ ~turns'[u].answered
              /\ turns'[u].session = turns[u].session,
         SameSessions(chats, chats'),
         \A c \in DOMAIN chats :
           SameEntries(chats[c].entries, chats'[c].entries) /\ chats'[c].messages = chats[c].messages,
         UNCHANGED <<store, current, resumes, forked>>
  PROVE  KeptInv'
<1>1. /\ DOMAIN chats' = DOMAIN chats /\ Len(chats') = Len(chats)
      /\ \A c \in DOMAIN chats :
           /\ chats'[c].session = chats[c].session
           /\ MessageCount(chats'[c].entries) = MessageCount(chats[c].entries)
           /\ \A answers : Covers(chats[c].entries, answers) => Covers(chats'[c].entries, answers)
  BY SameEntriesFacts DEF SameSessions
<1>2. \A u \in Turns :
        /\ Live(u)' => Live(u) /\ turns'[u].chat = turns[u].chat /\ turns'[u].session = turns[u].session
        /\ turns'[u].phase # "unasked" <=> turns[u].phase # "unasked"
  BY DEF Live, Late, SameTurn
<1>3. \A u \in Turns : Late(u) => ~turns[u].answered
  BY DEF KeptInv, Recorded, RecordOf, Late
<1>4. \A s : AnswersOf(turns', s) = AnswersOf(turns, s)
  BY <1>3 DEF AnswersOf, SameTurn, Late
<1>5. Copied' /\ LastShown' /\ ReadsWhole' /\ AskedInOrder'
  BY <1>1, <1>2 DEF KeptInv, Copied, CopyOf, LastShown, ReadsWhole, AskedInOrder
<1>6. Recorded'
  <2> SUFFICES ASSUME NEW u \in Turns
               PROVE  RecordOf(u, turns'[u], chats'[turns'[u].chat].entries)
    BY DEF Recorded
  <2>1. RecordOf(u, turns[u], chats[turns[u].chat].entries)
    BY DEF KeptInv, Recorded
  <2>2. CASE ~SameTurn({t}, turns[u], turns'[u])
    BY <2>2 DEF RecordOf
  <2>3. CASE SameTurn({t}, turns[u], turns'[u]) /\ Live(u)
    <3>1. turns[u].chat \in DOMAIN chats /\ turns'[u].chat = turns[u].chat
      BY <2>3 DEF KeptInv, Inv, Owned, SameTurn
    <3>2. SameEntries(chats[turns[u].chat].entries, chats'[turns'[u].chat].entries)
      BY <3>1
    <3>3. QED
      BY <2>1, <2>3, <3>2, SameRecord
  <2>4. CASE SameTurn({t}, turns[u], turns'[u]) /\ ~Live(u)
    BY <2>1, <2>4, RestingRecord DEF Live
  <2>5. QED
    BY <2>2, <2>3, <2>4
<1>7. \A c \in DOMAIN chats : Writable(c)' => Writable(c)
  BY <1>2 DEF Writable
<1>8. ASSUME NEW s \in Sessions \ forked
      PROVE  FileKept(s)' /\ ContextsKept(s)' /\ NewestKept(s)'
  <2>1. FileKept(s) /\ ContextsKept(s) /\ NewestKept(s)
    BY DEF KeptInv, Kept
  <2>2. FileKept(s)'
    BY <1>4, <2>1 DEF FileKept
  <2>3. ContextsKept(s)' /\ NewestKept(s)'
    BY <1>1, <1>2, <1>4, <1>7, <2>1 DEF ContextsKept, NewestKept
  <2>4. QED
    BY <2>2, <2>3
<1>9. Kept'
  BY <1>8 DEF KeptInv, Kept
<1>10. QED
  BY <1>5, <1>6, <1>9 DEF KeptInv

LEMMA ReportedEntries ==
  ASSUME NEW t \in Turns, Reported(t, chats, chats')
  PROVE  /\ SameSessions(chats, chats')
         /\ \A c \in DOMAIN chats :
              SameEntries(chats[c].entries, chats'[c].entries) /\ chats'[c].messages = chats[c].messages
BY DEF Reported, SameEntries

LEMMA InterruptKept ==
  ASSUME KeptInv, Inv', NEW t \in Turns, Interrupt(t)
  PROVE  KeptInv'
<1> DEFINE a == [turns[t] EXCEPT !.aborted = TRUE]
<1>1. Live(t) /\ Inv
  BY DEF Interrupt, KeptInv
<1>2. turns[t] \in TurnType
  BY <1>1, LiveHasContext
<1>3. a \in TurnType /\ SameTurn({t}, turns[t], a)
  BY <1>2 DEF TurnType, SameTurn
<1>4. /\ chats' = Synced(chats) /\ turns' = [turns EXCEPT ![t] = a]
      /\ UNCHANGED <<store, current, resumes, forked>>
  BY DEF Interrupt
<1> HIDE DEF a
<1>5. turns' \in [Turns -> TurnType] /\ \A u \in Turns : SameTurn({t}, turns[u], turns'[u])
  BY <1>1, <1>3, <1>4, SameItself DEF Inv, Typed
<1>6. /\ SameSessions(chats, chats')
      /\ \A c \in DOMAIN chats :
           SameEntries(chats[c].entries, chats'[c].entries) /\ chats'[c].messages = chats[c].messages
  BY <1>1, <1>4, SyncedReports, ReportedEntries
<1>7. QED
  BY <1>4, <1>5, <1>6, AsideKept

LEMMA LateEventKept ==
  ASSUME KeptInv, Inv', NEW t \in Turns, LateEvent(t)
  PROVE  KeptInv'
<1>1. /\ Late(t) /\ Inv /\ chats' = Counted(t, chats)
      /\ UNCHANGED <<store, current, turns, resumes, forked>>
  BY DEF LateEvent, KeptInv
<1>2. /\ SameSessions(chats, chats')
      /\ \A c \in DOMAIN chats :
           SameEntries(chats[c].entries, chats'[c].entries) /\ chats'[c].messages = chats[c].messages
  BY <1>1, CountedReports, ReportedEntries
<1>3. turns' \in [Turns -> TurnType] /\ \A u \in Turns : SameTurn({t}, turns[u], turns'[u])
  BY <1>1, SameItself DEF Inv, Typed
<1>4. QED
  BY <1>1, <1>2, <1>3, AsideKept

LEMMA LateResultKept ==
  ASSUME KeptInv, Inv', NEW t \in Turns, LateResult(t)
  PROVE  KeptInv'
<1>1. turns[t].phase = "late" /\ Inv /\ UNCHANGED <<store, current, resumes, forked>>
  BY DEF LateResult, KeptInv
<1>2. /\ SameSessions(chats, chats')
      /\ \A c \in DOMAIN chats :
           SameEntries(chats[c].entries, chats'[c].entries) /\ chats'[c].messages = chats[c].messages
  BY <1>1, LateResultReports, ReportedEntries DEF LateResult
<1>3. turns' = turns \/ turns' = WithLate(t)
  BY DEF LateResult
<1>4. turns' \in [Turns -> TurnType] /\ \A u \in Turns : SameTurn({t}, turns[u], turns'[u])
  BY <1>1, <1>3, SameItself, WithLateFacts DEF Inv, Typed
<1>5. QED
  BY <1>1, <1>2, <1>4, AsideKept

LEMMA LateEndKept ==
  ASSUME KeptInv, Inv', NEW t \in Turns, LateEnd(t)
  PROVE  KeptInv'
<1> DEFINE a == Closed(turns[t], "over")
<1>1. Late(t) /\ Inv
  BY DEF LateEnd, KeptInv
<1>2. turns[t] \in TurnType /\ ~turns[t].answered
  BY <1>1, HasContext DEF KeptInv, Recorded, RecordOf, Late
<1>3. a \in TurnType /\ a.phase = "over" /\ a.session = turns[t].session /\ ~a.answered
  BY <1>2, ClosedTyped
<1>4. turns' = [turns EXCEPT ![t] = a] /\ UNCHANGED <<store, chats, current, resumes, forked>>
  BY DEF LateEnd
<1> HIDE DEF a
<1>5. /\ turns' \in [Turns -> TurnType] /\ turns'[t] = a
      /\ \A u \in Turns : u # t => SameTurn({t}, turns[u], turns'[u])
  BY <1>1, <1>3, <1>4, SameItself DEF Inv, Typed
<1>6. SameSessions(chats, chats') /\ \A c \in DOMAIN chats : SameEntries(chats[c].entries, chats'[c].entries)
  BY <1>1, <1>4 DEF Inv, Typed, SameSessions, SameEntries
<1>7. QED
  BY <1>1, <1>3, <1>4, <1>5, <1>6, AsideKept

LEMMA RunErrorsKept ==
  ASSUME KeptInv, Inv', NEW t \in Turns, RunErrors(t)
  PROVE  KeptInv'
<1> DEFINE a == Closed(turns[t], "over")
<1>1. Live(t) /\ turns[t].phase = "running" /\ Inv
  BY DEF RunErrors, Live, KeptInv
<1>2. turns[t] \in TurnType /\ ~turns[t].answered
  BY <1>1, LiveHasContext, LiveKept DEF RecordOf
<1>3. a \in TurnType /\ a.phase = "over" /\ a.session = turns[t].session /\ ~a.answered
  BY <1>2, ClosedTyped
<1>4. /\ chats' = Idle(t, Counted(t, chats)) /\ turns' = [turns EXCEPT ![t] = a]
      /\ UNCHANGED <<store, current, resumes, forked>>
  BY DEF RunErrors
<1> HIDE DEF a
<1>5. Reported(t, chats, chats')
  BY <1>1, <1>4, CountedReports, IdleReports
<1>6. QED
  BY <1>1, <1>3, <1>4, <1>5, QuietStepKept

LEMMA RunTimesOutKept ==
  ASSUME KeptInv, Inv', NEW t \in Turns, RunTimesOut(t)
  PROVE  KeptInv'
<1> DEFINE a == GoingOn(turns[t])
<1>1. Live(t) /\ Inv
  BY DEF RunTimesOut, Live, KeptInv
<1>2. a \in TurnType /\ a.phase = "late" /\ a.session = turns[t].session /\ ~a.answered
  BY <1>1, LiveHasContext, GoingOnTyped
<1>3. /\ chats' = Idle(t, Counted(t, chats)) /\ turns' = [turns EXCEPT ![t] = a]
      /\ UNCHANGED <<store, current, resumes, forked>>
  BY DEF RunTimesOut
<1> HIDE DEF a
<1>4. Reported(t, chats, chats')
  BY <1>1, <1>3, CountedReports, IdleReports
<1>5. QED
  BY <1>1, <1>2, <1>3, <1>4, QuietStepKept

\* A finalized turn, whatever a failed save of it has left in the file.
LEMMA FinalizeKept ==
  ASSUME KeptInv, Inv', NEW t \in Turns, Live(t),
         NEW h \in Histories, Holding(t, h), NEW b \in BOOLEAN,
         NEW given \in [Turns -> TurnType], given[t] = turns[t],
         \A u \in Turns : SameTurn({}, turns[u], given[u]),
         Finalize(t, h, b, given),
         turns[t].session \notin forked => Covers(h, AnswersOf(turns, turns[t].session)),
         UNCHANGED <<current, resumes, forked>>,
         \A s \in Sessions : store'[s] = store[s] \/ (s = turns[t].session /\ store'[s] = Torn)
  PROVE  KeptInv'
<1> DEFINE z == turns[t].session
           e == turns[t].chat
<1>1. Inv
  BY DEF KeptInv
<1>2. /\ turns' \in [Turns -> TurnType] /\ \A u \in Turns : u # t => turns'[u] = given[u]
      /\ turns'[t].phase = "saving" /\ turns'[t].chat = e /\ turns'[t].answered = b
      /\ turns'[t].session = z /\ turns'[t].savedAs = z
      /\ turns'[t].overran = turns[t].overran
      /\ turns'[t].file.state = "whole" /\ turns'[t].file.history = h
      /\ turns'[t].file.stats = chats'[e].statsData
      /\ SameSessions(chats, chats')
      /\ \A c \in DOMAIN chats :
           /\ chats'[c].busy = chats[c].busy
           /\ chats'[c].entries = IF c = e THEN h ELSE chats[c].entries
           /\ chats'[c].messages = IF c = e THEN MessageCount(h) ELSE chats[c].messages
           /\ chats'[c].stats = IF c = e THEN chats[c].stats \cup {t} ELSE chats[c].stats
           /\ chats'[c].statsData = IF c = current THEN chats'[c].stats ELSE chats[c].statsData
  BY <1>1, Finalized, Zenon
<1>3. \A u \in Turns : u # t => SameTurn({}, turns[u], turns'[u])
  BY <1>2
<1>4. AnswersOf(turns', z) = AnswersOf(turns, z)
  BY <1>2, <1>3, NoAnswerAdded DEF Live
<1>5. e \in DOMAIN chats /\ z \in Sessions
  BY <1>1, LiveHasContext, LiveKept
<1>6. chats'[e].entries = h /\ chats'[e].messages = MessageCount(h) /\ MessageCount(h) \in Nat
  BY <1>2, <1>5, CountTyped
<1>7. CopyOf(chats'[e]) /\ RecordOf(t, turns'[t], chats'[e].entries)
  BY <1>2, <1>6 DEF CopyOf, RecordOf
<1>8. z \notin forked => FileKept(z)
  BY LiveKept
<1>9. z \notin forked =>
        /\ store'[z].state = "whole" => Covers(store'[z].history, AnswersOf(turns', z))
        /\ store'[z].state = "missing" => AnswersOf(turns', z) = {}
        /\ Covers(chats'[e].entries, AnswersOf(turns', z))
  <2>1. CASE store'[z] = store[z]
    BY <1>4, <1>6, <1>8, <2>1 DEF FileKept
  <2>2. CASE store'[z] = Torn
    <3>1. store'[z].state = "torn"
      BY <2>2 DEF Torn
    <3>2. QED
      BY <1>4, <1>6, <3>1
  <2>3. QED
    BY <1>5, <2>1, <2>2
<1>10. \A c \in DOMAIN chats : c # e =>
         chats'[c].entries = chats[c].entries /\ chats'[c].messages = chats[c].messages
  BY <1>2
<1>11. QED
  BY <1>2, <1>3, <1>7, <1>9, <1>10, LiveStepKept

LEMMA RunAnswersKept ==
  ASSUME KeptInv, Inv', NEW t \in Turns, RunAnswers(t)
  PROVE  KeptInv'
<1> DEFINE k == chats[turns[t].chat].entries
           h == Summarised(t, k)
           d == Detached(turns[t].chat, turns)
           z == turns[t].session
<1>1. /\ Live(t) /\ Inv /\ turns[t].phase = "running" /\ UNCHANGED <<store, current, resumes, forked>>
      /\ Finalize(t, h, TRUE, d) \/ Finalize(t, k, TRUE, turns)
  BY DEF RunAnswers, Live, KeptInv
<1>2. /\ turns \in [Turns -> TurnType] /\ k \in Histories /\ Holding(t, k)
      /\ z \notin forked => Covers(k, AnswersOf(turns, z)) /\ \A u \in AnswersOf(turns, z) : u < t
  BY <1>1, LiveKept DEF Inv, Typed, ContextType
<1>3. h \in Histories /\ h.summary = t
  BY WebChatAssumption DEF Summarised, Histories, Turns
<1>4. d \in [Turns -> TurnType] /\ d[t] = turns[t] /\ \A u \in Turns : SameTurn({}, turns[u], d[u])
  BY <1>1, <1>2, DetachedFacts
<1> HIDE DEF h, d
<1>5. CASE Finalize(t, h, TRUE, d)
  <2>1. Holding(t, h) /\ (z \notin forked => Covers(h, AnswersOf(turns, z)))
    BY <1>2, <1>3 DEF Holding, Covers, AnswersOf, Turns
  <2>2. QED
    BY <1>1, <1>3, <1>4, <1>5, <2>1, FinalizeKept
<1>6. CASE Finalize(t, k, TRUE, turns)
  BY <1>1, <1>2, <1>6, SameItself, FinalizeKept
<1>7. QED
  BY <1>1, <1>5, <1>6

LEMMA RunInterruptedKept ==
  ASSUME KeptInv, Inv', NEW t \in Turns, RunInterrupted(t)
  PROVE  KeptInv'
<1> DEFINE k == chats[turns[t].chat].entries
           z == turns[t].session
<1>1. Live(t) /\ Inv /\ Finalize(t, k, FALSE, turns) /\ UNCHANGED <<store, current, resumes, forked>>
  BY DEF RunInterrupted, Live, KeptInv
<1>2. /\ turns \in [Turns -> TurnType] /\ k \in Histories /\ Holding(t, k)
      /\ z \notin forked => Covers(k, AnswersOf(turns, z))
  BY <1>1, LiveKept DEF Inv, Typed, ContextType
<1>3. QED
  BY <1>1, <1>2, SameItself, FinalizeKept

LEMMA SaveFailsKept ==
  ASSUME KeptInv, Inv', NEW t \in Turns, SaveFails(t)
  PROVE  KeptInv'
<1> DEFINE o == Closed(turns[t], "over")
           a == [o EXCEPT !.answered = FALSE]
           k == chats[turns[t].chat].entries
           z == turns[t].session
<1>1. Live(t) /\ turns[t].phase = "saving" /\ Inv /\ UNCHANGED <<current, resumes, forked>>
  BY DEF SaveFails, Live, KeptInv
<1>2. /\ turns[t] \in TurnType /\ turns[t].savedAs = z /\ z \in Sessions
      /\ turns \in [Turns -> TurnType] /\ k \in Histories /\ Holding(t, k)
      /\ z \notin forked => Covers(k, AnswersOf(turns, z))
  BY <1>1, LiveHasContext, LiveKept DEF RecordOf, Inv, Typed, ContextType
<1>3. \A s \in Sessions : store'[s] = store[s] \/ (s = z /\ store'[s] = Torn)
  <2>1. PICK file \in {store[z], Torn} : store' = [store EXCEPT ![z] = file]
    BY <1>2 DEF SaveFails
  <2>2. store \in [Sessions -> Files]
    BY <1>1 DEF Inv, Typed
  <2>3. QED
    BY <1>2, <2>1, <2>2
<1>4. CASE Finalize(t, k, FALSE, turns)
  BY <1>1, <1>2, <1>3, <1>4, SameItself, FinalizeKept
<1>5. CASE /\ turns' = [turns EXCEPT ![t] = a]
           /\ chats' = Idle(t, IF turns[t].answered THEN Counted(t, chats) ELSE Synced(chats))
  <2>1. a \in TurnType /\ a.phase = "over" /\ a.session = z /\ ~a.answered
    <3>1. o \in TurnType /\ o.phase = "over" /\ o.session = z
      BY <1>2, ClosedTyped
    <3> HIDE DEF o
    <3>2. QED
      BY <3>1 DEF TurnType
  <2> HIDE DEF a
  <2>2. Reported(t, chats, chats')
    <3>1. CASE turns[t].answered
      BY <1>1, <1>5, <3>1, CountedReports, IdleReports
    <3>2. CASE ~turns[t].answered
      BY <1>1, <1>5, <3>2, SyncedReports, IdleReports
    <3>3. QED
      BY <3>1, <3>2
  <2>3. QED
    BY <1>1, <1>3, <1>5, <2>1, <2>2, QuietStepKept
<1>6. QED
  BY <1>4, <1>5 DEF SaveFails

LEMMA SaveDoneKept ==
  ASSUME KeptInv, Inv', NEW t \in Turns, SaveDone(t)
  PROVE  KeptInv'
<1> DEFINE a == Closed(turns[t], "over")
           z == turns[t].session
           b == turns[t].chat
<1>1. Live(t) /\ turns[t].phase = "saving" /\ Inv
  BY DEF SaveDone, Live, KeptInv
<1>2. /\ turns[t] \in TurnType /\ turns[t].savedAs = z /\ z \in Sessions
      /\ b \in DOMAIN chats /\ chats \in Seq(ContextType)
      /\ turns[t].file.state = "whole"
      /\ turns[t].file.history.summary = chats[b].entries.summary
      /\ turns[t].file.history.asked = chats[b].entries.asked
      /\ Holding(t, chats[b].entries)
      /\ CopyOf(chats[b]) /\ chats[b] \in ContextType
      /\ z \notin forked => Covers(chats[b].entries, AnswersOf(turns, z))
  BY <1>1, LiveHasContext, LiveKept DEF RecordOf, Inv, Typed
<1>3. a \in TurnType /\ a.phase = "over" /\ a.session = z /\ a.answered = turns[t].answered /\ a.savedAs = z
  BY <1>2, ClosedTyped
<1>4. /\ chats' = Idle(t, Synced(chats)) /\ turns' = [turns EXCEPT ![t] = a]
      /\ UNCHANGED <<current, resumes, forked>>
  BY DEF SaveDone
<1> HIDE DEF a
<1>5. Reported(t, chats, chats')
  BY <1>1, <1>4, SyncedReports, IdleReports
<1>6. /\ SameSessions(chats, chats')
      /\ \A c \in DOMAIN chats :
           chats'[c].entries = chats[c].entries /\ chats'[c].messages = chats[c].messages
  <2> SUFFICES ASSUME NEW c \in DOMAIN chats
               PROVE  chats'[c].entries = chats[c].entries /\ chats'[c].messages = chats[c].messages
    BY <1>5 DEF Reported
  <2>1. chats[c] \in ContextType /\ chats'[c] \in ContextType
    BY <1>2, <1>5 DEF Reported, SameSessions
  <2>2. chats[c].entries \in Histories /\ chats'[c].entries \in Histories
    BY <2>1 DEF ContextType
  <2>3. QED
    BY <1>1, <1>5, <2>2 DEF Reported, Histories
<1>7. PICK file \in {turns[t].file, Torn} : store' = [store EXCEPT ![z] = file]
  BY <1>2 DEF SaveDone
<1>8. store'[z] = file /\ \A s \in Sessions : s # z => store'[s] = store[s]
  BY <1>1, <1>2, <1>7 DEF Inv, Typed
<1>9. /\ turns' \in [Turns -> TurnType] /\ turns'[t] = a
      /\ \A u \in Turns : u # t => turns'[u] = turns[u]
      /\ \A u \in Turns : u # t => SameTurn({}, turns[u], turns'[u])
  BY <1>1, <1>3, <1>4, SameItself DEF Inv, Typed
<1>10. z \notin forked => Covers(chats[b].entries, AnswersOf(turns', z))
  <2>1. ASSUME z \notin forked, NEW u \in AnswersOf(turns', z)
        PROVE  u <= chats[b].entries.summary \/ u \in chats[b].entries.asked
    <3>1. CASE u = t
      BY <1>2, <2>1, <3>1, WebChatAssumption DEF Holding, Turns
    <3>2. CASE u # t
      BY <1>2, <1>9, <2>1, <3>2 DEF AnswersOf, Covers
    <3>3. QED
      BY <3>1, <3>2
  <2>2. QED
    BY <2>1 DEF Covers
<1>11. /\ file.state = "whole" =>
            file.history.summary = chats[b].entries.summary /\ file.history.asked = chats[b].entries.asked
       /\ file.state # "missing"
  BY <1>2 DEF Torn
<1>12. RecordOf(t, turns'[t], chats'[b].entries)
  BY <1>2, <1>3, <1>9 DEF RecordOf
<1>13. CopyOf(chats'[b]) /\ chats'[b].entries = chats[b].entries
  BY <1>2, <1>6 DEF CopyOf
<1>14. z \notin forked =>
         /\ store'[z].state = "whole" => Covers(store'[z].history, AnswersOf(turns', z))
         /\ store'[z].state = "missing" => AnswersOf(turns', z) = {}
         /\ Covers(chats'[b].entries, AnswersOf(turns', z))
  BY <1>8, <1>10, <1>11, <1>13 DEF Covers
<1>15. turns'[t].phase = "over" /\ turns'[t].session = z
  BY <1>3, <1>9
<1>16. QED
  BY <1>1, <1>4, <1>6, <1>8, <1>9, <1>12, <1>13, <1>14, <1>15, LiveStepKept

\* A question more makes the entries no shorter.
LEMMA AskedCounts ==
  ASSUME NEW old \in Histories, NEW new \in Histories, NEW t \in Turns,
         new.summary = old.summary, new.asked = old.asked \cup {t}
  PROVE  MessageCount(old) <= MessageCount(new)
<1>1. IsFiniteSet(new.asked) /\ old.asked \subseteq new.asked
  BY TurnsFinite, FS_Subset DEF Histories
<1>2. Cardinality(old.asked) <= Cardinality(new.asked) /\ IsFiniteSet(old.asked)
  BY <1>1, FS_Subset
<1>3. Cardinality(old.asked) \in Nat /\ Cardinality(new.asked) \in Nat
  BY <1>1, <1>2, FS_CardinalityType
<1>4. QED
  BY <1>2, <1>3 DEF MessageCount

LEMMA SubmitKept ==
  ASSUME KeptInv, Inv', NEW t \in Turns, Submit(t)
  PROVE  KeptInv'
<1>1. /\ current \in DOMAIN chats /\ chats \in Seq(ContextType)
      /\ current = Len(chats) /\ DOMAIN chats = 1 .. Len(chats) /\ Inv
  BY DEF KeptInv, Inv, Typed, Submit, LastShown
<1>2. /\ turns[t].phase = "unasked" /\ chats[current].busy = 0
      /\ turns' \in [Turns -> TurnType] /\ \A u \in Turns : u # t => turns'[u] = turns[u]
      /\ turns'[t].phase = "running" /\ turns'[t].chat = current /\ ~turns'[t].answered
      /\ turns'[t].session = chats[current].session
      /\ UNCHANGED <<store, current, resumes, forked>>
      /\ SameSessions(chats, chats')
      /\ \A c \in DOMAIN chats :
           /\ chats'[c].messages = chats[c].messages
           /\ c # current => chats'[c].entries = chats[c].entries
      /\ chats'[current].entries.summary = chats[current].entries.summary
      /\ chats'[current].entries.asked = chats[current].entries.asked \cup {t}
  BY <1>1, Submitted
<1>3. \A u \in Turns : u # t => SameTurn({}, turns[u], turns'[u])
  BY <1>2, SameItself
<1>4. ~Live(t) /\ \A u \in Turns : Live(u)' <=> u = t \/ Live(u)
  BY <1>2 DEF Live
<1>5. \A s : AnswersOf(turns', s) = AnswersOf(turns, s)
  BY <1>2, <1>3, NoAnswerAdded
<1>6. \A c \in DOMAIN chats :
        /\ chats'[c].entries.summary = chats[c].entries.summary
        /\ chats[c].entries.asked \subseteq chats'[c].entries.asked
  BY <1>2
<1>7. Copied'
  <2> SUFFICES ASSUME NEW c \in DOMAIN chats
               PROVE  chats[c].messages <= MessageCount(chats'[c].entries)
    BY <1>2 DEF Copied, CopyOf, SameSessions
  <2>1. /\ chats[c] \in ContextType /\ chats'[c] \in ContextType
        /\ chats[c].messages <= MessageCount(chats[c].entries)
    BY <1>2 DEF KeptInv, Inv, Typed, Copied, CopyOf, SameSessions
  <2>2. /\ chats[c].entries \in Histories /\ chats'[c].entries \in Histories /\ chats[c].messages \in Nat
        /\ MessageCount(chats[c].entries) \in Nat /\ MessageCount(chats'[c].entries) \in Nat
    BY <2>1, CountTyped DEF ContextType
  <2>3. CASE c = current
    <3>1. MessageCount(chats[c].entries) <= MessageCount(chats'[c].entries)
      BY <1>2, <2>2, <2>3, AskedCounts
    <3>2. QED
      BY <2>1, <2>2, <3>1
  <2>4. CASE c # current
    BY <1>2, <2>1, <2>4
  <2>5. QED
    BY <2>3, <2>4
<1>8. LastShown' /\ ReadsWhole'
  BY <1>2 DEF KeptInv, LastShown, ReadsWhole, SameSessions
<1>9. AskedInOrder'
  <2> SUFFICES ASSUME NEW v \in Turns, NEW u \in Turns, u < v, turns'[v].phase # "unasked"
               PROVE  turns'[u].phase # "unasked"
    BY DEF AskedInOrder
  <2>1. CASE u = t
    BY <1>2, <2>1
  <2>2. CASE v = t /\ u # t
    BY <1>2, <2>2 DEF Submit
  <2>3. CASE v # t /\ u # t
    BY <1>2, <2>3 DEF KeptInv, AskedInOrder
  <2>4. QED
    BY <2>1, <2>2, <2>3
<1>10. Recorded'
  <2> SUFFICES ASSUME NEW u \in Turns
               PROVE  RecordOf(u, turns'[u], chats'[turns'[u].chat].entries)
    BY DEF Recorded
  <2>1. CASE u = t
    BY <1>2, <2>1 DEF RecordOf
  <2>2. RecordOf(u, turns[u], chats[turns[u].chat].entries)
    BY DEF KeptInv, Recorded
  <2>3. CASE u # t /\ ~Live(u)
    BY <1>3, <2>2, <2>3, RestingRecord DEF Live
  <2>4. CASE u # t /\ Live(u)
    <3>1. turns[u].chat \in DOMAIN chats /\ chats[turns[u].chat].busy = u
      BY <2>4 DEF KeptInv, Inv, Owned
    <3>2. turns[u].chat # current
      BY <1>2, <3>1 DEF Turns
    <3>3. QED
      BY <1>2, <2>2, <2>4, <3>1, <3>2
  <2>5. QED
    BY <2>1, <2>3, <2>4
<1>11. ASSUME NEW s \in Sessions \ forked
       PROVE  FileKept(s)' /\ ContextsKept(s)' /\ NewestKept(s)'
  <2>1. FileKept(s) /\ ContextsKept(s) /\ NewestKept(s)
    BY DEF KeptInv, Kept
  <2>2. DOMAIN chats' = DOMAIN chats /\ \A c \in DOMAIN chats : chats'[c].session = chats[c].session
    BY <1>2 DEF SameSessions
  <2>3. \A c \in DOMAIN chats : Writable(c)' => Writable(c)
    BY <1>2, <1>4 DEF Writable
  <2>4. FileKept(s)'
    BY <1>2, <1>5, <2>1 DEF FileKept
  <2>5. ContextsKept(s)'
    <3>1. \A answers : \A c \in DOMAIN chats : Covers(chats[c].entries, answers) => Covers(chats'[c].entries, answers)
      BY <1>6 DEF Covers
    <3>2. QED
      BY <1>5, <2>1, <2>2, <2>3, <3>1 DEF ContextsKept
  <2>6. NewestKept(s)'
    <3> SUFFICES ASSUME NEW u \in Turns, Live(u)', turns'[u].session = s
                 PROVE  /\ \A c \in DOMAIN chats : chats[c].session = s => c <= turns'[u].chat
                        /\ \A v \in AnswersOf(turns, s) : v < u
      BY <1>5, <2>2 DEF NewestKept
    <3>1. CASE u # t
      BY <1>2, <1>4, <2>1, <3>1 DEF NewestKept
    <3>2. CASE u = t
      <4>1. \A c \in DOMAIN chats : c <= turns'[u].chat
        BY <1>1, <1>2, <3>2
      <4>2. ASSUME NEW v \in AnswersOf(turns, s)
            PROVE  v < t
        <5>1. v \in Turns /\ turns[v].phase # "unasked" /\ v # t
          BY <1>2 DEF AnswersOf
        <5>2. ~(t < v)
          BY <1>2, <5>1 DEF KeptInv, AskedInOrder
        <5>3. QED
          BY <5>1, <5>2 DEF Turns
      <4>3. QED
        BY <3>2, <4>1, <4>2
    <3>3. QED
      BY <3>1, <3>2
  <2>7. QED
    BY <2>4, <2>5, <2>6
<1>12. Kept'
  BY <1>2, <1>11 DEF KeptInv, Kept
<1>13. QED
  BY <1>7, <1>8, <1>9, <1>10, <1>12 DEF KeptInv

LEMMA StartKept ==
  ASSUME KeptInv, Inv', NEW s \in Sessions, Start(s)
  PROVE  KeptInv'
<1> DEFINE n == Context(s, store[s])
<1>1. /\ n.session = s /\ n.entries = store[s].history /\ n.messages = MessageCount(n.entries)
      /\ MessageCount(n.entries) \in Nat
  BY ContextTyped, CountTyped DEF KeptInv, Inv, Typed, Files
<1>2. chats' = <<n>> /\ current' = 1 /\ UNCHANGED <<store, turns, resumes, forked>> /\ store[s].state # "torn"
  BY DEF Start
<1> HIDE DEF n
<1>3. \A t \in Turns : ~Live(t)
  BY DEF Start, KeptInv, Inv, Typed, Owned
<1>4. Len(chats') = 1 /\ DOMAIN chats' = {1} /\ chats'[1] = n
  BY <1>2
<1>5. Copied' /\ LastShown' /\ ReadsWhole' /\ AskedInOrder'
  BY <1>1, <1>2, <1>4 DEF KeptInv, Copied, CopyOf, LastShown, ReadsWhole, AskedInOrder
<1>6. Recorded'
  BY <1>2, <1>3 DEF KeptInv, Recorded, RecordOf, Live
<1>7. ASSUME NEW z \in Sessions \ forked
      PROVE  FileKept(z)' /\ ContextsKept(z)' /\ NewestKept(z)'
  <2>1. FileKept(z)
    BY DEF KeptInv, Kept
  <2>2. store[z].state \in {"missing", "torn", "whole"}
    BY DEF KeptInv, Inv, Typed, Files
  <2>3. ContextsKept(z)'
    <3>1. z = s => Covers(store[s].history, AnswersOf(turns, s))
      BY <1>2, <2>1, <2>2 DEF FileKept, Covers
    <3>2. QED
      BY <1>1, <1>2, <1>4, <3>1 DEF ContextsKept
  <2>4. FileKept(z)' /\ NewestKept(z)'
    BY <1>2, <1>3, <2>1 DEF FileKept, NewestKept, Live
  <2>5. QED
    BY <2>3, <2>4
<1>8. Kept'
  BY <1>2, <1>7 DEF KeptInv, Kept
<1>9. QED
  BY <1>5, <1>6, <1>8 DEF KeptInv

\* What a reader, or a crash, finds in a file holds what was reported done.
LEMMA OutcomesKept ==
  ASSUME KeptInv, NEW s \in Sessions \ forked, NEW file \in Outcomes(s)
  PROVE  /\ file.state = "whole" => Covers(file.history, AnswersOf(turns, s))
         /\ file.state = "missing" => AnswersOf(turns, s) = {}
<1>1. FileKept(s)
  BY DEF KeptInv, Kept
<1>2. CASE file = store[s]
  BY <1>1, <1>2 DEF FileKept
<1>3. CASE file = Torn
  BY <1>3 DEF Torn
<1>4. ASSUME NEW t \in Writes(s), file = turns[t].file
      PROVE  /\ file.state = "whole" => Covers(file.history, AnswersOf(turns, s))
             /\ file.state = "missing" => AnswersOf(turns, s) = {}
  <2> DEFINE k == chats[turns[t].chat].entries
  <2>1. t \in Turns /\ Live(t) /\ turns[t].phase = "saving" /\ turns[t].savedAs = s
    BY DEF Writes, Live
  <2>2. /\ turns[t].session = s /\ file.state = "whole"
        /\ file.history.summary = k.summary /\ file.history.asked = k.asked
        /\ Covers(k, AnswersOf(turns, s))
    BY <1>4, <2>1, LiveKept DEF RecordOf
  <2>3. Covers(file.history, AnswersOf(turns, s))
    BY <2>2 DEF Covers
  <2>4. QED
    BY <2>2, <2>3
<1>5. QED
  BY <1>2, <1>3, <1>4 DEF Outcomes

LEMMA CrashKept ==
  ASSUME KeptInv, Inv', Crash
  PROVE  KeptInv'
<1>1. /\ turns' = [t \in Turns |-> IF Live(t) \/ Late(t) THEN Closed(turns[t], "lost") ELSE turns[t]]
      /\ resumes' = [r \in Resumes |->
                       IF resumes[r].phase \in {"asked", "read"} THEN GoneResume ELSE resumes[r]]
      /\ chats' = <<>> /\ current' = 0 /\ forked' = forked
  BY DEF Crash
<1>2. \A t \in Turns : IF Live(t) \/ Late(t) THEN turns'[t].phase = "lost" ELSE turns'[t] = turns[t]
  BY <1>1, ClosedTyped DEF KeptInv, Inv, Typed
<1>3. \A s : AnswersOf(turns', s) = AnswersOf(turns, s)
  BY <1>2 DEF AnswersOf, Live, Late
<1>4. \A t \in Turns : ~Live(t)' /\ ~Late(t)'
  BY <1>2 DEF Live, Late
<1>5. Copied' /\ LastShown' /\ AskedInOrder'
  BY <1>1, <1>2 DEF KeptInv, Copied, LastShown, AskedInOrder, Live, Late
<1>6. ReadsWhole'
  BY <1>1, GoneTyped DEF ReadsWhole
<1>7. Recorded'
  BY <1>2, <1>4 DEF KeptInv, Recorded, RecordOf, Live, Late
<1>8. ASSUME NEW s \in Sessions \ forked
      PROVE  FileKept(s)' /\ ContextsKept(s)' /\ NewestKept(s)'
  <2>1. store'[s] \in Outcomes(s)
    BY DEF Crash
  <2>2. FileKept(s)'
    BY <1>3, <2>1, OutcomesKept DEF FileKept
  <2>3. ContextsKept(s)' /\ NewestKept(s)'
    BY <1>1, <1>4 DEF ContextsKept, NewestKept
  <2>4. QED
    BY <2>2, <2>3
<1>9. Kept'
  BY <1>1, <1>8 DEF KeptInv, Kept
<1>10. QED
  BY <1>5, <1>6, <1>7, <1>9 DEF KeptInv

LEMMA NewSessionKept ==
  ASSUME KeptInv, Inv', NEW s \in Sessions, NewSession(s)
  PROVE  KeptInv'
<1>1. /\ current \in DOMAIN chats
      /\ DOMAIN chats' = DOMAIN chats /\ Len(chats') = Len(chats)
      /\ chats'[current].session = s /\ chats'[current].entries = Fresh
      /\ chats'[current].messages = MessageCount(Fresh)
      /\ \A c \in DOMAIN chats : c # current => chats'[c] = chats[c]
      /\ \A t \in Turns :
           /\ SameTurn({}, turns[t], turns'[t])
           /\ turns[t].phase # "late" => turns'[t] = turns[t]
           /\ Live(t) => turns[t].chat \in DOMAIN chats /\ turns[t].chat # current
      /\ UNCHANGED <<store, current, resumes, forked>>
  BY SessionStarted DEF KeptInv
<1>2. \A t \in Turns : turns[t].phase # "unasked" => turns[t].session # s
  BY DEF NewSession, Unused
<1>3. /\ \A t \in Turns : (Live(t)' <=> Live(t)) /\ (Live(t) => turns'[t] = turns[t])
      /\ \A z : AnswersOf(turns', z) = AnswersOf(turns, z)
  BY <1>1 DEF Live, SameTurn, AnswersOf
<1>4. Copied'
  <2>1. MessageCount(Fresh) \in Nat
    BY FreshTyped, CountTyped
  <2>2. QED
    BY <1>1, <2>1 DEF KeptInv, Copied, CopyOf
<1>5. LastShown' /\ ReadsWhole' /\ AskedInOrder'
  BY <1>1 DEF KeptInv, LastShown, ReadsWhole, AskedInOrder, SameTurn
<1>6. Recorded'
  <2> SUFFICES ASSUME NEW t \in Turns
               PROVE  RecordOf(t, turns'[t], chats'[turns'[t].chat].entries)
    BY DEF Recorded
  <2>1. RecordOf(t, turns[t], chats[turns[t].chat].entries)
    BY DEF KeptInv, Recorded
  <2>2. CASE Live(t)
    BY <1>1, <1>3, <2>1, <2>2
  <2>3. CASE ~Live(t)
    BY <1>1, <2>1, <2>3, RestingRecord DEF Live
  <2>4. QED
    BY <2>2, <2>3
<1>7. ASSUME NEW z \in Sessions \ forked
      PROVE  FileKept(z)' /\ ContextsKept(z)' /\ NewestKept(z)'
  <2>1. FileKept(z) /\ ContextsKept(z) /\ NewestKept(z)
    BY DEF KeptInv, Kept
  <2>2. FileKept(z)'
    BY <1>1, <1>3, <2>1 DEF FileKept
  <2>3. CASE z = s
    <3>1. AnswersOf(turns, z) = {} /\ \A t \in Turns : Live(t) => turns[t].session # z
      BY <1>2, <2>3 DEF AnswersOf, Live
    <3>2. QED
      BY <1>3, <2>2, <3>1 DEF ContextsKept, NewestKept, Covers
  <2>4. CASE z # s
    <3>1. \A c \in DOMAIN chats : chats'[c].session = z => chats'[c] = chats[c]
      BY <1>1, <2>4
    <3>2. \A c \in DOMAIN chats : Writable(c)' => Writable(c)
      BY <1>1, <1>3 DEF Writable
    <3>3. QED
      BY <1>1, <1>3, <2>1, <2>2, <3>1, <3>2 DEF ContextsKept, NewestKept
  <2>5. QED
    BY <2>3, <2>4
<1>8. Kept'
  BY <1>1, <1>7 DEF KeptInv, Kept
<1>9. QED
  BY <1>4, <1>5, <1>6, <1>8 DEF KeptInv

\* A step of a resume that changes nothing else.
LEMMA ResumeStepKept ==
  ASSUME KeptInv, Inv', UNCHANGED <<store, chats, current, turns, forked>>, ReadsWhole'
  PROVE  KeptInv'
<1>1. Copied' /\ LastShown' /\ AskedInOrder' /\ Recorded'
  BY DEF KeptInv, Copied, LastShown, AskedInOrder, Recorded
<1>2. Kept'
  BY DEF KeptInv, Kept, FileKept, ContextsKept, NewestKept, Writable, Live
<1>3. QED
  BY <1>1, <1>2 DEF KeptInv

LEMMA ResumeKept ==
  ASSUME KeptInv, Inv', NEW r \in Resumes, ReadStored(r) \/ ResumeFails(r) \/ \E s \in Sessions : RequestResume(r, s)
  PROVE  KeptInv'
<1>1. /\ UNCHANGED <<store, chats, current, turns, forked>>
      /\ \E a : resumes' = [resumes EXCEPT ![r] = a] /\ (a.phase = "read" => a.file.state = "whole")
  <2>1. CASE ResumeFails(r)
    BY <2>1, GoneTyped DEF ResumeFails
  <2>2. CASE \E s \in Sessions : RequestResume(r, s)
    <3>1. PICK s \in Sessions : RequestResume(r, s)
      BY <2>2
    <3> DEFINE a == [NoResume EXCEPT !.phase = "asked", !.session = s]
    <3>2. resumes' = [resumes EXCEPT ![r] = a] /\ UNCHANGED <<store, chats, current, turns, forked>>
      BY <3>1 DEF RequestResume
    <3>3. a.phase = "asked"
      BY DEF NoResume
    <3> HIDE DEF a
    <3>4. QED
      BY <3>2, <3>3
  <2>3. CASE ReadStored(r)
    <3>1. PICK file \in Outcomes(resumes[r].session) :
            resumes' = [resumes EXCEPT ![r] =
                          IF file.state = "whole" THEN [resumes[r] EXCEPT !.phase = "read", !.file = file]
                          ELSE GoneResume]
      BY <2>3 DEF ReadStored
    <3> DEFINE b == [resumes[r] EXCEPT !.phase = "read", !.file = file]
               a == IF file.state = "whole" THEN b ELSE GoneResume
    <3>2. b.file = file
      BY DEF KeptInv, Inv, Typed, ResumeType
    <3>3. resumes' = [resumes EXCEPT ![r] = a] /\ UNCHANGED <<store, chats, current, turns, forked>>
      BY <2>3, <3>1 DEF ReadStored
    <3> HIDE DEF b
    <3>4. a.phase = "read" => a.file.state = "whole"
      BY <3>2, GoneTyped
    <3> HIDE DEF a
    <3>5. QED
      BY <3>3, <3>4
  <2>4. QED
    BY <2>1, <2>2, <2>3
<1>2. ReadsWhole'
  BY <1>1 DEF KeptInv, Inv, Typed, ReadsWhole
<1>3. QED
  BY <1>1, <1>2, ResumeStepKept

LEMMA FinishResumeKept ==
  ASSUME KeptInv, Inv', NEW r \in Resumes, FinishResume(r)
  PROVE  KeptInv'
<1> DEFINE z == resumes[r].session
           f == resumes[r].file
           n == Context(z, f)
           l == Len(chats) + 1
<1>1. /\ n.session = z /\ n.entries = f.history /\ n.messages = MessageCount(f.history)
      /\ MessageCount(f.history) \in Nat
  <2>1. z \in Sessions /\ f \in Files
    BY DEF FinishResume, KeptInv, Inv, Typed, Apart, ResumesApart, ResumeType
  <2>2. QED
    BY <2>1, ContextTyped, CountTyped DEF Files
<1>2. /\ chats \in Seq(ContextType) /\ resumes[r].phase = "read" /\ z \in Sessions /\ f.state = "whole"
      /\ resumes \in [Resumes -> ResumeType]
  BY DEF FinishResume, KeptInv, Inv, Typed, Apart, ResumesApart, ReadsWhole
<1>3. /\ chats' = Append(chats, n) /\ current' = l /\ resumes' = [resumes EXCEPT ![r] = GoneResume]
      /\ UNCHANGED <<store, turns>>
  BY DEF FinishResume
<1>4. /\ forked \subseteq forked'
      /\ z \notin forked' => store[z] = f /\ \A t \in Turns : Live(t) => turns[t].session # z
  BY DEF FinishResume
<1> HIDE DEF n
<1>5. /\ Len(chats') = l /\ DOMAIN chats' = DOMAIN chats \cup {l} /\ l \notin DOMAIN chats
      /\ chats'[l] = n /\ \A c \in DOMAIN chats : chats'[c] = chats[c]
  BY <1>2, <1>3
<1>6. \A t \in Turns : Live(t) => turns[t].chat \in DOMAIN chats /\ chats[turns[t].chat].session = turns[t].session
  BY DEF KeptInv, Inv, Owned
<1> HIDE DEF l
<1>7. Copied'
  BY <1>1, <1>5 DEF KeptInv, Copied, CopyOf
<1>8. LastShown' /\ AskedInOrder'
  BY <1>3, <1>5 DEF KeptInv, LastShown, AskedInOrder
<1>9. ReadsWhole'
  BY <1>2, <1>3, GoneTyped DEF KeptInv, ReadsWhole
<1>10. Recorded'
  <2> SUFFICES ASSUME NEW t \in Turns
               PROVE  RecordOf(t, turns[t], chats'[turns[t].chat].entries)
    BY <1>3 DEF Recorded
  <2>1. RecordOf(t, turns[t], chats[turns[t].chat].entries)
    BY DEF KeptInv, Recorded
  <2>2. CASE Live(t)
    BY <1>5, <1>6, <2>1, <2>2
  <2>3. CASE ~Live(t)
    BY <2>1, <2>3, RestingRecord, SameItself DEF Live
  <2>4. QED
    BY <2>2, <2>3
<1>11. ASSUME NEW s \in Sessions \ forked'
       PROVE  FileKept(s)' /\ ContextsKept(s)' /\ NewestKept(s)'
  <2>1. FileKept(s) /\ ContextsKept(s) /\ NewestKept(s)
    BY <1>4 DEF KeptInv, Kept
  <2>2. FileKept(s)'
    BY <1>3, <2>1 DEF FileKept
  <2>3. \A c \in DOMAIN chats : Writable(c)' => Writable(c)
    BY <1>3, <1>5 DEF Writable, Live
  <2>4. CASE s # z
    BY <1>1, <1>3, <1>5, <2>1, <2>2, <2>3, <2>4 DEF ContextsKept, NewestKept, Live
  <2>5. CASE s = z
    <3>1. store[z] = f /\ \A t \in Turns : Live(t) => turns[t].session # z
      BY <1>4, <2>5
    <3>2. NewestKept(s)'
      BY <1>3, <2>5, <3>1 DEF NewestKept, Live
    <3>3. Covers(n.entries, AnswersOf(turns, z))
      BY <1>1, <1>2, <2>1, <2>5, <3>1 DEF FileKept
    <3>4. \A c \in DOMAIN chats : chats[c].session = z => ~Writable(c)'
      BY <1>3, <1>5, <1>6, <3>1 DEF Writable, Live
    <3>5. ContextsKept(s)'
      BY <1>3, <1>5, <2>5, <3>3, <3>4 DEF ContextsKept
    <3>6. QED
      BY <2>2, <3>2, <3>5
  <2>6. QED
    BY <2>4, <2>5
<1>12. Kept'
  <2>1. forked' \subseteq Sessions
    BY <1>2 DEF FinishResume, KeptInv, Kept
  <2>2. QED
    BY <1>11, <2>1 DEF Kept
<1>13. QED
  BY <1>7, <1>8, <1>9, <1>10, <1>12 DEF KeptInv

LEMMA KeptInit == WebChatInit => KeptInv
<1> SUFFICES ASSUME WebChatInit PROVE KeptInv
  OBVIOUS
<1> USE DEF WebChatInit
<1>1. /\ \A t \in Turns : turns[t].phase = "unasked"
      /\ \A r \in Resumes : resumes[r].phase = "unasked"
      /\ \A s \in Sessions : store[s].state = "missing"
  BY GoneTyped DEF NoTurn, Missing
<1>2. Copied /\ LastShown /\ ReadsWhole /\ AskedInOrder
  BY <1>1 DEF Copied, LastShown, ReadsWhole, AskedInOrder
<1>3. Recorded
  BY <1>1 DEF Recorded, RecordOf
<1>4. Kept
  BY <1>1 DEF Kept, FileKept, ContextsKept, NewestKept, AnswersOf, Covers, Live
<1>5. QED
  BY <1>2, <1>3, <1>4, InvInit DEF KeptInv

LEMMA KeptNext ==
  ASSUME KeptInv, [WebChatNext]_vars
  PROVE  KeptInv'
<1>1. Inv'
  BY InvNext DEF KeptInv
<1>2. CASE UNCHANGED vars
  <2>1. Copied' /\ LastShown' /\ ReadsWhole' /\ AskedInOrder' /\ Recorded'
    BY <1>2 DEF vars, KeptInv, Copied, LastShown, ReadsWhole, AskedInOrder, Recorded
  <2>2. Kept'
    BY <1>2 DEF vars, KeptInv, Kept, FileKept, ContextsKept, NewestKept, Writable, Live
  <2>3. QED
    BY <1>1, <2>1, <2>2 DEF KeptInv
<1>3. ASSUME NEW s \in Sessions, Start(s) \/ NewSession(s)
      PROVE  KeptInv'
  BY <1>1, <1>3, StartKept, NewSessionKept
<1>4. ASSUME NEW t \in Turns, TurnStep(t)
      PROVE  KeptInv'
  BY <1>1, <1>4, SubmitKept, InterruptKept, RunAnswersKept, RunInterruptedKept, RunErrorsKept,
     RunTimesOutKept, LateEventKept, LateResultKept, LateEndKept, SaveDoneKept, SaveFailsKept DEF TurnStep
<1>5. ASSUME NEW r \in Resumes,
             ReadStored(r) \/ FinishResume(r) \/ ResumeFails(r) \/ \E s \in Sessions : RequestResume(r, s)
      PROVE  KeptInv'
  BY <1>1, <1>5, ResumeKept, FinishResumeKept
<1>6. CASE Crash
  BY <1>1, <1>6, CrashKept
<1>7. QED
  BY <1>2, <1>3, <1>4, <1>5, <1>6 DEF WebChatNext

\* An answer whose save was reported done is in its session's file, in its entries
\* or in the summary made of them or of later ones, whatever turns, interrupts,
\* timeouts, resumes and crashes follow, unless the session was put on show from an
\* outdated read (finalizeChatTurn, createChatServiceContext).
THEOREM AnswersAreKept == WebChatSpec => []AnswersKept
<1>1. KeptInv /\ [WebChatNext]_vars => KeptInv'
  BY KeptNext
<1>2. KeptInv => AnswersKept
  <2> SUFFICES ASSUME KeptInv PROVE AnswersKept
    OBVIOUS
  <2>1. WebChatTypeOK
    <3>1. store \in [Sessions -> Files] /\ current \in 0 .. Len(chats)
      BY DEF KeptInv, Inv, Typed
    <3>2. forked \subseteq Sessions
      BY DEF KeptInv, Kept
    <3>3. ASSUME NEW c \in DOMAIN chats
          PROVE  /\ chats[c].session \in Sessions
                 /\ chats[c].entries \in Histories /\ chats[c].messages \in Nat
                 /\ chats[c].stats \subseteq Turns /\ chats[c].statsData \subseteq Turns
                 /\ chats[c].messages <= MessageCount(chats[c].entries)
      <4>1. chats[c] \in ContextType /\ CopyOf(chats[c])
        BY DEF KeptInv, Inv, Typed, Copied
      <4>2. QED
        BY <4>1 DEF ContextType, CopyOf
    <3>4. ASSUME NEW t \in Turns
          PROVE  /\ turns[t].phase \in {"unasked", "running", "saving", "late", "adrift", "over", "lost"}
                 /\ turns[t].file \in Files
                 /\ Live(t) \/ Late(t) => turns[t].chat \in DOMAIN chats
      <4>1. turns[t] \in TurnType
        BY DEF KeptInv, Inv, Typed
      <4>2. QED
        BY <4>1 DEF KeptInv, Inv, Owned, TurnType
    <3>5. ASSUME NEW r \in Resumes
          PROVE  resumes[r].phase \in {"unasked", "asked", "read", "over"} /\ resumes[r].file \in Files
      <4>1. resumes[r] \in ResumeType
        BY DEF KeptInv, Inv, Typed
      <4>2. QED
        BY <4>1 DEF ResumeType
    <3>6. QED
      BY <3>1, <3>2, <3>3, <3>4, <3>5 DEF WebChatTypeOK
  <2>2. AnswersSurvive
    <3> SUFFICES ASSUME NEW t \in Turns, turns[t].phase = "over", turns[t].answered,
                        turns[t].savedAs \notin forked, store[turns[t].savedAs].state = "whole"
                 PROVE  \/ store[turns[t].savedAs].history.summary >= t
                        \/ t \in store[turns[t].savedAs].history.asked
      BY DEF AnswersSurvive
    <3> DEFINE s == turns[t].session
    <3>1. turns[t].savedAs = s /\ s \in Sessions
      BY DEF KeptInv, Recorded, RecordOf
    <3>2. t \in AnswersOf(turns, s)
      BY DEF AnswersOf
    <3>3. Covers(store[s].history, AnswersOf(turns, s)) /\ store[s] \in Files
      BY <3>1 DEF KeptInv, Kept, FileKept, Inv, Typed
    <3>4. t <= store[s].history.summary \/ t \in store[s].history.asked
      BY <3>2, <3>3 DEF Covers
    <3>5. store[s].history.summary \in Nat
      BY <3>3, WebChatAssumption DEF Files, Histories
    <3>6. QED
      BY <3>1, <3>4, <3>5 DEF Turns
  <2>3. QED
    BY <2>1, <2>2 DEF AnswersKept
<1>3. QED
  BY KeptInit, <1>1, <1>2, PTL DEF WebChatSpec

-------------------------------------------------------------------------------
(* The log of a view, and what was said in it.                               *)

Entry == [id : Nat, kind : Kinds, whole : Nat]
Fields == {"log", "running", "status", "failed", "answering", "reasoning", "noticed", "created"}

\* Of a view that is open.
Going == Statuses \ {"blank"}

IsView(v) ==
  /\ DOMAIN v = Fields
  /\ v.log \in Seq(Entry) /\ v.status \in Going /\ v.running \subseteq RunIds \X {1, 2}
  /\ v.created \in Nat /\ v.answering \in 0 .. v.created /\ v.reasoning \in 0 .. v.created

\* Ids grow along the log.
Ordered(v) ==
  /\ \A n \in 1 .. Len(v.log) : v.log[n].id \in 1 .. v.created
  /\ \A m, n \in 1 .. Len(v.log) : m < n => v.log[m].id < v.log[n].id

\* What is streamed to is an entry of its kind.
Streamed(v) ==
  \A n \in 1 .. Len(v.log) :
    /\ v.log[n].id = v.answering => v.log[n].kind = "assistant"
    /\ v.log[n].id = v.reasoning => v.log[n].kind = "reasoning"

\* Every answer has an entry of its own, which is not streamed to any more.
Told(v, s) ==
  /\ s \in Seq(Nat)
  /\ \A k \in 1 .. Len(s) : s[k] <= v.created /\ (s[k] # 0 => s[k] \notin {v.answering, v.reasoning})
  /\ \A k \in 1 .. Len(s) : \A j \in 1 .. k - 1 : s[k] = 0 \/ s[j] # s[k]

\* It is there, and whole, unless it was trimmed.
Held(v, s) ==
  /\ \A n \in 1 .. Len(v.log) : v.log[n].whole \in 0 .. Len(s)
  /\ \A k \in 1 .. Len(s) : s[k] # 0 /\ Len(v.log) > 0 /\ v.log[1].id <= s[k] =>
       \E n \in 1 .. Len(v.log) : v.log[n].id = s[k] /\ v.log[n].whole = k

Sound(v, s) == IsView(v) /\ Ordered(v) /\ Streamed(v) /\ Told(v, s) /\ Held(v, s)

\* w is v with n entries more in its log.
Longer(v, w, s, n) ==
  Sound(w, s) /\ w.created = v.created + n

Trimmed(v) == Len(v.log) <= MaxShown

\* A view with the same log is as sound.
LEMMA SameLogSound ==
  ASSUME NEW v, NEW s, Sound(v, s), NEW w, DOMAIN w = Fields,
         w.log = v.log, w.created = v.created, w.answering \in {0, v.answering}, w.reasoning \in {0, v.reasoning},
         w.status \in Going, w.running \subseteq RunIds \X {1, 2}
  PROVE  Sound(w, s)
<1>1. IsView(w)
  BY DEF Sound, IsView
<1>2. Ordered(w)
  BY DEF Sound, Ordered
<1>3. Streamed(w)
  BY DEF Sound, Streamed, Ordered, IsView
<1>4. Told(w, s)
  BY DEF Sound, Told
<1>5. Held(w, s)
  BY DEF Sound, Held
<1>6. QED
  BY <1>1, <1>2, <1>3, <1>4, <1>5 DEF Sound

\* A new entry is behind all others.
LEMMA PushSound ==
  ASSUME NEW v, NEW s, Sound(v, s), NEW kind \in Kinds, NEW whole \in 0 .. Len(s)
  PROVE  /\ Longer(v, Push(v, kind, whole), s, 1)
         /\ Push(v, kind, whole).answering = v.answering /\ Push(v, kind, whole).reasoning = v.reasoning
         /\ Push(v, kind, whole).log = Append(v.log, [id |-> v.created + 1, kind |-> kind, whole |-> whole])
<1> DEFINE w == Push(v, kind, whole)
           n == Len(v.log)
           e == [id |-> v.created + 1, kind |-> kind, whole |-> whole]
<1>1. /\ IsView(v) /\ Ordered(v) /\ Streamed(v) /\ Told(v, s) /\ Held(v, s)
      /\ n \in Nat /\ v.created \in Nat /\ v.log \in Seq(Entry) /\ DOMAIN v = Fields /\ Len(s) \in Nat
  <2>1. IsView(v) /\ Ordered(v) /\ Streamed(v) /\ Told(v, s) /\ Held(v, s)
    BY Zenon DEF Sound
  <2>2. v.created \in Nat /\ v.log \in Seq(Entry) /\ DOMAIN v = Fields /\ s \in Seq(Nat)
    BY <2>1, Zenon DEF IsView, Told
  <2> HIDE DEF w, e
  <2>3. QED
    BY <2>1, <2>2
<1>2. /\ DOMAIN w = Fields /\ w.created = v.created + 1 /\ w.log = Append(v.log, e)
      /\ w.status = v.status /\ w.running = v.running
      /\ w.answering = v.answering /\ w.reasoning = v.reasoning
  BY <1>1 DEF Push, Fields
<1>3. e \in Entry
  BY <1>1 DEF Entry
<1>4. /\ w.log \in Seq(Entry) /\ Len(w.log) = n + 1 /\ w.log[n + 1] = e
      /\ \A i \in 1 .. n : w.log[i] = v.log[i]
  BY <1>1, <1>2, <1>3
<1>41. w.log[n + 1].id = v.created + 1 /\ w.log[n + 1].whole = whole
  <2>1. e.id = v.created + 1 /\ e.whole = whole
    OBVIOUS
  <2> HIDE DEF e, w
  <2>2. QED
    BY <1>4, <2>1
<1>5. \A i \in 1 .. n + 1 : i = n + 1 \/ i \in 1 .. n
  BY <1>1
<1> HIDE DEF w
<1>6. IsView(w)
  <2>1. /\ v.status \in Going /\ v.running \subseteq RunIds \X {1, 2} /\ v.created \in Nat
        /\ v.answering \in 0 .. v.created /\ v.reasoning \in 0 .. v.created
    BY <1>1, Zenon DEF IsView
  <2>2. w.created \in Nat /\ w.answering \in 0 .. w.created /\ w.reasoning \in 0 .. w.created
    BY <1>2, <2>1
  <2>3. QED
    BY <1>2, <1>4, <2>1, <2>2, Zenon DEF IsView
<1>7. Ordered(w)
  <2>1. \A i \in 1 .. n + 1 : w.log[i].id \in 1 .. w.created
    BY <1>1, <1>2, <1>4, <1>5 DEF Ordered
  <2>2. ASSUME NEW i \in 1 .. n + 1, NEW j \in 1 .. n + 1, i < j
        PROVE  w.log[i].id < w.log[j].id
    <3>1. i \in 1 .. n
      BY <1>1, <2>2
    <3>2. w.log[i].id \in 1 .. v.created
      BY <1>1, <1>4, <3>1 DEF Ordered
    <3>3. CASE j = n + 1
      BY <1>1, <1>41, <3>2, <3>3
    <3>4. CASE j \in 1 .. n
      BY <1>1, <1>4, <2>2, <3>1, <3>4 DEF Ordered
    <3>5. QED
      BY <1>5, <3>3, <3>4
  <2>3. QED
    BY <1>4, <2>1, <2>2 DEF Ordered
<1>8. Streamed(w)
  BY <1>1, <1>2, <1>4, <1>5 DEF Streamed, IsView
<1>9. Told(w, s)
  BY <1>1, <1>2 DEF Told
<1>10. Held(w, s)
  <2>1. \A i \in 1 .. n + 1 : w.log[i].whole \in 0 .. Len(s)
    <3>1. \A i \in 1 .. n : w.log[i].whole \in 0 .. Len(s)
      BY <1>1, <1>4 DEF Held
    <3>2. QED
      BY <1>41, <1>5, <3>1
  <2>2. ASSUME NEW k \in 1 .. Len(s), s[k] # 0, w.log[1].id <= s[k]
        PROVE  \E i \in 1 .. n + 1 : w.log[i].id = s[k] /\ w.log[i].whole = k
    <3>1. s[k] <= v.created /\ s[k] \in Nat
      BY <1>1 DEF Told
    <3>2. n > 0 /\ w.log[1] = v.log[1]
      <4>1. CASE n = 0
        <5>1. w.log[1].id = v.created + 1
          BY <1>41, <4>1
        <5>2. QED
          BY <1>1, <2>2, <3>1, <5>1
      <4>2. CASE n # 0
        <5>1. n > 0 /\ 1 \in 1 .. n
          BY <1>1, <4>2
        <5>2. QED
          BY <1>4, <5>1
      <4>3. QED
        BY <4>1, <4>2
    <3>3. PICK i \in 1 .. n : v.log[i].id = s[k] /\ v.log[i].whole = k
      BY <1>1, <2>2, <3>2 DEF Held
    <3>4. i \in 1 .. n + 1 /\ w.log[i] = v.log[i]
      BY <1>1, <1>4
    <3>5. QED
      BY <3>3, <3>4
  <2>3. QED
    BY <1>4, <2>1, <2>2 DEF Held
<1>11. QED
  BY <1>2, <1>6, <1>7, <1>8, <1>9, <1>10 DEF Sound, Longer, w

\* A trimmed log is what is left of it at its end.
LEMMA TrimSound ==
  ASSUME NEW v, NEW s, Sound(v, s)
  PROVE  Longer(v, Trim(v), s, 0) /\ Trimmed(Trim(v))
<1> DEFINE w == Trim(v)
           n == Len(v.log)
           d == n - MaxShown
           kept == SubSeq(v.log, n - MaxShown + 1, n)
<1>1. /\ IsView(v) /\ Ordered(v) /\ Streamed(v) /\ Told(v, s) /\ Held(v, s)
      /\ n \in Nat /\ v.created \in Nat /\ v.log \in Seq(Entry) /\ DOMAIN v = Fields /\ MaxShown \in Nat
  BY ViewAssumption DEF Sound, IsView
<1>2. CASE n <= MaxShown
  BY <1>1, <1>2 DEF Trim, Trimmed, Longer
<1>3. CASE ~(n <= MaxShown)
  <2>1. d \in 1 .. n
    BY <1>1, <1>3
  <2>2. /\ DOMAIN w = Fields /\ w.log = kept /\ w.created = v.created
        /\ w.status = v.status /\ w.running = v.running
        /\ w.answering \in {0, v.answering} /\ w.reasoning \in {0, v.reasoning}
    BY <1>1, <1>3 DEF Trim, Fields
  <2>3. /\ kept \in Seq(Entry) /\ Len(kept) = MaxShown
        /\ \A i \in 1 .. MaxShown : kept[i] = v.log[d + i]
    <3>1. SubSeq(v.log, d + 1, n) \in Seq(Entry)
      BY <1>1, <2>1, SubSeqProperties
    <3>2. Len(SubSeq(v.log, d + 1, n)) = MaxShown
      BY <1>1, <2>1, SubSeqProperties
    <3>3. ASSUME NEW i \in 1 .. MaxShown
          PROVE  SubSeq(v.log, d + 1, n)[i] = v.log[d + i]
      BY <1>1, <2>1, SubSeqProperties
    <3>4. QED
      BY <3>1, <3>2, <3>3
  <2>4. \A i \in 1 .. MaxShown : d + i \in 1 .. n
    BY <1>1, <2>1
  <2> HIDE DEF w, kept, d
  <2>5. IsView(w)
    BY <1>1, <2>2, <2>3 DEF IsView
  <2>6. Ordered(w)
    <3>1. \A i \in 1 .. MaxShown : w.log[i].id \in 1 .. w.created
      BY <1>1, <2>2, <2>3, <2>4 DEF Ordered
    <3>2. ASSUME NEW i \in 1 .. MaxShown, NEW j \in 1 .. MaxShown, i < j
          PROVE  w.log[i].id < w.log[j].id
      <4>1. d + i < d + j
        BY <1>1, <2>1, <3>2
      <4>2. QED
        BY <1>1, <2>2, <2>3, <2>4, <4>1 DEF Ordered
    <3>3. QED
      BY <2>2, <2>3, <3>1, <3>2 DEF Ordered
  <2>7. Streamed(w)
    <3>1. ASSUME NEW i \in 1 .. MaxShown
          PROVE  /\ w.log[i].id = w.answering => w.log[i].kind = "assistant"
                 /\ w.log[i].id = w.reasoning => w.log[i].kind = "reasoning"
      <4>1. w.log[i] = v.log[d + i] /\ d + i \in 1 .. n
        BY <2>2, <2>3, <2>4
      <4>2. w.log[i].id \in 1 .. v.created
        BY <1>1, <4>1 DEF Ordered
      <4>3. QED
        BY <1>1, <2>2, <4>1, <4>2 DEF Streamed
    <3>2. QED
      BY <2>2, <2>3, <3>1 DEF Streamed
  <2>8. Told(w, s)
    BY <1>1, <2>2 DEF Told
  <2>9. Held(w, s)
    <3>1. \A i \in 1 .. MaxShown : w.log[i].whole \in 0 .. Len(s)
      BY <1>1, <2>2, <2>3, <2>4 DEF Held
    <3>2. ASSUME NEW k \in 1 .. Len(s), s[k] # 0, MaxShown > 0, w.log[1].id <= s[k]
          PROVE  \E i \in 1 .. MaxShown : w.log[i].id = s[k] /\ w.log[i].whole = k
      <4>1. w.log[1] = v.log[d + 1] /\ d + 1 \in 1 .. n /\ 1 \in 1 .. n /\ 1 < d + 1
        BY <1>1, <2>1, <2>2, <2>3, <2>4, <3>2
      <4>2. v.log[1].id < v.log[d + 1].id /\ v.log[1].id \in Nat /\ v.log[d + 1].id \in Nat /\ s[k] \in Nat
        <5>1. v.log[1].id \in 1 .. v.created /\ v.log[d + 1].id \in 1 .. v.created
          BY <1>1, <4>1, Zenon DEF Ordered
        <5>2. v.log[1].id < v.log[d + 1].id
          BY <1>1, <4>1, Zenon DEF Ordered
        <5>3. s[k] \in Nat
          BY <1>1, <3>2 DEF Told
        <5>4. QED
          BY <1>1, <5>1, <5>2, <5>3
      <4>3. n > 0 /\ v.log[1].id <= s[k]
        BY <1>1, <3>2, <4>1, <4>2
      <4>4. PICK j \in 1 .. n : v.log[j].id = s[k] /\ v.log[j].whole = k
        BY <1>1, <3>2, <4>3 DEF Held
      <4>5. ~(j < d + 1)
        <5>1. j < d + 1 => v.log[j].id < v.log[d + 1].id
          BY <1>1, <4>1 DEF Ordered
        <5>2. QED
          BY <3>2, <4>1, <4>2, <4>4, <5>1
      <4>6. j - d \in 1 .. MaxShown /\ d + (j - d) = j
        <5>1. n \in Nat /\ MaxShown \in Nat /\ d \in 1 .. n /\ d = n - MaxShown
          BY <1>1, <2>1 DEF d
        <5>2. j \in 1 .. n /\ ~(j < d + 1)
          BY <4>5
        <5> HIDE DEF n
        <5>3. QED
          BY <5>1, <5>2
      <4>7. w.log[j - d] = v.log[j]
        BY <2>2, <2>3, <4>6
      <4>8. QED
        BY <4>4, <4>6, <4>7
    <3>3. QED
      BY <2>2, <2>3, <3>1, <3>2 DEF Held
  <2>10. Trimmed(w)
    BY <1>1, <2>2, <2>3 DEF Trimmed
  <2>11. QED
    BY <1>1, <2>2, <2>5, <2>6, <2>7, <2>8, <2>9, <2>10 DEF Sound, Longer, w
<1>4. QED
  BY <1>2, <1>3

LEMMA AddLogSound ==
  ASSUME NEW v, NEW s, Sound(v, s), NEW kind \in Kinds
  PROVE  Longer(v, AddLog(v, kind), s, 1) /\ Trimmed(AddLog(v, kind))
<1> DEFINE u == Push(v, kind, 0)
<1>1. 0 \in 0 .. Len(s)
  BY DEF Sound, Told
<1>2. Longer(v, u, s, 1)
  BY <1>1, PushSound
<1>3. Longer(u, Trim(u), s, 0) /\ Trimmed(Trim(u))
  BY <1>2, TrimSound DEF Longer
<1>4. v.created \in Nat
  BY DEF Sound, IsView
<1>5. QED
  BY <1>2, <1>3, <1>4 DEF Longer, AddLog

\* Text is only added to what holds no answer.
LEMMA TextSound ==
  ASSUME NEW v, NEW s, Sound(v, s), NEW id \in Nat, NEW whole \in 0 .. Len(s),
         \A k \in 1 .. Len(s) : s[k] # 0 => s[k] # id
  PROVE  Longer(v, SetText(v, id, whole), s, 0) /\ Len(SetText(v, id, whole).log) = Len(v.log)
<1> DEFINE w == SetText(v, id, whole)
           n == Len(v.log)
<1>1. /\ IsView(v) /\ Ordered(v) /\ Streamed(v) /\ Told(v, s) /\ Held(v, s)
      /\ n \in Nat /\ v.created \in Nat /\ v.log \in Seq(Entry) /\ DOMAIN v = Fields /\ DOMAIN v.log = 1 .. n
      /\ whole \in Nat
  BY DEF Sound, IsView, Told
<1>2. /\ DOMAIN w = Fields /\ w.created = v.created /\ w.status = v.status /\ w.running = v.running
      /\ w.answering = v.answering /\ w.reasoning = v.reasoning
      /\ w.log = [i \in 1 .. n |-> IF v.log[i].id = id THEN [v.log[i] EXCEPT !.whole = whole] ELSE v.log[i]]
  BY <1>1 DEF SetText, Fields
<1>3. ASSUME NEW i \in 1 .. n
      PROVE  /\ w.log[i] \in Entry /\ w.log[i].id = v.log[i].id /\ w.log[i].kind = v.log[i].kind
             /\ w.log[i].whole = IF v.log[i].id = id THEN whole ELSE v.log[i].whole
  <2>1. v.log[i] \in Entry
    BY <1>1
  <2>2. w.log[i] = IF v.log[i].id = id THEN [v.log[i] EXCEPT !.whole = whole] ELSE v.log[i]
    BY <1>2
  <2>3. QED
    BY <2>1, <2>2 DEF Entry
<1>4. Len(w.log) = n /\ w.log \in Seq(Entry)
  <2> HIDE DEF w
  <2>1. w.log \in [1 .. n -> Entry]
    BY <1>2, <1>3
  <2>2. QED
    BY <1>1, <2>1
<1> HIDE DEF w
<1>5. IsView(w)
  BY <1>1, <1>2, <1>4 DEF IsView
<1>6. Ordered(w)
  BY <1>1, <1>2, <1>3, <1>4 DEF Ordered
<1>7. Streamed(w)
  BY <1>1, <1>2, <1>3, <1>4 DEF Streamed
<1>8. Told(w, s)
  BY <1>1, <1>2 DEF Told
<1>9. Held(w, s)
  <2>1. \A i \in 1 .. n : w.log[i].whole \in 0 .. Len(s)
    <3>1. \A i \in 1 .. n : v.log[i].whole \in 0 .. Len(s)
      BY <1>1 DEF Held
    <3>2. QED
      BY <1>3, <3>1
  <2>2. ASSUME NEW k \in 1 .. Len(s), s[k] # 0, n > 0, w.log[1].id <= s[k]
        PROVE  \E i \in 1 .. n : w.log[i].id = s[k] /\ w.log[i].whole = k
    <3>1. v.log[1].id <= s[k]
      BY <1>1, <1>3, <2>2
    <3>2. PICK i \in 1 .. n : v.log[i].id = s[k] /\ v.log[i].whole = k
      BY <1>1, <2>2, <3>1 DEF Held
    <3>3. QED
      BY <1>3, <2>2, <3>2
  <2>3. QED
    BY <1>4, <2>1, <2>2 DEF Held
<1>10. QED
  BY <1>1, <1>2, <1>4, <1>5, <1>6, <1>7, <1>8, <1>9 DEF Sound, Longer, w

\* A response without text.
LEMMA SilenceSound ==
  ASSUME NEW v, NEW s, Sound(v, s)
  PROVE  Sound(v, Append(s, 0))
<1> DEFINE t == Append(s, 0)
<1>1. /\ IsView(v) /\ Ordered(v) /\ Streamed(v) /\ Told(v, s) /\ Held(v, s)
      /\ s \in Seq(Nat) /\ Len(s) \in Nat
  BY DEF Sound, Told
<1>2. /\ t \in Seq(Nat) /\ Len(t) = Len(s) + 1 /\ t[Len(s) + 1] = 0
      /\ \A k \in 1 .. Len(s) : t[k] = s[k]
      /\ \A k \in 1 .. Len(s) + 1 : k = Len(s) + 1 \/ k \in 1 .. Len(s)
  BY <1>1
<1> HIDE DEF t
<1>3. Told(v, t)
  <2>1. \A k \in 1 .. Len(t) : t[k] <= v.created /\ (t[k] # 0 => t[k] \notin {v.answering, v.reasoning})
    BY <1>1, <1>2 DEF Told, IsView
  <2>2. ASSUME NEW k \in 1 .. Len(t), NEW j \in 1 .. k - 1, t[k] # 0
        PROVE  t[j] # t[k]
    <3>1. k \in 1 .. Len(s) /\ j \in 1 .. Len(s)
      BY <1>1, <1>2, <2>2
    <3>2. QED
      BY <1>1, <1>2, <2>2, <3>1 DEF Told
  <2>3. QED
    BY <1>2, <2>1, <2>2 DEF Told
<1>4. Held(v, t)
  <2>1. \A n \in 1 .. Len(v.log) : v.log[n].whole \in 0 .. Len(t)
    BY <1>1, <1>2 DEF Held
  <2>2. ASSUME NEW k \in 1 .. Len(t), t[k] # 0, Len(v.log) > 0, v.log[1].id <= t[k]
        PROVE  \E n \in 1 .. Len(v.log) : v.log[n].id = t[k] /\ v.log[n].whole = k
    <3>1. k \in 1 .. Len(s) /\ t[k] = s[k]
      BY <1>2, <2>2
    <3>2. QED
      BY <1>1, <2>2, <3>1 DEF Held
  <2>3. QED
    BY <2>1, <2>2 DEF Held
<1>5. QED
  BY <1>1, <1>3, <1>4 DEF Sound, t

\* A response whose text is in an entry of its own.
LEMMA AnswerSound ==
  ASSUME NEW v, NEW s, s \in Seq(Nat), Sound(v, Append(s, 0)), NEW a \in 1 .. v.created,
         a \notin {v.answering, v.reasoning}, \A k \in 1 .. Len(s) : s[k] # a,
         \E n \in 1 .. Len(v.log) : v.log[n].id = a /\ v.log[n].whole = Len(s) + 1
  PROVE  Sound(v, Append(s, a))
<1> DEFINE t == Append(s, 0)
           u == Append(s, a)
           m == Len(s) + 1
<1>1. /\ IsView(v) /\ Ordered(v) /\ Streamed(v) /\ Told(v, t) /\ Held(v, t)
      /\ Len(s) \in Nat /\ v.created \in Nat
  BY DEF Sound, IsView
<1>2. /\ u \in Seq(Nat) /\ Len(t) = m /\ Len(u) = m /\ u[m] = a
      /\ \A k \in 1 .. Len(s) : u[k] = s[k] /\ t[k] = s[k]
      /\ \A k \in 1 .. m : k = m \/ k \in 1 .. Len(s)
  BY <1>1
<1> HIDE DEF t, u
<1>3. Told(v, u)
  <2>1. ASSUME NEW k \in 1 .. Len(u)
        PROVE  u[k] <= v.created /\ (u[k] # 0 => u[k] \notin {v.answering, v.reasoning})
    <3>1. CASE k = m
      BY <1>1, <1>2, <3>1
    <3>2. CASE k \in 1 .. Len(s)
      <4>1. k \in 1 .. Len(t) /\ t[k] = u[k]
        BY <1>1, <1>2, <3>2
      <4>2. QED
        BY <1>1, <4>1 DEF Told
    <3>3. QED
      BY <1>2, <3>1, <3>2
  <2>2. ASSUME NEW k \in 1 .. Len(u), NEW j \in 1 .. k - 1, u[k] # 0
        PROVE  u[j] # u[k]
    <3>1. j \in 1 .. Len(s) /\ j \in 1 .. Len(t) /\ k \in 1 .. Len(t)
      <4>1. Len(s) \in Nat /\ Len(t) = Len(s) + 1 /\ Len(u) = Len(s) + 1
        BY <1>1, <1>2
      <4>2. QED
        BY <4>1, <2>2
    <3>2. CASE k = m
      BY <1>2, <3>1, <3>2
    <3>3. CASE k \in 1 .. Len(s)
      <4>1. t[k] = u[k] /\ t[j] = u[j]
        BY <1>2, <3>1, <3>3
      <4>2. t[k] = 0 \/ t[j] # t[k]
        BY <1>1, <3>1 DEF Told
      <4>3. QED
        BY <2>2, <4>1, <4>2
    <3>4. QED
      BY <1>2, <3>2, <3>3
  <2>3. QED
    BY <1>2, <2>1, <2>2 DEF Told
<1>4. Held(v, u)
  <2>1. \A n \in 1 .. Len(v.log) : v.log[n].whole \in 0 .. Len(u)
    BY <1>1, <1>2 DEF Held
  <2>2. ASSUME NEW k \in 1 .. Len(u), u[k] # 0, Len(v.log) > 0, v.log[1].id <= u[k]
        PROVE  \E n \in 1 .. Len(v.log) : v.log[n].id = u[k] /\ v.log[n].whole = k
    <3>1. CASE k = m
      BY <1>2, <3>1
    <3>2. CASE k \in 1 .. Len(s)
      <4>1. k \in 1 .. Len(t) /\ t[k] = u[k]
        BY <1>1, <1>2, <3>2
      <4>2. QED
        BY <1>1, <2>2, <4>1 DEF Held
    <3>3. QED
      BY <1>2, <3>1, <3>2
  <2>3. QED
    BY <2>1, <2>2 DEF Held
<1>5. QED
  BY <1>1, <1>3, <1>4 DEF Sound, u

-------------------------------------------------------------------------------
(* The events.                                                               *)

Stepped(v, w, s, n) == Sound(w, s) /\ Trimmed(w) /\ w.created <= v.created + n

LEMMA AddLogStep ==
  ASSUME NEW v, NEW s, Sound(v, s), NEW kind \in Kinds
  PROVE  Stepped(v, AddLog(v, kind), s, 1)
<1>1. v.created \in Nat
  BY DEF Sound, IsView
<1>2. QED
  BY <1>1, AddLogSound DEF Longer, Stepped

\* A change of what is not the log.
LEMMA ChangeSound ==
  ASSUME NEW v, NEW s, Sound(v, s), NEW w, DOMAIN w = Fields,
         w.log = v.log, w.created = v.created, w.answering \in {0, v.answering}, w.reasoning \in {0, v.reasoning},
         w.status \in Going, w.running \subseteq RunIds \X {1, 2}
  PROVE  Stepped(v, w, s, 0) \/ ~Trimmed(v)
<1>1. Sound(w, s) /\ v.created \in Nat
  BY SameLogSound DEF Sound, IsView
<1>2. QED
  BY <1>1 DEF Stepped, Trimmed

LEMMA ToolCallStep ==
  ASSUME NEW v, NEW s, Sound(v, s), NEW r \in RunIds, NEW c \in {1, 2}
  PROVE  Stepped(v, ToolCall(v, r, c), s, 1)
<1> DEFINE u == [v EXCEPT !.status = "running_tool", !.running = @ \cup {<<r, c>>}]
<1>1. DOMAIN v = Fields /\ v.running \subseteq RunIds \X {1, 2} /\ v.created \in Nat
  BY DEF Sound, IsView
<1>2. /\ DOMAIN u = Fields /\ u.log = v.log /\ u.created = v.created
      /\ u.answering = v.answering /\ u.reasoning = v.reasoning
      /\ u.status \in Going /\ u.running \subseteq RunIds \X {1, 2}
  BY <1>1 DEF Fields, Going, Statuses
<1> HIDE DEF u
<1>3. Sound(u, s)
  BY <1>2, SameLogSound
<1>4. Stepped(u, AddLog(u, "tool_call"), s, 1)
  BY <1>3, AddLogStep DEF Kinds
<1>5. QED
  BY <1>2, <1>4 DEF ToolCall, Stepped, u

LEMMA ToolCallsStep ==
  ASSUME NEW v, NEW s, Sound(v, s), NEW r \in RunIds, NEW batch \in SUBSET {1, 2}, batch # {}
  PROVE  Stepped(v, ToolCalls(v, r, batch), s, 2)
<1>1. v.created \in Nat
  BY DEF Sound, IsView
<1>2. CASE batch = {1, 2}
  <2> DEFINE u == ToolCall(v, r, 1)
  <2>1. Stepped(v, u, s, 1)
    BY ToolCallStep
  <2>2. Sound(u, s) /\ u.created \in Nat
    BY <2>1 DEF Stepped, Sound, IsView
  <2>3. Stepped(u, ToolCall(u, r, 2), s, 1)
    BY <2>2, ToolCallStep
  <2>4. ToolCalls(v, r, batch) = ToolCall(u, r, 2)
    BY <1>2 DEF ToolCalls
  <2>5. ToolCall(u, r, 2).created \in Nat
    BY <2>3 DEF Stepped, Sound, IsView
  <2> HIDE DEF u
  <2>6. QED
    BY <1>1, <2>1, <2>2, <2>3, <2>4, <2>5 DEF Stepped
<1>3. CASE batch # {1, 2}
  <2> DEFINE c == CHOOSE c \in batch : TRUE
  <2>1. c \in {1, 2}
    OBVIOUS
  <2>2. ToolCalls(v, r, batch) = ToolCall(v, r, c)
    BY <1>3 DEF ToolCalls
  <2> HIDE DEF c
  <2>3. Stepped(v, ToolCall(v, r, c), s, 1)
    BY <2>1, ToolCallStep
  <2>4. ToolCall(v, r, c).created \in Nat
    BY <2>3 DEF Stepped, Sound, IsView
  <2>5. QED
    BY <1>1, <2>2, <2>3, <2>4 DEF Stepped
<1>4. QED
  BY <1>2, <1>3

LEMMA ToolResultStep ==
  ASSUME NEW v, NEW s, Sound(v, s), NEW r, NEW c
  PROVE  Stepped(v, ToolResult(v, r, c), s, 1)
<1> DEFINE still == v.running \ {<<r, c>>}
           u == [v EXCEPT !.running = still, !.status = IF still = {} THEN "idle" ELSE "running_tool"]
<1>1. DOMAIN v = Fields /\ still \subseteq RunIds \X {1, 2} /\ v.created \in Nat
  BY DEF Sound, IsView
<1>2. /\ DOMAIN u = Fields /\ u.log = v.log /\ u.created = v.created
      /\ u.answering = v.answering /\ u.reasoning = v.reasoning
      /\ u.status \in Going /\ u.running = still
  BY <1>1 DEF Fields, Going, Statuses
<1>3. ToolResult(v, r, c) = AddLog(u, "tool_result")
  BY DEF ToolResult
<1> HIDE DEF u, still
<1>4. Sound(u, s)
  BY <1>1, <1>2, SameLogSound
<1>5. Stepped(u, AddLog(u, "tool_result"), s, 1)
  BY <1>4, AddLogStep DEF Kinds
<1>6. QED
  BY <1>2, <1>3, <1>5 DEF Stepped

\* Text that is streamed goes to an entry that holds no answer.
LEMMA DeltaStep ==
  ASSUME NEW v, NEW s, Sound(v, s), Trimmed(v), NEW w \in {AssistantDelta(v), ReasoningDelta(v)}
  PROVE  Stepped(v, w, s, 1)
<1>1. /\ v.created \in Nat /\ v.answering \in Nat /\ v.reasoning \in Nat /\ Len(s) \in Nat
      /\ v.answering <= v.created /\ v.reasoning <= v.created /\ Told(v, s)
  BY DEF Sound, IsView, Told
<1>2. ASSUME NEW id \in {v.answering, v.reasoning}, w = SetText(v, id, 0)
      PROVE  Stepped(v, w, s, 1)
  <2>1. /\ id \in Nat /\ 0 \in 0 .. Len(s)
        /\ \A k \in 1 .. Len(s) : s[k] # 0 => s[k] # id
    BY <1>1 DEF Told
  <2>2. Longer(v, SetText(v, id, 0), s, 0) /\ Len(SetText(v, id, 0).log) = Len(v.log)
    BY <2>1, TextSound
  <2>3. QED
    BY <1>1, <1>2, <2>2 DEF Longer, Stepped, Trimmed
<1>3. ASSUME NEW kind \in {"assistant", "reasoning"}, NEW u, DOMAIN u = Fields,
             u.log = Push(v, kind, 0).log, u.created = v.created + 1,
             u.status = v.status, u.running = v.running,
             u.answering = IF kind = "assistant" THEN v.created + 1 ELSE v.answering,
             u.reasoning = IF kind = "reasoning" THEN v.created + 1 ELSE v.reasoning,
             w = Trim(u)
      PROVE  Stepped(v, w, s, 1)
  <2> DEFINE p == Push(v, kind, 0)
             e == [id |-> v.created + 1, kind |-> kind, whole |-> 0]
  <2>1. Longer(v, p, s, 1) /\ p.answering = v.answering /\ p.reasoning = v.reasoning /\ p.log = Append(v.log, e)
    <3>1. kind \in Kinds /\ 0 \in 0 .. Len(s)
      BY <1>1 DEF Kinds
    <3>2. QED
      BY <3>1, PushSound
  <2>2. /\ IsView(p) /\ Ordered(p) /\ Streamed(p) /\ Told(p, s) /\ Held(p, s) /\ p.created = v.created + 1
        /\ IsView(v) /\ Ordered(v)
    <3>1. Sound(p, s) /\ p.created = v.created + 1
      BY <2>1, Zenon DEF Longer
    <3> HIDE DEF p
    <3>2. QED
      BY <3>1, Zenon DEF Sound
  <2> HIDE DEF p
  <2>3. IsView(u)
    <3>1. /\ p.log \in Seq(Entry) /\ v.status \in Going /\ v.running \subseteq RunIds \X {1, 2}
      BY <2>2, Zenon DEF IsView
    <3>2. u.log = p.log /\ u.status = v.status /\ u.running = v.running /\ DOMAIN u = Fields
      BY <1>3, Zenon DEF p
    <3>3. u.created \in Nat /\ u.answering \in 0 .. u.created /\ u.reasoning \in 0 .. u.created
      BY <1>1, <1>3
    <3>4. QED
      BY <3>1, <3>2, <3>3, Zenon DEF IsView
  <2>4. Ordered(u)
    BY <1>3, <2>2 DEF Ordered, p
  <2>5. Streamed(u)
    <3>1. ASSUME NEW i \in 1 .. Len(v.log) + 1, p.log[i].id = v.created + 1
          PROVE  p.log[i].kind = kind
      <4>1. v.log \in Seq(Entry) /\ Len(v.log) \in Nat
        BY <2>2 DEF IsView
      <4>2. CASE i = Len(v.log) + 1
        BY <2>1, <4>1, <4>2
      <4>3. CASE i \in 1 .. Len(v.log)
        <5>1. p.log[i] = v.log[i]
          BY <2>1, <4>1, <4>3
        <5>2. v.log[i].id \in 1 .. v.created
          BY <2>2, <4>3 DEF Ordered
        <5>3. QED
          BY <1>1, <3>1, <5>1, <5>2
      <4>4. QED
        BY <4>1, <4>2, <4>3
    <3>2. Len(p.log) = Len(v.log) + 1
      BY <2>1, <2>2 DEF IsView
    <3>3. QED
      BY <1>3, <2>1, <2>2, <3>1, <3>2 DEF Streamed, p
  <2>6. Told(u, s)
    BY <1>1, <1>3, <2>2 DEF Told
  <2>7. Held(u, s)
    BY <1>3, <2>2 DEF Held, p
  <2>8. Longer(u, Trim(u), s, 0) /\ Trimmed(Trim(u))
    BY <2>3, <2>4, <2>5, <2>6, <2>7, TrimSound DEF Sound
  <2>9. QED
    BY <1>1, <1>3, <2>8 DEF Longer, Stepped
<1>4. CASE w = AssistantDelta(v)
  <2>1. CASE Shown(v, v.answering)
    BY <1>2, <1>4, <2>1 DEF AssistantDelta
  <2>2. CASE ~Shown(v, v.answering)
    <3> DEFINE u == [Push(v, "assistant", 0) EXCEPT !.answering = v.created + 1]
    <3>1. w = Trim(u)
      BY <1>4, <2>2 DEF AssistantDelta
    <3>2. /\ DOMAIN u = Fields /\ u.log = Push(v, "assistant", 0).log /\ u.created = v.created + 1
          /\ u.status = v.status /\ u.running = v.running
          /\ u.answering = v.created + 1 /\ u.reasoning = v.reasoning
      BY DEF Push, Sound, IsView, Fields
    <3> HIDE DEF u
    <3>3. QED
      BY <1>3, <3>1, <3>2
  <2>3. QED
    BY <2>1, <2>2
<1>5. CASE w = ReasoningDelta(v)
  <2>1. CASE Shown(v, v.reasoning)
    BY <1>2, <1>5, <2>1 DEF ReasoningDelta
  <2>2. CASE ~Shown(v, v.reasoning)
    <3> DEFINE u == [Push(v, "reasoning", 0) EXCEPT !.reasoning = v.created + 1]
    <3>1. w = Trim(u)
      BY <1>5, <2>2 DEF ReasoningDelta
    <3>2. /\ DOMAIN u = Fields /\ u.log = Push(v, "reasoning", 0).log /\ u.created = v.created + 1
          /\ u.status = v.status /\ u.running = v.running
          /\ u.answering = v.answering /\ u.reasoning = v.created + 1
      BY DEF Push, Sound, IsView, Fields
    <3> HIDE DEF u
    <3>3. QED
      BY <1>3, <3>1, <3>2
  <2>3. QED
    BY <2>1, <2>2
<1>6. QED
  BY <1>4, <1>5

\* The whole of an answer, in the entry it was streamed to or in one of its own.
LEMMA AnswerStep ==
  ASSUME NEW v, NEW s, Sound(v, s), Trimmed(v)
  PROVE  Stepped(v, ModelResponse(v, Len(s) + 1), Append(s, AnswerEntry(v)), 1)
<1> DEFINE m == Len(s) + 1
           t == Append(s, 0)
           u == Upsert(v, m)
           w == ModelResponse(v, m)
<1>1. /\ v.created \in Nat /\ v.answering \in 0 .. v.created /\ v.reasoning \in 0 .. v.created
      /\ s \in Seq(Nat) /\ Len(s) \in Nat /\ m \in 0 .. Len(t) /\ IsView(v) /\ Ordered(v) /\ Streamed(v)
      /\ \A k \in 1 .. Len(s) : s[k] <= v.created /\ s[k] \in Nat
      /\ \A k \in 1 .. Len(s) : s[k] # 0 => s[k] \notin {v.answering, v.reasoning}
  BY DEF Sound, IsView, Told
<1>2. Sound(v, t)
  BY SilenceSound
<1>3. w = [u EXCEPT !.answering = 0, !.reasoning = 0, !.status = IF v.running = {} THEN "idle" ELSE @]
  <2>1. m # 0
    BY <1>1
  <2>2. (IF m = 0 THEN v ELSE Upsert(v, m)) = u
    BY <2>1
  <2> HIDE DEF m
  <2>3. QED
    BY <2>2, Zenon DEF ModelResponse
<1>4. CASE Shown(v, v.answering)
  <2> DEFINE a == v.answering
             x == SetText(v, a, m)
  <2>1. PICK n \in 1 .. Len(v.log) : v.log[n].id = a
    BY <1>1, <1>4 DEF Shown, IsView
  <2>2. a \in 1 .. v.created /\ AnswerEntry(v) = a /\ u = x
    BY <1>1, <1>4, <2>1 DEF Ordered, AnswerEntry, Upsert
  <2>3. \A k \in 1 .. Len(t) : t[k] # 0 => t[k] # a
    BY <1>1
  <2>4. Longer(v, x, t, 0) /\ Len(x.log) = Len(v.log)
    <3> HIDE DEF t, m, a, x
    <3>1. a \in Nat
      BY <1>1 DEF a
    <3>2. QED
      BY <1>1, <1>2, <2>3, <3>1, TextSound DEF x
  <2>5. IsView(x) /\ DOMAIN x = Fields /\ x.created = v.created
    BY <1>1, <2>4 DEF Longer, Sound, IsView
  <2>6. x.log[n].id = a /\ x.log[n].whole = m
    <3>1. v.log \in Seq(Entry) /\ v.log[n] \in Entry /\ DOMAIN v.log = 1 .. Len(v.log) /\ DOMAIN v = Fields
      BY <1>1, <2>1 DEF IsView
    <3>2. x.log[n] = [v.log[n] EXCEPT !.whole = m]
      BY <2>1, <3>1 DEF SetText, Fields
    <3>3. QED
      BY <2>1, <3>1, <3>2 DEF Entry
  <2> HIDE DEF x, m, t, a, u
  <2>7. /\ DOMAIN w = Fields /\ w.log = x.log /\ w.created = x.created /\ w.answering = 0 /\ w.reasoning = 0
        /\ w.status \in Going /\ w.running \subseteq RunIds \X {1, 2}
    BY <1>3, <2>2, <2>5 DEF Fields, IsView, Going, Statuses
  <2> HIDE DEF w
  <2>8. Sound(w, t)
    BY <2>4, <2>7, SameLogSound DEF Longer
  <2>9. Sound(w, Append(s, a))
    <3>1. \A k \in 1 .. Len(s) : s[k] # a
      BY <1>1, <2>2 DEF a
    <3>2. \E i \in 1 .. Len(w.log) : w.log[i].id = a /\ w.log[i].whole = Len(s) + 1
      BY <2>1, <2>4, <2>6, <2>7 DEF m
    <3>3. a \in 1 .. w.created /\ a \notin {w.answering, w.reasoning}
      BY <1>1, <2>2, <2>5, <2>7
    <3>4. QED
      BY <1>1, <2>8, <3>1, <3>2, <3>3, AnswerSound DEF t
  <2>10. Trimmed(w) /\ w.created <= v.created + 1
    BY <1>1, <2>4, <2>5, <2>7 DEF Trimmed
  <2>11. QED
    BY <2>2, <2>9, <2>10 DEF Stepped, w, m
<1>5. CASE ~Shown(v, v.answering)
  <2> DEFINE a == v.created + 1
             x == Push(v, "assistant", m)
             e == [id |-> a, kind |-> "assistant", whole |-> m]
  <2>1. AnswerEntry(v) = a /\ u = Trim(x) /\ a \in Nat
    BY <1>1, <1>5 DEF AnswerEntry, Upsert
  <2>2. Longer(v, x, t, 1) /\ x.answering = v.answering /\ x.reasoning = v.reasoning /\ x.log = Append(v.log, e)
    <3>1. "assistant" \in Kinds
      BY DEF Kinds
    <3> HIDE DEF t, m, a, x
    <3>2. QED
      BY <1>1, <1>2, <3>1, PushSound DEF x, a
  <2>3. Sound(x, t) /\ x.created = a
    BY <2>2 DEF Longer
  <2>4. Len(v.log) + 1 \in 1 .. Len(x.log) /\ x.log[Len(v.log) + 1].id = a /\ x.log[Len(v.log) + 1].whole = m
    <3>1. v.log \in Seq(Entry) /\ Len(v.log) \in Nat
      BY <1>1 DEF IsView
    <3>2. Len(x.log) = Len(v.log) + 1 /\ x.log[Len(v.log) + 1] = e
      BY <2>2, <3>1
    <3>3. e.id = a /\ e.whole = m
      OBVIOUS
    <3> HIDE DEF e, x
    <3>4. QED
      BY <3>1, <3>2, <3>3
  <2> HIDE DEF x, e, t, w, u
  <2>5. Sound(x, Append(s, a))
    <3>1. /\ \A k \in 1 .. Len(s) : s[k] # a
          /\ a \in 1 .. x.created /\ a \notin {x.answering, x.reasoning}
      BY <1>1, <2>2, <2>3
    <3> HIDE DEF a
    <3>2. QED
      BY <1>1, <2>3, <2>4, <3>1, AnswerSound DEF t
  <2>6. Longer(x, u, Append(s, a), 0) /\ Trimmed(u)
    BY <2>1, <2>5, TrimSound
  <2>7. Sound(u, Append(s, a)) /\ IsView(u) /\ DOMAIN u = Fields /\ u.created = a
    BY <2>1, <2>3, <2>6 DEF Longer, Sound, IsView
  <2>8. /\ DOMAIN w = Fields /\ w.log = u.log /\ w.created = u.created /\ w.answering = 0 /\ w.reasoning = 0
        /\ w.status \in Going /\ w.running \subseteq RunIds \X {1, 2}
    BY <1>3, <2>7 DEF Fields, IsView, Going, Statuses
  <2>9. Sound(w, Append(s, a))
    BY <2>7, <2>8, SameLogSound
  <2>10. QED
    BY <1>1, <2>1, <2>6, <2>7, <2>8, <2>9 DEF Stepped, Trimmed, w
<1>6. QED
  BY <1>4, <1>5

LEMMA SilentAnswerStep ==
  ASSUME NEW v, NEW s, Sound(v, s), Trimmed(v)
  PROVE  Stepped(v, ModelResponse(v, 0), Append(s, 0), 1)
<1> DEFINE w == ModelResponse(v, 0)
<1>1. DOMAIN v = Fields /\ IsView(v) /\ Sound(v, Append(s, 0)) /\ v.created \in Nat
  BY SilenceSound DEF Sound, IsView
<1>2. /\ DOMAIN w = Fields /\ w.log = v.log /\ w.created = v.created /\ w.answering = 0 /\ w.reasoning = 0
      /\ w.status \in Going /\ w.running \subseteq RunIds \X {1, 2}
  BY <1>1 DEF ModelResponse, Fields, IsView, Going, Statuses
<1> HIDE DEF w
<1>3. Sound(w, Append(s, 0))
  BY <1>1, <1>2, SameLogSound
<1>4. QED
  BY <1>1, <1>2, <1>3 DEF Stepped, Trimmed, w

LEMMA RunEndStep ==
  ASSUME NEW v, NEW s, Sound(v, s), Trimmed(v), NEW failed
  PROVE  Stepped(v, RunEnd(v, failed), s, 0)
<1> DEFINE w == RunEnd(v, failed)
<1>1. DOMAIN v = Fields /\ IsView(v) /\ v.created \in Nat
  BY DEF Sound, IsView
<1>2. /\ DOMAIN w = Fields /\ w.log = v.log /\ w.created = v.created /\ w.answering = 0 /\ w.reasoning = 0
      /\ w.status \in Going /\ w.running \subseteq RunIds \X {1, 2}
  BY <1>1 DEF RunEnd, Fields, IsView, Going, Statuses
<1> HIDE DEF w
<1>3. Stepped(v, w, s, 0)
  BY <1>2, ChangeSound
<1>4. QED
  BY <1>3 DEF w

LEMMA AddErrorStep ==
  ASSUME NEW v, NEW s, Sound(v, s)
  PROVE  Stepped(v, AddError(v), s, 1)
<1> DEFINE u == [v EXCEPT !.failed = TRUE, !.status = "error"]
<1>1. DOMAIN v = Fields /\ IsView(v) /\ v.created \in Nat
  BY DEF Sound, IsView
<1>2. /\ DOMAIN u = Fields /\ u.log = v.log /\ u.created = v.created
      /\ u.answering = v.answering /\ u.reasoning = v.reasoning
      /\ u.status \in Going /\ u.running \subseteq RunIds \X {1, 2}
  BY <1>1 DEF Fields, Going, Statuses, IsView
<1>3. AddError(v) = AddLog(u, "error")
  BY DEF AddError
<1> HIDE DEF u
<1>4. Sound(u, s)
  BY <1>2, SameLogSound
<1>5. Stepped(u, AddLog(u, "error"), s, 1)
  BY <1>4, AddLogStep DEF Kinds
<1>6. QED
  BY <1>2, <1>3, <1>5 DEF Stepped

\* A run that fails, or ends: an entry, and the end.
LEMMA ClosedStep ==
  ASSUME NEW v, NEW s, Sound(v, s), NEW u \in {AddError(v), AddLog(v, "system")}, NEW failed
  PROVE  Stepped(v, RunEnd(u, failed), s, 1)
<1>1. Stepped(v, u, s, 1)
  BY AddErrorStep, AddLogStep DEF Kinds
<1>2. Sound(u, s) /\ Trimmed(u) /\ u.created <= v.created + 1 /\ v.created \in Nat /\ u.created \in Nat
  BY <1>1 DEF Stepped, Sound, IsView
<1>3. Stepped(u, RunEnd(u, failed), s, 0)
  BY <1>2, RunEndStep
<1>4. RunEnd(u, failed).created \in Nat
  BY <1>3 DEF Stepped, Sound, IsView
<1>5. QED
  BY <1>2, <1>3, <1>4 DEF Stepped

-------------------------------------------------------------------------------
(* The runs.                                                                 *)

LoopType ==
  [stage : {"unborn", "due", "asked", "called", "reporting", "saving", "stopping", "gone"},
   now : SUBSET {1, 2}, next : SUBSET {1, 2}]

\* The run waited for, and whether it was interrupted.
WaitsFor(run, halted) == run \in 0 .. MaxRuns /\ halted \in BOOLEAN /\ (halted => run # 0)

ViewGoes ==
  /\ Sound(view, said) /\ Trimmed(view) /\ view.created <= MaxIds + 3
  /\ WaitsFor(shownRun, stopped) /\ loopAt \in [RunIds -> LoopType]

LEMMA GoingSound == ViewGoes => ViewSound
<1> SUFFICES ASSUME ViewGoes PROVE ViewSound
  OBVIOUS
<1>1. /\ IsView(view) /\ Ordered(view) /\ Streamed(view) /\ Told(view, said) /\ Held(view, said)
      /\ said \in Seq(Nat) /\ DOMAIN said = 1 .. Len(said) /\ view.log \in Seq(Entry)
      /\ DOMAIN view.log = 1 .. Len(view.log) /\ view.created \in Nat
  <2>1. IsView(view) /\ Ordered(view) /\ Streamed(view) /\ Told(view, said) /\ Held(view, said)
    BY DEF ViewGoes, Sound
  <2>2. said \in Seq(Nat) /\ DOMAIN said = 1 .. Len(said)
    BY <2>1 DEF Told
  <2>3. view.log \in Seq(Entry) /\ DOMAIN view.log = 1 .. Len(view.log) /\ view.created \in Nat
    BY <2>1 DEF IsView
  <2>4. QED
    BY <2>1, <2>2, <2>3
<1>2. ViewTypeOK
  <2>1. \A n \in 1 .. Len(view.log) : view.log[n].kind \in Kinds
    <3>1. \A n \in 1 .. Len(view.log) : view.log[n] \in Entry
      BY <1>1
    <3>2. QED
      BY <3>1 DEF Entry
  <2>2. view.created \in 0 .. MaxIds + 3
    BY <1>1, ViewAssumption DEF ViewGoes
  <2>3. QED
    BY <1>1, <2>1, <2>2 DEF ViewTypeOK, ViewGoes, WaitsFor, IsView, Going, Trimmed, Streamed, Held
<1>3. AnswersShown
  <2>1. view.log # <<>> => Len(view.log) > 0
    BY <1>1
  <2>2. QED
    BY <1>1, <2>1 DEF AnswersShown, Told, Held
<1>4. QED
  BY <1>2, <1>3 DEF ViewSound

LEMMA AtTyped ==
  ASSUME NEW stage \in {"unborn", "due", "asked", "called", "reporting", "saving", "stopping", "gone"}
  PROVE  At(stage) \in LoopType
BY DEF At, LoopType

\* A step that leaves the answers as they are.
LEMMA EventKeeps ==
  ASSUME ViewGoes, NEW n \in 0 .. 3, Stepped(view, view', said, n), view.created + n <= MaxIds + 3, UNCHANGED said,
         WaitsFor(shownRun', stopped'), loopAt' \in [RunIds -> LoopType]
  PROVE  ViewGoes'
<1>1. view.created \in Nat /\ view'.created \in Nat
  BY DEF ViewGoes, Stepped, Sound, IsView
<1>2. view'.created <= MaxIds + 3
  BY <1>1, ViewAssumption DEF Stepped
<1>3. Sound(view', said') /\ Trimmed(view')
  BY DEF Stepped
<1>4. QED
  BY <1>2, <1>3 DEF ViewGoes

\* A step that leaves the view and the answers as they are.
LEMMA QuietKeeps ==
  ASSUME ViewGoes, UNCHANGED <<view, said>>,
         WaitsFor(shownRun', stopped'), loopAt' \in [RunIds -> LoopType]
  PROVE  ViewGoes'
BY DEF ViewGoes

LEMMA RunTyped ==
  ASSUME ViewGoes, NEW r \in RunIds
  PROVE  /\ loopAt[r] \in LoopType /\ r \in 0 .. MaxRuns
         /\ \A stage \in {"unborn", "due", "asked", "called", "reporting", "saving", "stopping", "gone"} :
               [loopAt EXCEPT ![r] = At(stage)] \in [RunIds -> LoopType]
<1>1. loopAt \in [RunIds -> LoopType] /\ r \in 1 .. MaxRuns /\ MaxRuns \in Nat
  BY ViewAssumption DEF ViewGoes, RunIds
<1>2. ASSUME NEW stage \in {"unborn", "due", "asked", "called", "reporting", "saving", "stopping", "gone"}
      PROVE  [loopAt EXCEPT ![r] = At(stage)] \in [RunIds -> LoopType]
  <2>1. At(stage) \in LoopType
    BY AtTyped
  <2>2. QED
    BY <1>1, <2>1
<1>3. QED
  BY <1>1, <1>2

LEMMA SubmitTurnKeeps ==
  ASSUME ViewGoes, NEW r \in RunIds, SubmitTurn(r)
  PROVE  ViewGoes'
<1> DEFINE u == [view EXCEPT !.noticed = FALSE]
           x == AddLog(u, "user")
<1>1. /\ view.created + 1 <= MaxIds /\ view' = RunStart(x) /\ UNCHANGED said
      /\ shownRun' = r /\ stopped' = stopped /\ loopAt' = [loopAt EXCEPT ![r] = At("due")]
  BY DEF SubmitTurn, Room, Stands
<1>2. DOMAIN view = Fields /\ IsView(view) /\ Sound(view, said) /\ view.created \in Nat
  BY DEF ViewGoes, Sound, IsView
<1>3. /\ DOMAIN u = Fields /\ u.log = view.log /\ u.created = view.created
      /\ u.answering = view.answering /\ u.reasoning = view.reasoning
      /\ u.status \in Going /\ u.running \subseteq RunIds \X {1, 2}
  BY <1>2 DEF Fields, Going, Statuses, IsView
<1> HIDE DEF u
<1>4. Stepped(u, x, said, 1)
  <2>1. Sound(u, said)
    BY <1>2, <1>3, SameLogSound
  <2>2. QED
    BY <2>1, AddLogStep DEF Kinds
<1>5. Sound(x, said) /\ Trimmed(x) /\ IsView(x) /\ DOMAIN x = Fields /\ x.created <= view.created + 1
  BY <1>3, <1>4 DEF Stepped, Sound, IsView
<1> HIDE DEF x
<1>6. /\ DOMAIN view' = Fields /\ view'.log = x.log /\ view'.created = x.created
      /\ view'.answering = x.answering /\ view'.reasoning = x.reasoning
      /\ view'.status \in Going /\ view'.running \subseteq RunIds \X {1, 2}
  BY <1>1, <1>5 DEF RunStart, Fields, Going, Statuses, IsView
<1>7. Sound(view', said)
  BY <1>5, <1>6, SameLogSound
<1>8. Stepped(view, view', said, 1)
  BY <1>5, <1>6, <1>7 DEF Stepped, Trimmed
<1>9. view.created + 1 <= MaxIds + 3 /\ 1 \in 0 .. 3
  BY <1>1, <1>2, ViewAssumption
<1>10. WaitsFor(shownRun', stopped') /\ loopAt' \in [RunIds -> LoopType]
  <2>1. r # 0
    BY DEF RunIds
  <2>2. QED
    BY <1>1, <2>1, RunTyped DEF ViewGoes, WaitsFor
<1>11. QED
  BY <1>1, <1>8, <1>9, <1>10, EventKeeps

LEMMA SubmitBusyKeeps ==
  ASSUME ViewGoes, SubmitBusy
  PROVE  ViewGoes'
<1> DEFINE x == AddLog(view, "system")
<1>1. /\ view.created + 1 <= MaxIds /\ view' = [x EXCEPT !.noticed = TRUE]
      /\ UNCHANGED <<loopAt, shownRun, stopped, said>>
  BY DEF SubmitBusy, Room
<1>2. Sound(view, said) /\ view.created \in Nat
  BY DEF ViewGoes, Sound, IsView
<1>3. Stepped(view, x, said, 1)
  BY <1>2, AddLogStep DEF Kinds
<1>4. Sound(x, said) /\ Trimmed(x) /\ IsView(x) /\ DOMAIN x = Fields /\ x.created <= view.created + 1
  BY <1>3 DEF Stepped, Sound, IsView
<1> HIDE DEF x
<1>5. /\ DOMAIN view' = Fields /\ view'.log = x.log /\ view'.created = x.created
      /\ view'.answering = x.answering /\ view'.reasoning = x.reasoning
      /\ view'.status \in Going /\ view'.running \subseteq RunIds \X {1, 2}
  BY <1>1, <1>4 DEF Fields, IsView
<1>6. Stepped(view, view', said, 1)
  BY <1>4, <1>5, SameLogSound DEF Stepped, Trimmed
<1>7. view.created + 1 <= MaxIds + 3 /\ 1 \in 0 .. 3
  BY <1>1, <1>2, ViewAssumption
<1>8. QED
  BY <1>1, <1>6, <1>7, EventKeeps DEF ViewGoes

\* A loop that returns or throws: at most an entry and the end of its run.
LEMMA LoopEndsStep ==
  ASSUME ViewGoes, NEW r \in RunIds, NEW v, NEW s, Sound(v, s), Trimmed(v), Returns(r, v) \/ Throws(r, v)
  PROVE  Stepped(v, view', s, 1) /\ loopAt' \in [RunIds -> LoopType]
<1>1. v.created \in Nat
  BY DEF Sound, IsView
<1>2. /\ \/ view' = v \/ view' = RunEnd(v, FALSE) \/ view' = RunEnd(AddLog(v, "system"), FALSE)
      /\ \E stage \in {"gone", "saving", "stopping"} : loopAt' = [loopAt EXCEPT ![r] = At(stage)]
  BY Zenon DEF Returns, Throws, Stands
<1>3. loopAt' \in [RunIds -> LoopType]
  BY <1>2, RunTyped
<1>4. CASE view' = v
  BY <1>1, <1>3, <1>4 DEF Stepped
<1>5. CASE view' = RunEnd(v, FALSE)
  <2>1. Stepped(v, view', s, 0)
    BY <1>5, RunEndStep
  <2>2. view'.created \in Nat
    BY <2>1 DEF Stepped, Sound, IsView
  <2>3. QED
    BY <1>1, <1>3, <2>1, <2>2 DEF Stepped
<1>6. CASE view' = RunEnd(AddLog(v, "system"), FALSE)
  BY <1>3, <1>6, ClosedStep
<1>7. QED
  BY <1>2, <1>3, <1>4, <1>5, <1>6

\* The same, of the view as it is.
LEMMA LoopEndsKeeps ==
  ASSUME ViewGoes, NEW r \in RunIds, Returns(r, view) \/ Throws(r, view),
         view.created + 1 <= MaxIds, WaitsFor(shownRun', stopped'), UNCHANGED said
  PROVE  ViewGoes'
<1>1. Sound(view, said) /\ Trimmed(view) /\ view.created \in Nat
  BY DEF ViewGoes, Sound, IsView
<1>2. Stepped(view, view', said, 1) /\ loopAt' \in [RunIds -> LoopType]
  BY <1>1, LoopEndsStep
<1>3. view.created + 1 <= MaxIds + 3 /\ 1 \in 0 .. 3
  BY <1>1, ViewAssumption
<1>4. QED
  BY <1>2, <1>3, EventKeeps

LEMMA AskKeeps ==
  ASSUME ViewGoes, NEW r \in RunIds, Ask(r)
  PROVE  ViewGoes'
<1>1. /\ view.created + 1 <= MaxIds /\ UNCHANGED <<shownRun, stopped, said>>
      /\ WaitsFor(shownRun', stopped')
  BY DEF Ask, Room, ViewGoes
<1>2. CASE Returns(r, view) \/ Throws(r, view)
  BY <1>1, <1>2, LoopEndsKeeps
<1>3. CASE loopAt' = [loopAt EXCEPT ![r] = At("asked")] /\ view' = ModelRequest(view)
  <2>1. Sound(view, said) /\ Trimmed(view) /\ IsView(view) /\ DOMAIN view = Fields /\ view.created \in Nat
        /\ view.created <= MaxIds + 3
    BY DEF ViewGoes, Sound, IsView
  <2>2. /\ DOMAIN view' = Fields /\ view'.log = view.log /\ view'.created = view.created
        /\ view'.answering = view.answering /\ view'.reasoning = view.reasoning
        /\ view'.status \in Going /\ view'.running \subseteq RunIds \X {1, 2}
    BY <1>3, <2>1 DEF ModelRequest, Fields, IsView, Going, Statuses
  <2>3. Stepped(view, view', said, 0)
    BY <2>1, <2>2, SameLogSound DEF Stepped, Trimmed
  <2>4. 0 \in 0 .. 3 /\ view.created + 0 <= MaxIds + 3
    BY <2>1
  <2>5. QED
    BY <1>1, <1>3, <2>3, <2>4, RunTyped, EventKeeps
<1>4. QED
  BY <1>2, <1>3 DEF Ask, Stands

LEMMA DeltaKeeps ==
  ASSUME ViewGoes, NEW r \in RunIds, Delta(r)
  PROVE  ViewGoes'
<1>1. /\ view.created + 1 <= MaxIds /\ view' \in {AssistantDelta(view), ReasoningDelta(view)}
      /\ UNCHANGED <<loopAt, shownRun, stopped, said>>
  BY DEF Delta, Room
<1>2. Sound(view, said) /\ Trimmed(view) /\ view.created \in Nat
  BY DEF ViewGoes, Sound, IsView
<1>3. Stepped(view, view', said, 1)
  BY <1>1, <1>2, DeltaStep
<1>4. view.created + 1 <= MaxIds + 3 /\ 1 \in 0 .. 3
  BY <1>1, <1>2, ViewAssumption
<1>5. QED
  BY <1>1, <1>3, <1>4, EventKeeps DEF ViewGoes

LEMMA RespondKeeps ==
  ASSUME ViewGoes, NEW r \in RunIds, Respond(r)
  PROVE  ViewGoes'
<1> DEFINE Called(calls, batch) == [stage |-> "called", now |-> batch, next |-> calls \ batch]
           Rest(v) ==
      \/ Returns(r, v) \/ Throws(r, v)
      \/ view' = v /\ loopAt' = [loopAt EXCEPT ![r] = At("due")]
      \/ \E calls \in {{1}, {1, 2}} : \E batch \in {{1}, calls} :
           /\ view' = ToolCalls(v, r, batch)
           /\ loopAt' = [loopAt EXCEPT ![r] = Called(calls, batch)]
<1>1. /\ view.created + 3 <= MaxIds /\ UNCHANGED <<shownRun, stopped>>
      /\ \/ said' = Append(said, AnswerEntry(view)) /\ Rest(ModelResponse(view, Len(said) + 1))
         \/ said' = Append(said, 0) /\ Rest(ModelResponse(view, 0))
  BY Zenon DEF Respond, Room, Stands
<1>2. Sound(view, said) /\ Trimmed(view) /\ view.created \in Nat
  BY DEF ViewGoes, Sound, IsView
<1>3. ASSUME NEW v, Stepped(view, v, said', 1), Rest(v)
      PROVE  ViewGoes'
  <2>1. Sound(v, said') /\ Trimmed(v) /\ v.created <= view.created + 1 /\ v.created \in Nat
    BY <1>3 DEF Stepped, Sound, IsView
  <2>2. /\ Stepped(v, view', said', 2)
        /\ loopAt' \in [RunIds -> LoopType]
    <3>1. CASE view' = v /\ loopAt' = [loopAt EXCEPT ![r] = At("due")]
      BY <2>1, <3>1, RunTyped DEF Stepped
    <3>2. CASE Returns(r, v) \/ Throws(r, v)
      <4>1. Stepped(v, view', said', 1) /\ loopAt' \in [RunIds -> LoopType]
        BY <2>1, <3>2, LoopEndsStep
      <4>2. view'.created \in Nat
        BY <4>1 DEF Stepped, Sound, IsView
      <4>3. Stepped(v, view', said', 2)
        BY <2>1, <4>1, <4>2 DEF Stepped
      <4>4. QED
        BY <4>1, <4>3
    <3>3. ASSUME NEW calls \in {{1}, {1, 2}}, NEW batch \in {{1}, calls}, view' = ToolCalls(v, r, batch),
                 loopAt' = [loopAt EXCEPT ![r] = Called(calls, batch)]
          PROVE  Stepped(v, view', said', 2) /\ loopAt' \in [RunIds -> LoopType]
      <4>1. batch \in SUBSET {1, 2} /\ batch # {} /\ calls \ batch \in SUBSET {1, 2}
        OBVIOUS
      <4>2. Stepped(v, view', said', 2)
        BY <2>1, <3>3, <4>1, ToolCallsStep
      <4>3. Called(calls, batch) \in LoopType
        BY <4>1 DEF LoopType
      <4>4. QED
        BY <3>3, <4>2, <4>3 DEF ViewGoes
    <3>4. QED
      BY <1>3, <3>1, <3>2, <3>3
  <2>3. Sound(view', said') /\ Trimmed(view') /\ view'.created <= v.created + 2 /\ view'.created \in Nat
    <3>1. Sound(view', said') /\ Trimmed(view') /\ view'.created <= v.created + 2
      BY <2>2, Zenon DEF Stepped
    <3>2. QED
      BY <3>1, Zenon DEF Sound, IsView
  <2>4. view'.created <= MaxIds + 3
    <3>1. MaxIds \in Nat /\ v.created \in Nat /\ v.created + 2 <= MaxIds + 3
      BY <1>1, <1>2, <2>1, ViewAssumption
    <3>2. QED
      BY <2>3, <3>1
  <2>5. QED
    BY <1>1, <2>2, <2>3, <2>4 DEF ViewGoes
<1> HIDE DEF Rest
<1>4. Stepped(view, ModelResponse(view, Len(said) + 1), Append(said, AnswerEntry(view)), 1)
  BY <1>2, AnswerStep
<1>5. Stepped(view, ModelResponse(view, 0), Append(said, 0), 1)
  BY <1>2, SilentAnswerStep
<1>6. QED
  BY <1>1, <1>3, <1>4, <1>5

LEMMA BatchDoneKeeps ==
  ASSUME ViewGoes, NEW r \in RunIds, BatchDone(r)
  PROVE  ViewGoes'
<1>1. /\ view.created + 1 <= MaxIds /\ UNCHANGED <<shownRun, stopped, said>> /\ WaitsFor(shownRun', stopped')
      /\ loopAt \in [RunIds -> LoopType] /\ loopAt[r] \in LoopType
  BY DEF BatchDone, Room, ViewGoes
<1>2. Sound(view, said) /\ Trimmed(view) /\ view.created \in Nat
  BY DEF ViewGoes, Sound, IsView
<1>3. CASE loopAt' = [loopAt EXCEPT ![r].stage = "reporting"] /\ UNCHANGED view
  <2>1. [loopAt[r] EXCEPT !.stage = "reporting"] \in LoopType
    BY <1>1 DEF LoopType
  <2>2. loopAt' \in [RunIds -> LoopType]
    BY <1>1, <1>3, <2>1
  <2>3. QED
    BY <1>1, <1>3, <2>2, QuietKeeps
<1>4. CASE Throws(r, view)
  BY <1>1, <1>4, LoopEndsKeeps
<1>5. CASE /\ loopAt[r].next # {} /\ view' = ToolCalls(view, r, loopAt[r].next)
           /\ loopAt' = [loopAt EXCEPT ![r] = Announced(loopAt[r])]
  <2>1. loopAt[r].next \in SUBSET {1, 2} /\ loopAt[r].next # {}
    BY <1>1, <1>5 DEF LoopType
  <2>2. Stepped(view, view', said, 2)
    BY <1>2, <1>5, <2>1, ToolCallsStep
  <2>3. Announced(loopAt[r]) \in LoopType
    BY <1>1 DEF LoopType, Announced
  <2>4. loopAt' \in [RunIds -> LoopType]
    BY <1>1, <1>5, <2>3
  <2>5. view.created + 2 <= MaxIds + 3 /\ 2 \in 0 .. 3
    BY <1>1, <1>2, ViewAssumption
  <2>6. QED
    BY <1>1, <2>2, <2>4, <2>5, EventKeeps
<1>6. QED
  BY <1>3, <1>4, <1>5 DEF BatchDone

LEMMA ReportResultKeeps ==
  ASSUME ViewGoes, NEW r \in RunIds, ReportResult(r)
  PROVE  ViewGoes'
<1> DEFINE c == CHOOSE c \in loopAt[r].now : \A d \in loopAt[r].now : c <= d
           rest == loopAt[r].now \ {c}
<1>1. /\ view.created + 1 <= MaxIds /\ UNCHANGED <<shownRun, stopped, said>> /\ WaitsFor(shownRun', stopped')
      /\ loopAt \in [RunIds -> LoopType] /\ loopAt[r] \in LoopType
  BY DEF ReportResult, Room, ViewGoes
<1>2. Sound(view, said) /\ Trimmed(view) /\ view.created \in Nat
  BY DEF ViewGoes, Sound, IsView
<1>3. /\ view' = ToolResult(view, r, c)
      /\ loopAt' = [loopAt EXCEPT ![r] = IF rest = {} THEN At("due") ELSE [@ EXCEPT !.now = rest]]
  BY Zenon DEF ReportResult
<1>4. rest \in SUBSET {1, 2}
  BY <1>1 DEF LoopType
<1> HIDE DEF c, rest
<1>5. Stepped(view, view', said, 1)
  BY <1>2, <1>3, ToolResultStep
<1>6. loopAt' \in [RunIds -> LoopType]
  <2>1. At("due") \in LoopType
    BY AtTyped
  <2>2. [loopAt[r] EXCEPT !.now = rest] \in LoopType
    BY <1>1, <1>4 DEF LoopType
  <2>3. QED
    BY <1>1, <1>3, <2>1, <2>2
<1>7. view.created + 1 <= MaxIds + 3 /\ 1 \in 0 .. 3
  BY <1>1, <1>2, ViewAssumption
<1>8. QED
  BY <1>1, <1>5, <1>6, <1>7, EventKeeps

\* A run that is not waited for any more, or is settled.
LEMMA RunOverKeeps ==
  ASSUME ViewGoes, NEW r \in RunIds, RunThrows(r) \/ TimeOut(r) \/ FinishTurn(r) \/ SavingStopped(r)
  PROVE  ViewGoes'
<1> DEFINE Ends == view' = view \/ \E u \in {AddError(view)} : view' = RunEnd(u, TRUE)
           Over == loopAt' = loopAt \/ loopAt' = [loopAt EXCEPT ![r] = At("gone")]
           Waits == (shownRun' = shownRun /\ stopped' = stopped) \/ (shownRun' = 0 /\ stopped' = FALSE)
<1>1. /\ view.created + 1 <= MaxIds /\ UNCHANGED said
      /\ \/ Waits /\ (Returns(r, view) \/ Throws(r, view))
         \/ Waits /\ Ends /\ Over
  <2>1. CASE RunThrows(r)
    <3>1. /\ view.created + 1 <= MaxIds /\ UNCHANGED <<stopped, said>>
          /\ \/ Throws(r, view) /\ UNCHANGED shownRun
             \/ /\ ~Aborted(r) /\ view' = RunEnd(AddError(view), TRUE)
                /\ loopAt' = [loopAt EXCEPT ![r] = At("gone")] /\ shownRun' = 0
      BY <2>1, Zenon DEF RunThrows, Room, Stands
    <3>2. ~Aborted(r) => stopped = FALSE
      BY DEF Aborted, ViewGoes, WaitsFor
    <3>3. QED
      BY <3>1, <3>2, Zenon
  <2>2. CASE TimeOut(r)
    BY <2>2, Zenon DEF TimeOut, Room
  <2>3. CASE FinishTurn(r)
    <3>1. view' = view \/ view' = RunEnd(AddError(view), TRUE)
      BY <2>3 DEF FinishTurn
    <3>2. QED
      BY <2>3, <3>1, Zenon DEF FinishTurn, Room, Stands
  <2>4. CASE SavingStopped(r)
    BY <2>4, Zenon DEF SavingStopped, Room
  <2>5. QED
    BY <2>1, <2>2, <2>3, <2>4, Zenon
<1>2. Sound(view, said) /\ Trimmed(view) /\ view.created \in Nat
  BY DEF ViewGoes, Sound, IsView
<1>3. Waits => WaitsFor(shownRun', stopped')
  <2>1. WaitsFor(shownRun, stopped) /\ 0 \in 0 .. MaxRuns
    BY ViewAssumption DEF ViewGoes
  <2>2. ASSUME shownRun' = 0, stopped' = FALSE
        PROVE  WaitsFor(shownRun', stopped')
    BY <2>1, <2>2 DEF WaitsFor
  <2>3. QED
    BY <2>1, <2>2
<1>4. Over => loopAt' \in [RunIds -> LoopType]
  BY RunTyped DEF ViewGoes
<1>5. CASE Waits /\ (Returns(r, view) \/ Throws(r, view))
  BY <1>1, <1>3, <1>5, LoopEndsKeeps
<1>6. CASE Waits /\ Over /\ view' = view
  BY <1>1, <1>3, <1>4, <1>6, QuietKeeps
<1>7. CASE Waits /\ Over /\ view' = RunEnd(AddError(view), TRUE)
  <2>1. Stepped(view, view', said, 1)
    BY <1>2, <1>7, ClosedStep
  <2>2. view.created + 1 <= MaxIds + 3 /\ 1 \in 0 .. 3
    BY <1>1, <1>2, ViewAssumption
  <2>3. QED
    BY <1>1, <1>3, <1>4, <1>7, <2>1, <2>2, EventKeeps
<1>8. QED
  BY <1>1, <1>5, <1>6, <1>7

LEMMA InterruptRunKeeps ==
  ASSUME ViewGoes, NEW r \in RunIds, InterruptRun(r)
  PROVE  ViewGoes'
<1>1. shownRun = r /\ stopped' = TRUE /\ UNCHANGED <<view, loopAt, shownRun, said>>
  BY DEF InterruptRun
<1>2. WaitsFor(shownRun', stopped')
  <2>1. r # 0
    BY DEF RunIds
  <2>2. QED
    BY <1>1, <2>1 DEF ViewGoes, WaitsFor
<1>3. QED
  BY <1>1, <1>2, QuietKeeps DEF ViewGoes

-------------------------------------------------------------------------------
(* The sessions.                                                             *)

\* An empty log holds no answer, and owes none.
LEMMA EmptySound ==
  ASSUME NEW v, NEW s, IsView(v), v.log = <<>>, s \in Seq(Nat), \A k \in 1 .. Len(s) : s[k] = 0
  PROVE  Sound(v, s)
<1>1. Len(v.log) = 0 /\ v.created \in Nat
  BY DEF IsView
<1>2. Ordered(v) /\ Streamed(v) /\ Held(v, s)
  BY <1>1 DEF Ordered, Streamed, Held
<1>3. Told(v, s)
  <2>1. \A k \in 1 .. Len(s) : \A j \in 1 .. k - 1 : s[k] = 0
    OBVIOUS
  <2>2. QED
    BY <1>1, <2>1 DEF Told
<1>4. QED
  BY <1>2, <1>3 DEF Sound

LEMMA EmptiedSaid ==
  ASSUME ViewGoes, Emptied
  PROVE  said' \in Seq(Nat) /\ \A k \in 1 .. Len(said') : said'[k] = 0
<1>1. said \in Seq(Nat) /\ DOMAIN said = 1 .. Len(said) /\ Len(said) \in Nat
  BY DEF ViewGoes, Sound, Told
<1>2. said' = [n \in 1 .. Len(said) |-> 0]
  BY <1>1 DEF Emptied
<1>3. QED
  BY <1>1, <1>2

LEMMA ClearLogKeeps ==
  ASSUME ViewGoes, ClearLog
  PROVE  ViewGoes'
<1> DEFINE u == [view EXCEPT !.log = <<>>]
<1>1. /\ view.created + 1 <= MaxIds /\ view' = AddLog(u, "system") /\ Emptied /\ UNCHANGED <<loopAt, shownRun, stopped>>
  BY DEF ClearLog, Room
<1>2. IsView(view) /\ DOMAIN view = Fields /\ view.created \in Nat
  BY DEF ViewGoes, Sound, IsView
<1>3. IsView(u) /\ u.log = <<>> /\ u.created = view.created
  BY <1>2 DEF IsView, Fields
<1> HIDE DEF u
<1>4. Sound(u, said')
  BY <1>1, <1>3, EmptiedSaid, EmptySound
<1>5. Stepped(u, view', said', 1)
  BY <1>1, <1>4, AddLogStep DEF Kinds
<1>6. Sound(view', said') /\ Trimmed(view') /\ view'.created <= MaxIds + 3
  <2>1. view'.created <= u.created + 1 /\ view'.created \in Nat
    BY <1>5 DEF Stepped, Sound, IsView
  <2>2. view'.created <= MaxIds + 3
    BY <1>1, <1>2, <1>3, <2>1, ViewAssumption
  <2>3. QED
    BY <1>5, <2>2 DEF Stepped
<1>7. QED
  BY <1>1, <1>6 DEF ViewGoes

LEMMA EmptyViewTyped ==
  ASSUME NEW n \in Nat
  PROVE  IsView([EmptyView EXCEPT !.created = n])
BY DEF IsView, EmptyView, Fields, Going, Statuses

LEMMA ResetViewKeeps ==
  ASSUME ViewGoes, ResetView
  PROVE  ViewGoes'
<1>1. view' = [EmptyView EXCEPT !.created = view.created] /\ Emptied /\ UNCHANGED <<loopAt, shownRun, stopped>>
  BY DEF ResetView
<1>2. view.created \in Nat /\ view.created <= MaxIds + 3
  BY DEF ViewGoes, Sound, IsView
<1>3. IsView(view')
  BY <1>1, <1>2, EmptyViewTyped
<1>4. view'.log = <<>> /\ view'.created = view.created
  BY <1>1 DEF EmptyView
<1>5. Sound(view', said')
  BY <1>1, <1>3, <1>4, EmptiedSaid, EmptySound
<1>6. Trimmed(view')
  BY <1>4, ViewAssumption DEF Trimmed
<1>7. QED
  BY <1>1, <1>2, <1>4, <1>5, <1>6 DEF ViewGoes

LEMMA RestoreMessagesKeeps ==
  ASSUME ViewGoes, RestoreMessages
  PROVE  ViewGoes'
<1> DEFINE u == [view EXCEPT !.log = <<>>]
           x == AddLog(u, "user")
<1>1. /\ view.created + 2 <= MaxIds /\ view.created = 0 /\ view' = AddLog(x, "assistant")
      /\ UNCHANGED <<loopAt, shownRun, stopped, said>>
  BY DEF RestoreMessages, Room
<1>2. IsView(view) /\ DOMAIN view = Fields /\ view.created \in Nat /\ Told(view, said) /\ said \in Seq(Nat)
  BY DEF ViewGoes, Sound, IsView, Told
<1>3. IsView(u) /\ u.log = <<>> /\ u.created = view.created
  BY <1>2 DEF IsView, Fields
<1>4. \A k \in 1 .. Len(said) : said[k] = 0
  <2>1. \A k \in 1 .. Len(said) : said[k] \in Nat /\ said[k] <= 0
    BY <1>1, <1>2 DEF Told
  <2>2. QED
    BY <2>1
<1> HIDE DEF u
<1>5. Sound(u, said)
  BY <1>2, <1>3, <1>4, EmptySound
<1>6. Stepped(u, x, said, 1)
  BY <1>5, AddLogStep DEF Kinds
<1>7. Sound(x, said) /\ x.created <= u.created + 1 /\ x.created \in Nat
  BY <1>6 DEF Stepped, Sound, IsView
<1> HIDE DEF x
<1>8. Stepped(x, view', said, 1)
  BY <1>1, <1>7, AddLogStep DEF Kinds
<1>9. Sound(view', said) /\ Trimmed(view') /\ view'.created <= x.created + 1 /\ view'.created \in Nat
  BY <1>8 DEF Stepped, Sound, IsView
<1>10. view'.created <= MaxIds + 3
  BY <1>1, <1>2, <1>3, <1>7, <1>9, ViewAssumption
<1>11. QED
  BY <1>1, <1>9, <1>10 DEF ViewGoes

\* Before the view is open nothing happens.
ViewUnopened ==
  /\ view = [EmptyView EXCEPT !.status = "blank"] /\ said = <<>>
  /\ loopAt = [r \in RunIds |-> At("unborn")] /\ shownRun = 0 /\ ~stopped /\ stopped \in BOOLEAN

ViewInv == ViewUnopened \/ ViewGoes

LEMMA OpenViewKeeps ==
  ASSUME ViewUnopened, OpenView
  PROVE  ViewGoes'
<1>1. view' = EmptyView /\ UNCHANGED <<loopAt, shownRun, stopped, said>>
  BY DEF OpenView
<1>2. IsView(EmptyView) /\ EmptyView.log = <<>> /\ EmptyView.created = 0
  BY DEF EmptyView, IsView, Fields, Going, Statuses
<1>3. said \in Seq(Nat) /\ \A k \in 1 .. Len(said) : said[k] = 0
  BY DEF ViewUnopened
<1>4. Sound(EmptyView, said)
  BY <1>2, <1>3, EmptySound
<1>5. Trimmed(EmptyView) /\ EmptyView.created <= MaxIds + 3
  BY <1>2, ViewAssumption DEF Trimmed
<1>6. WaitsFor(0, FALSE) /\ stopped = FALSE
  BY ViewAssumption DEF WaitsFor, ViewUnopened
<1>7. loopAt \in [RunIds -> LoopType]
  BY AtTyped DEF ViewUnopened
<1>8. QED
  BY <1>1, <1>4, <1>5, <1>6, <1>7 DEF ViewGoes, ViewUnopened

\* And nothing else can.
LEMMA UnopenedOpens ==
  ASSUME ViewUnopened, ViewNext
  PROVE  OpenView
<1>1. view.status = "blank" /\ \A r \in RunIds : loopAt[r].stage = "unborn"
  BY DEF ViewUnopened, EmptyView, At
<1>2. \A n : ~Room(n)
  BY <1>1 DEF Room
<1>3. ~SubmitBusy /\ ~ClearLog /\ ~ResetView /\ ~RestoreMessages
  BY <1>2, Zenon DEF SubmitBusy, ClearLog, ResetView, RestoreMessages
<1>4. ASSUME NEW r \in RunIds
      PROVE  ~RunEvent(r)
  <2>1. /\ ~SubmitTurn(r) /\ ~Delta(r) /\ ~Respond(r) /\ ~BatchDone(r) /\ ~ReportResult(r)
        /\ ~Ask(r) /\ ~RunThrows(r) /\ ~TimeOut(r) /\ ~InterruptRun(r) /\ ~FinishTurn(r) /\ ~SavingStopped(r)
    BY <1>2, Zenon DEF SubmitTurn, Ask, Delta, Respond, BatchDone, ReportResult, RunThrows, TimeOut,
       InterruptRun, FinishTurn, SavingStopped
  <2>2. QED
    BY <2>1 DEF RunEvent
<1>5. QED
  BY <1>3, <1>4 DEF ViewNext

LEMMA ViewGoesOn ==
  ASSUME ViewGoes, ViewNext
  PROVE  ViewGoes'
<1>1. ~OpenView
  BY DEF OpenView, ViewGoes, Sound, IsView, Going
<1>2. ASSUME NEW r \in RunIds, RunEvent(r)
      PROVE  ViewGoes'
  BY <1>2, SubmitTurnKeeps, AskKeeps, DeltaKeeps, RespondKeeps, BatchDoneKeeps, ReportResultKeeps,
     RunOverKeeps, InterruptRunKeeps
     DEF RunEvent
<1>3. QED
  BY <1>1, <1>2, SubmitBusyKeeps, ClearLogKeeps, ResetViewKeeps, RestoreMessagesKeeps DEF ViewNext

\* Whatever the events of runs given up and of those that follow them, and of which
\* the browser is told in any order, an answer stays whole in an entry of its own
\* (src/web/state.ts).
THEOREM ViewIsSound == ViewSpec => []ViewSound
<1>1. ViewBlank => ViewInv
  BY DEF ViewBlank, ViewInv, ViewUnopened
<1>2. ViewInv /\ [ViewNext]_viewVars => ViewInv'
  <2> SUFFICES ASSUME ViewInv, [ViewNext]_viewVars PROVE ViewInv'
    OBVIOUS
  <2>1. CASE ViewUnopened /\ ViewNext
    BY <2>1, UnopenedOpens, OpenViewKeeps DEF ViewInv
  <2>2. CASE ViewGoes /\ ViewNext
    BY <2>2, ViewGoesOn DEF ViewInv
  <2>3. CASE UNCHANGED viewVars
    BY <2>3 DEF viewVars, ViewInv, ViewUnopened, ViewGoes
  <2>4. QED
    BY <2>1, <2>2, <2>3 DEF ViewInv
<1>3. ViewInv => ViewSound
  <2>1. ASSUME ViewUnopened PROVE ViewSound
    <3>1. view.log = <<>> /\ view.status = "blank" /\ view.created = 0 /\ view.running = {} /\ said = <<>>
          /\ shownRun = 0 /\ ~stopped /\ stopped \in BOOLEAN
      BY <2>1 DEF ViewUnopened, EmptyView
    <3>2. QED
      BY <3>1, ViewAssumption DEF ViewSound, ViewTypeOK, AnswersShown, Statuses
  <2>2. QED
    BY <2>1, GoingSound DEF ViewInv
<1>4. QED
  BY <1>1, <1>2, <1>3, PTL DEF ViewSpec

-------------------------------------------------------------------------------
(* Both ends.                                                                *)

\* A step of the web chat is a step or a stutter of each end.
LEMMA WebStep ==
  [WebNext]_webVars => [WebChatNext]_vars /\ [ViewNext]_viewVars
BY Zenon DEF WebNext, webVars

\* Each end runs as it does alone.
THEOREM WebRunsItsParts == WebSpec => WebChatSpec /\ ViewSpec
BY WebStep, PTL DEF WebSpec, WebInit, WebChatSpec, ViewSpec

\* What is proved of the sessions and of the view holds of both side by side.
THEOREM WebIsSound == WebSpec => [](SerialInContext /\ SessionsNotMixed /\ AnswersKept /\ ViewSound)
BY WebRunsItsParts, ChatsSerial, ChatsApart, AnswersAreKept, ViewIsSound, PTL
=============================================================================
