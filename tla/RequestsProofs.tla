----------------------------- MODULE RequestsProofs ---------------------------
(***************************************************************************)
(* Proofs about a request on its way to a model.  Of the view: it always   *)
(* shows the latest question, since a compaction keeps it (KeepsQuestion); *)
(* what it leaves out is accounted for (AccountedIn); and it parts no      *)
(* result from the message that asked for it, since results follow their   *)
(* message in every session the program writes (SegInv).                   *)
(* Of the passes before it: PassInv says how they spare what the model has *)
(* not read, and what a restore after a compaction gives back.             *)
(* Of the bodies: ReqInv says what shape a session has when a request is   *)
(* made of it, and what a body tells is put together part by part.         *)
(* Of the routing: RoutingInv says what a settled command promises about   *)
(* the registry that is filled from it.  Of the stream: StreamFollowed     *)
(* says what a client has heard of what was sent, event by event.          *)
(***************************************************************************)
EXTENDS Requests, TLAPS, WellFoundedInduction, SequenceTheorems, FiniteSetTheorems

\* A nonempty set of positions has a least one; the search for a cut point
\* ends there at the latest.
LEMMA LeastExists ==
  ASSUME NEW S \in SUBSET Nat, S # {}
  PROVE  \E x \in S : \A y \in S : x <= y
<1> DEFINE R == OpToRel(<, Nat)
<1>1. \E x \in S : \A y \in S : ~ (<<y, x>> \in R)
  BY NatLessThanWellFounded, WFMin, Zenon
<1>2. \A x, y \in Nat : y < x => <<y, x>> \in R
  BY DEF OpToRel
<1>3. \E x \in S : \A y \in S : ~ (y < x)
  <2> HIDE DEF R
  <2> QED
    BY <1>1, <1>2, Zenon
<1>4. QED
  BY <1>3

\* A nonempty set of positions of a session has a greatest one, which the
\* code finds by counting down (latestEntryOfKind, latestCompaction).
LEMMA GreatestExists ==
  ASSUME NEW n \in Nat, NEW S \in SUBSET (1 .. n), S # {}
  PROVE  \E x \in S : \A y \in S : y <= x
<1> DEFINE T == {n - x : x \in S}
<1>1. T \in SUBSET Nat /\ T # {}
  OBVIOUS
<1>2. PICK m \in T : \A t \in T : m <= t
  BY <1>1, LeastExists
<1>3. PICK x \in S : m = n - x
  BY <1>2
<1>4. \A y \in S : n - y \in T
  OBVIOUS
<1> HIDE DEF T
<1>5. \A y \in S : y <= x
  BY <1>2, <1>3, <1>4
<1>6. QED
  BY <1>5

\* Latest picks that position.
LEMMA LatestIsGreatest ==
  ASSUME NEW n \in Nat, NEW S \in SUBSET (1 .. n), S # {}
  PROVE  Latest(S) \in S /\ \A j \in S : j <= Latest(S)
BY GreatestExists DEF Latest

----------------------------------------
(* Where a compaction cuts.                                                *)

\* The search stops at an entry that is no result, or at the first there is.
LEMMA PastResultsStops ==
  ASSUME ContextTypeOK, NEW k \in Compactable
  PROVE  /\ PastResults(k) \in Compactable /\ PastResults(k) <= k
         /\ ~Is(PastResults(k), "tool_result") \/ Earlier(Compactable, PastResults(k)) = {}
<1>1. Len(entries) \in Nat /\ Compactable \in SUBSET (1 .. Len(entries))
  BY DEF ContextTypeOK, Compactable
<1> DEFINE Stops == {i \in Compactable : i <= k /\ (~Is(i, "tool_result") \/ Earlier(Compactable, i) = {})}
<1>2. PICK least \in Compactable : \A j \in Compactable : least <= j
  <2>1. Compactable \in SUBSET Nat /\ Compactable # {}
    BY <1>1
  <2>2. QED
    BY <2>1, LeastExists
<1>3. least \in Stops
  <2> HIDE DEF Stops
  <2>1. \A j \in Compactable : ~ (j < least)
    BY <1>1, <1>2
  <2>2. Earlier(Compactable, least) = {}
    BY <2>1, Zenon DEF Earlier
  <2>3. least <= k
    BY <1>2
  <2>4. QED
    BY <2>2, <2>3 DEF Stops
<1>4. PastResults(k) = Latest(Stops)
  BY DEF PastResults
<1>5. Stops \in SUBSET (1 .. Len(entries)) /\ Stops # {}
  BY <1>1, <1>3
<1>6. PastResults(k) \in Stops
  BY <1>1, <1>4, <1>5, LatestIsGreatest
<1>7. QED
  BY <1>6

\* However far the search went and however the cut is moved to the boundary of
\* a pair, it moves towards the beginning.
LEMMA KeepStartBounds ==
  ASSUME ContextTypeOK, NEW k \in Compactable
  PROVE  KeepStart(k) \in Compactable /\ KeepStart(k) <= k
<1>1. Len(entries) \in Nat /\ Compactable \in SUBSET (1 .. Len(entries))
  BY DEF ContextTypeOK, Compactable
<1>7. PastResults(k) \in Compactable /\ PastResults(k) <= k
  BY PastResultsStops
<1> DEFINE Older == Earlier(Compactable, PastResults(k))
<1>8. ASSUME Older # {}
      PROVE  Latest(Older) \in Compactable /\ Latest(Older) < PastResults(k)
  <2>1. Older \in SUBSET Compactable
    BY DEF Earlier
  <2>2. Latest(Older) \in Older
    BY <1>1, <1>8, <2>1, LatestIsGreatest, Zenon
  <2>3. QED
    BY <2>2 DEF Earlier
<1>9. KeepStart(k) = PastResults(k) \/ (Older # {} /\ KeepStart(k) = Latest(Older))
  BY DEF KeepStart
<1>10. CASE KeepStart(k) = PastResults(k)
  BY <1>7, <1>10, Zenon
<1>11. CASE Older # {} /\ KeepStart(k) = Latest(Older)
  <2> HIDE DEF Older
  <2>1. KeepStart(k) \in Compactable /\ KeepStart(k) < PastResults(k)
    BY <1>8, <1>11, Zenon
  <2>2. k \in Nat /\ PastResults(k) \in Nat /\ KeepStart(k) \in Nat
    <3>1. Compactable \subseteq Nat
      BY <1>1
    <3>2. QED
      BY <1>7, <2>1, <3>1, Zenon
  <2>3. QED
    BY <1>7, <2>1, <2>2
<1>12. QED
  BY <1>9, <1>10, <1>11, Zenon

\* The latest question is never among what a compaction summarises.
LEMMA QuestionNotCut ==
  ASSUME ContextTypeOK, NEW k \in SafeCuts,
         NEW u \in OfKind(DOMAIN entries, "user"),
         \A v \in OfKind(DOMAIN entries, "user") : v <= u
  PROVE  u \in Compactable /\ u \notin Earlier(Compactable, k)
<1>1. PICK j \in Compactable :
        k = KeepStart(j) /\ \E v \in OfKind(Compactable, "user") : v >= j
  BY DEF SafeCuts, CutPoints
<1>2. k \in Compactable /\ k <= j
  BY <1>1, KeepStartBounds
<1>3. PICK v \in OfKind(Compactable, "user") : v >= j
  BY <1>1
<1>4. Compactable \in SUBSET Nat /\ u \in Nat
  BY DEF Compactable, ContextTypeOK, OfKind
<1>5. v \in OfKind(DOMAIN entries, "user") /\ v \in Compactable
  BY <1>3 DEF OfKind, Compactable
<1>6. k <= u
  BY <1>2, <1>3, <1>4, <1>5
<1>7. u \in Compactable
  BY DEF OfKind, Compactable, Is
<1>8. QED
  BY <1>2, <1>4, <1>6, <1>7 DEF Earlier

----------------------------------------
(* Type correctness.                                                       *)

\* What ContextTypeOK says of the entries, of any session.
IsSession(s) ==
  /\ s \in Seq(Entry) /\ s # <<>>
  /\ \A i \in DOMAIN s : s[i].kind = "system" <=> i = 1

\* The entries the program appends.
LEMMA EntriesTyped ==
  /\ \A k \in Kinds : Plain(k) \in Entry /\ Plain(k).kind = k
  /\ \A calls \in SUBSET Calls : Assistant(calls) \in Entry /\ Assistant(calls).kind = "assistant"
  /\ \A c \in Calls : Result(c) \in Entry /\ Result(c).kind = "tool_result"
  /\ \A kept, source \in SUBSET Nat :
       /\ Summary(kept, source) \in Entry
       /\ Summary(kept, source).kind = "compaction"
       /\ Summary(kept, source).kept = kept
<1>1. \A k \in Kinds : Plain(k) \in Entry /\ Plain(k).kind = k
  BY DEF Plain, Entry
<1>2. \A calls \in SUBSET Calls :
        Assistant(calls) = [kind |-> "assistant", calls |-> calls, kept |-> {}, source |-> {}]
  BY DEF Assistant, Plain
<1>3. \A c \in Calls :
        Result(c) = [kind |-> "tool_result", calls |-> {c}, kept |-> {}, source |-> {}]
  BY DEF Result, Plain
<1>4. \A calls \in SUBSET Calls : Assistant(calls) \in Entry /\ Assistant(calls).kind = "assistant"
  BY <1>2 DEF Entry, Kinds
<1>5. \A c \in Calls : Result(c) \in Entry /\ Result(c).kind = "tool_result"
  BY <1>3 DEF Entry, Kinds
<1>6. ASSUME NEW kept \in SUBSET Nat, NEW source \in SUBSET Nat
      PROVE  /\ Summary(kept, source) \in Entry
             /\ Summary(kept, source).kind = "compaction"
             /\ Summary(kept, source).kept = kept
  BY <1>6 DEF Summary, Entry, Kinds
<1>7. QED
  BY <1>1, <1>4, <1>5, <1>6

\* The system prompt stays the only system entry of a session that grows.
LEMMA AppendSession ==
  ASSUME NEW s, IsSession(s), NEW e \in Entry, e.kind # "system"
  PROVE  IsSession(Append(s, e))
<1>1. s \in Seq(Entry) /\ Len(s) >= 1
  BY DEF IsSession
<1>2. Append(s, e) \in Seq(Entry) /\ Append(s, e) # <<>>
  BY <1>1
<1>3. ASSUME NEW i \in DOMAIN Append(s, e)
      PROVE  Append(s, e)[i].kind = "system" <=> i = 1
  <2>1. CASE i \in DOMAIN s
    BY <1>1, <2>1 DEF IsSession
  <2>2. CASE i = Len(s) + 1
    BY <1>1, <2>2
  <2>3. QED
    BY <1>1, <1>3, <2>1, <2>2
<1>4. QED
  BY <1>2, <1>3 DEF IsSession

\* An archived session begins with the system prompt too.
LEMMA ArchivedSession ==
  ASSUME NEW s, IsSession(s)
  PROVE  /\ IsSession(Archived(s))
         /\ Archived(s) = s \/ \A i \in DOMAIN Archived(s) : Archived(s)[i].kind # "user"
<1>1. CASE Archived(s) = s
  BY <1>1
<1>2. CASE Archived(s) = <<Plain("system"), Summary({}, 2 .. Len(s))>>
  <2>1. 2 .. Len(s) \in SUBSET Nat /\ {} \in SUBSET Nat
    BY DEF IsSession
  <2>2. /\ Summary({}, 2 .. Len(s)) \in Entry
        /\ Summary({}, 2 .. Len(s)).kind = "compaction"
    BY <2>1, EntriesTyped, Zenon
  <2>3. Plain("system") \in Entry /\ Plain("system").kind = "system"
    BY EntriesTyped DEF Kinds
  <2>4. QED
    BY <1>2, <2>2, <2>3 DEF IsSession
<1>3. QED
  BY <1>1, <1>2 DEF Archived

\* An answer, said or empty, leaves a session.
LEMMA AnsweredSession ==
  ASSUME ContextTypeOK, NEW s \in Answered
  PROVE  IsSession(s)
<1>1. IsSession(entries)
  BY DEF ContextTypeOK, IsSession, Is
<1>2. Assistant({}) \in Entry /\ Assistant({}).kind = "assistant"
  BY EntriesTyped
<1>3. IsSession(Append(entries, Assistant({})))
  BY <1>1, <1>2, AppendSession
<1>4. QED
  BY <1>1, <1>3 DEF Answered

\* What is dropped from a summary's source was in it.
LEMMA SourcesShrink ==
  ASSUME NEW S, NEW rest \in Sources(S)
  PROVE  rest \subseteq S
<1>1. \A T : DropRound(T) \subseteq T
  BY DEF DropRound
<1>2. QED
  BY <1>1 DEF Sources

\* A compaction appends one entry, whatever is left of its source.
LEMMA CompactAppends ==
  ASSUME ContextTypeOK, Compact
  PROVE  \E k \in SafeCuts, rest \in SUBSET Nat :
           /\ entries' = Append(entries, Summary(Compactable \ Earlier(Compactable, k), rest))
           /\ lost' \in SUBSET Nat
           /\ Compactable \ Earlier(Compactable, k) \in SUBSET Nat
<1>1. PICK k \in SafeCuts : \E rest \in Sources(Earlier(Compactable, k)) :
        /\ entries' = Append(entries, Summary(Compactable \ Earlier(Compactable, k), rest))
        /\ lost' = Earlier(Compactable, k) \ rest
  BY DEF Compact
<1>2. PICK rest \in Sources(Earlier(Compactable, k)) :
        /\ entries' = Append(entries, Summary(Compactable \ Earlier(Compactable, k), rest))
        /\ lost' = Earlier(Compactable, k) \ rest
  BY <1>1
<1>3. Compactable \in SUBSET Nat
  BY DEF Compactable, ContextTypeOK
<1>4. Earlier(Compactable, k) \subseteq Compactable
  BY DEF Earlier
<1>5. rest \subseteq Earlier(Compactable, k)
  BY SourcesShrink
<1>6. rest \in SUBSET Nat
  BY <1>3, <1>4, <1>5, Zenon
<1>7. lost' \in SUBSET Nat /\ Compactable \ Earlier(Compactable, k) \in SUBSET Nat
  BY <1>2, <1>3, <1>4
<1>8. QED
  BY <1>2, <1>6, <1>7, Zenon

\* A session starts with its system prompt.
LEMMA ContextInitTyped == ContextInit => ContextTypeOK
<1> SUFFICES ASSUME ContextInit PROVE ContextTypeOK
  OBVIOUS
<1>1. Plain("system") \in Entry /\ Plain("system").kind = "system"
  BY EntriesTyped DEF Kinds
<1>2. entries = <<Plain("system")>> /\ alive = FALSE /\ open = {} /\ lost = {}
  BY DEF ContextInit
<1>3. entries \in Seq(Entry) /\ Len(entries) = 1 /\ entries[1].kind = "system"
  <2>1. \A e \in Entry : <<e>> \in Seq(Entry) /\ Len(<<e>>) = 1 /\ <<e>>[1] = e
    OBVIOUS
  <2>2. QED
    BY <1>1, <1>2, <2>1, Zenon
<1>4. entries # <<>> /\ \A i \in DOMAIN entries : entries[i].kind = "system" <=> i = 1
  <2>1. DOMAIN entries = {1} /\ entries # <<>>
    <3>1. 1 .. 1 = {1}
      OBVIOUS
    <3>2. DOMAIN entries = 1 .. 1
      BY <1>3
    <3>3. \A e : <<e>> # <<>>
      OBVIOUS
    <3>4. QED
      BY <1>2, <3>1, <3>2, <3>3, Zenon
  <2>2. QED
    BY <1>3, <2>1, Zenon
<1>5. alive \in BOOLEAN /\ open \subseteq Calls /\ lost \subseteq Nat
  BY <1>2
<1>6. QED
  BY <1>3, <1>4, <1>5 DEF ContextTypeOK, Is

\* The session's entries are typed and the system prompt is its first and only
\* system entry, also across compactions and archives.
THEOREM ContextTyped == ContextSpec => []ContextTypeOK
<1>1. ContextInit => ContextTypeOK
  BY ContextInitTyped
<1>2. ContextTypeOK /\ [ContextNext]_contextVars => ContextTypeOK'
  <2> SUFFICES ASSUME ContextTypeOK, [ContextNext]_contextVars
               PROVE  ContextTypeOK'
    OBVIOUS
  <2>0. /\ IsSession(entries)
        /\ alive \in BOOLEAN /\ open \subseteq Calls /\ lost \subseteq Nat
    BY DEF ContextTypeOK, IsSession, Is
  <2>1. IsSession(entries') /\ alive' \in BOOLEAN /\ open' \subseteq Calls /\ lost' \subseteq Nat
        => ContextTypeOK'
    BY DEF ContextTypeOK, IsSession, Is
  <2>2. CASE UserSpeaks
    <3>1. Plain("user") \in Entry /\ Plain("user").kind = "user"
      BY EntriesTyped DEF Kinds
    <3>2. IsSession(Append(entries, Plain("user")))
      BY <2>0, <3>1, AppendSession
    <3>3. QED
      BY <2>0, <2>1, <2>2, <3>2 DEF UserSpeaks
  <2>3. CASE ModelCallsTools
    <3>1. PICK calls \in SUBSET Calls : entries' = Append(entries, Assistant(calls)) /\ open' = calls
      BY <2>3 DEF ModelCallsTools, Unused
    <3>2. Assistant(calls) \in Entry /\ Assistant(calls).kind = "assistant"
      BY EntriesTyped
    <3>3. IsSession(entries')
      BY <2>0, <3>1, <3>2, AppendSession
    <3>4. QED
      BY <2>0, <2>1, <2>3, <3>1, <3>3 DEF ModelCallsTools
  <2>4. CASE SubagentReports
    <3>1. Plain("branch_summary") \in Entry /\ Plain("branch_summary").kind = "branch_summary"
      BY EntriesTyped DEF Kinds
    <3>2. IsSession(Append(entries, Plain("branch_summary")))
      BY <2>0, <3>1, AppendSession
    <3>3. QED
      BY <2>0, <2>1, <2>4, <3>2 DEF SubagentReports
  <2>5. CASE ToolReports
    <3>1. PICK c \in open : entries' = Append(entries, Result(c)) /\ open' = open \ {c}
      BY <2>5 DEF ToolReports
    <3>2. Result(c) \in Entry /\ Result(c).kind = "tool_result"
      BY <2>0, EntriesTyped
    <3>3. IsSession(entries')
      BY <2>0, <3>1, <3>2, AppendSession
    <3>4. QED
      BY <2>0, <2>1, <2>5, <3>1, <3>3 DEF ToolReports
  <2>6. CASE FollowUp
    <3>1. PICK said \in Answered : entries' = Append(said, Plain("user"))
      BY <2>6 DEF FollowUp
    <3>2. Plain("user") \in Entry /\ Plain("user").kind = "user"
      BY EntriesTyped DEF Kinds
    <3>3. IsSession(entries')
      BY <3>1, <3>2, AnsweredSession, AppendSession
    <3>4. QED
      BY <2>0, <2>1, <2>6, <3>3 DEF FollowUp
  <2>7. CASE ModelAnswers
    <3>1. PICK said \in Answered :
            /\ entries' = Archived(said) \/ entries' = said
            /\ lost' = lost \cap DOMAIN entries'
      BY <2>7 DEF ModelAnswers
    <3>2. IsSession(entries')
      BY <3>1, AnsweredSession, ArchivedSession
    <3>3. QED
      BY <2>0, <2>1, <2>7, <3>1, <3>2 DEF ModelAnswers
  <2>8. CASE Interrupted
    BY <2>0, <2>1, <2>8 DEF Interrupted
  <2>9. CASE Compact
    <3>1. PICK k \in SafeCuts, rest \in SUBSET Nat :
            /\ entries' = Append(entries, Summary(Compactable \ Earlier(Compactable, k), rest))
            /\ lost' \in SUBSET Nat
            /\ Compactable \ Earlier(Compactable, k) \in SUBSET Nat
      BY <2>9, CompactAppends
    <3>2. /\ Summary(Compactable \ Earlier(Compactable, k), rest) \in Entry
          /\ Summary(Compactable \ Earlier(Compactable, k), rest).kind = "compaction"
      BY <3>1, EntriesTyped, Zenon
    <3>3. IsSession(entries')
      BY <2>0, <3>1, <3>2, AppendSession
    <3>4. QED
      BY <2>0, <2>1, <2>9, <3>1, <3>3 DEF Compact
  <2>10. CASE UNCHANGED contextVars
    BY <2>0, <2>1, <2>10 DEF contextVars
  <2>11. QED
    BY <2>2, <2>3, <2>4, <2>5, <2>6, <2>7, <2>8, <2>9, <2>10 DEF ContextNext
<1>3. QED
  BY <1>1, <1>2, PTL DEF ContextSpec

----------------------------------------
(* The latest question.                                                    *)

Users == OfKind(DOMAIN entries, "user")

\* The latest compaction keeps the latest question, if it is behind it.
KeepsQuestion ==
  \A c \in Compactions, u \in Users :
    /\ \A d \in Compactions : d <= c
    /\ \A v \in Users : v <= u
    /\ u < c
    => u \in entries[c].kept

\* An entry that is neither a compaction nor a question changes nothing; a new
\* compaction has to keep the latest question; a new question is in front of all
\* compactions.
LEMMA AppendKeepsQuestion ==
  ASSUME ContextTypeOK, KeepsQuestion, NEW e \in Entry, entries' = Append(entries, e),
         \A u \in Users : (e.kind = "compaction" /\ \A v \in Users : v <= u) => u \in e.kept
  PROVE  KeepsQuestion'
<1>1. /\ entries \in Seq(Entry) /\ Len(entries) \in Nat
      /\ DOMAIN entries = 1 .. Len(entries)
      /\ DOMAIN entries' = 1 .. Len(entries) + 1
      /\ \A i \in DOMAIN entries : entries'[i] = entries[i]
      /\ entries'[Len(entries) + 1] = e
  BY DEF ContextTypeOK
<1>2. SUFFICES ASSUME NEW c \in Compactions', NEW u \in Users',
                      \A d \in Compactions' : d <= c,
                      \A v \in Users' : v <= u,
                      u < c
               PROVE  u \in entries'[c].kept
  BY DEF KeepsQuestion
<1>3. /\ c \in 1 .. Len(entries) + 1 /\ entries'[c].kind = "compaction"
      /\ u \in 1 .. Len(entries) + 1 /\ entries'[u].kind = "user"
  BY <1>1 DEF Compactions, Users, OfKind, Is
<1>4. u \in Users
  BY <1>1, <1>2, <1>3 DEF Users, OfKind, Is
<1>5. \A v \in Users : v \in Users'
  BY <1>1 DEF Users, OfKind, Is
<1>6. \A v \in Users : v <= u
  BY <1>2, <1>5
<1>7. CASE c = Len(entries) + 1
  BY <1>1, <1>3, <1>4, <1>6, <1>7
<1>8. CASE c # Len(entries) + 1
  <2>1. c \in DOMAIN entries
    BY <1>1, <1>3, <1>8
  <2>2. c \in Compactions
    BY <1>1, <1>3, <2>1 DEF Compactions, OfKind, Is
  <2>3. \A d \in Compactions : d \in Compactions'
    BY <1>1 DEF Compactions, OfKind, Is
  <2>4. \A d \in Compactions : d <= c
    BY <1>2, <2>3
  <2>5. u \in entries[c].kept
    BY <1>2, <1>4, <1>6, <2>2, <2>4 DEF KeepsQuestion
  <2>6. QED
    BY <1>1, <2>1, <2>5
<1>9. QED
  BY <1>7, <1>8

\* A question at the end of the session is in front of all compactions.
LEMMA NewQuestionKept ==
  ASSUME NEW s \in Seq(Entry), NEW e \in Entry, e.kind = "user", entries' = Append(s, e)
  PROVE  KeepsQuestion'
<1>1. /\ Len(s) \in Nat /\ DOMAIN entries' = 1 .. Len(s) + 1
      /\ entries'[Len(s) + 1].kind = "user"
  OBVIOUS
<1>2. Len(s) + 1 \in Users'
  BY <1>1 DEF Users, OfKind, Is
<1>3. \A c \in Compactions' : c \in 1 .. Len(s) + 1
  BY <1>1 DEF Compactions, OfKind
<1>4. \A u \in Users' : u \in 1 .. Len(s) + 1
  BY <1>1 DEF Users, OfKind
<1>5. QED
  BY <1>1, <1>2, <1>3, <1>4 DEF KeepsQuestion

\* What every compaction keeps, in every state.
THEOREM QuestionKept == ContextSpec => []KeepsQuestion
<1>1. ContextInit => KeepsQuestion
  <2> SUFFICES ASSUME ContextInit PROVE KeepsQuestion
    OBVIOUS
  <2>1. Len(entries) = 1 /\ entries[1].kind = "system"
    BY DEF ContextInit, Plain
  <2>2. \A i \in DOMAIN entries : i = 1
    BY DEF ContextInit
  <2>3. Compactions = {}
    BY <2>1, <2>2 DEF Compactions, OfKind, Is
  <2>4. QED
    BY <2>3 DEF KeepsQuestion
<1>2. ContextTypeOK /\ KeepsQuestion /\ [ContextNext]_contextVars => KeepsQuestion'
  <2> SUFFICES ASSUME ContextTypeOK, KeepsQuestion, [ContextNext]_contextVars
               PROVE  KeepsQuestion'
    OBVIOUS
  <2>0. entries' = entries => KeepsQuestion'
    BY DEF KeepsQuestion, Compactions, Users, OfKind, Is
  <2>1. ASSUME NEW e \in Entry, e.kind # "compaction", entries' = Append(entries, e)
        PROVE  KeepsQuestion'
    BY <2>1, AppendKeepsQuestion
  <2>2. CASE UserSpeaks
    <3>1. Plain("user") \in Entry /\ Plain("user").kind = "user"
      BY EntriesTyped DEF Kinds
    <3>2. QED
      BY <2>1, <2>2, <3>1 DEF UserSpeaks
  <2>3. CASE ModelCallsTools
    <3>1. PICK calls \in SUBSET Calls : entries' = Append(entries, Assistant(calls))
      BY <2>3 DEF ModelCallsTools, Unused
    <3>2. Assistant(calls) \in Entry /\ Assistant(calls).kind = "assistant"
      BY EntriesTyped
    <3>3. QED
      BY <2>1, <3>1, <3>2
  <2>4. CASE SubagentReports
    <3>1. Plain("branch_summary") \in Entry /\ Plain("branch_summary").kind = "branch_summary"
      BY EntriesTyped DEF Kinds
    <3>2. QED
      BY <2>1, <2>4, <3>1 DEF SubagentReports
  <2>5. CASE ToolReports
    <3>1. PICK c \in Calls : entries' = Append(entries, Result(c))
      BY <2>5 DEF ToolReports, ContextTypeOK
    <3>2. Result(c) \in Entry /\ Result(c).kind = "tool_result"
      BY EntriesTyped
    <3>3. QED
      BY <2>1, <3>1, <3>2
  <2>6. CASE FollowUp
    <3>1. PICK said \in Answered : entries' = Append(said, Plain("user"))
      BY <2>6 DEF FollowUp
    <3>2. Plain("user") \in Entry /\ Plain("user").kind = "user"
      BY EntriesTyped DEF Kinds
    <3>3. said \in Seq(Entry)
      BY AnsweredSession DEF IsSession
    <3>4. QED
      BY <3>1, <3>2, <3>3, NewQuestionKept
  <2>7. CASE ModelAnswers
    <3>1. PICK said \in Answered : entries' = Archived(said) \/ entries' = said
      BY <2>7 DEF ModelAnswers
    <3>2. CASE entries' = said
      <4>1. Assistant({}) \in Entry /\ Assistant({}).kind = "assistant"
        BY EntriesTyped
      <4>2. QED
        BY <2>0, <2>1, <3>2, <4>1 DEF Answered
    <3>3. CASE entries' = Archived(said) /\ \A i \in DOMAIN Archived(said) : Archived(said)[i].kind # "user"
      <4>1. Users' = {}
        BY <3>3 DEF Users, OfKind, Is
      <4>2. QED
        BY <4>1 DEF KeepsQuestion
    <3>4. QED
      BY <3>1, <3>2, <3>3, AnsweredSession, ArchivedSession
  <2>8. CASE Interrupted
    BY <2>0, <2>8 DEF Interrupted
  <2>9. CASE Compact
    <3>1. PICK k \in SafeCuts, rest \in SUBSET Nat :
            /\ entries' = Append(entries, Summary(Compactable \ Earlier(Compactable, k), rest))
            /\ Compactable \ Earlier(Compactable, k) \in SUBSET Nat
      BY <2>9, CompactAppends
    <3> DEFINE e == Summary(Compactable \ Earlier(Compactable, k), rest)
    <3>2. e \in Entry /\ e.kept = Compactable \ Earlier(Compactable, k)
      BY <3>1, EntriesTyped, Zenon
    <3>3. ASSUME NEW u \in Users, \A v \in Users : v <= u
          PROVE  u \in e.kept
      BY <3>2, <3>3, QuestionNotCut DEF Users
    <3> HIDE DEF e
    <3>4. entries' = Append(entries, e)
      BY <3>1 DEF e
    <3>5. QED
      BY <3>2, <3>3, <3>4, AppendKeepsQuestion
  <2>10. CASE UNCHANGED contextVars
    BY <2>0, <2>10 DEF contextVars
  <2>11. QED
    BY <2>2, <2>3, <2>4, <2>5, <2>6, <2>7, <2>8, <2>9, <2>10 DEF ContextNext
<1>3. QED
  BY <1>1, <1>2, ContextTyped, PTL DEF ContextSpec

\* Every request shows the latest question, whatever was compacted and trimmed.
THEOREM QuestionAlwaysSent == ContextSpec => []QuestionSent
<1>1. ContextTypeOK /\ KeepsQuestion => QuestionSent
  <2> SUFFICES ASSUME ContextTypeOK, KeepsQuestion, NEW u \in Users, u = Latest(Users)
               PROVE  u \in View /\ \A S \in Trims : u \in S
    BY DEF QuestionSent, Users
  <2>1. Len(entries) \in Nat /\ DOMAIN entries = 1 .. Len(entries) /\ 1 \in DOMAIN entries
    BY DEF ContextTypeOK
  <2>2. Users \in SUBSET (1 .. Len(entries)) /\ Compactions \in SUBSET (1 .. Len(entries))
    BY <2>1 DEF Users, Compactions, OfKind
  <2>3. \A v \in Users : v <= u
    BY <2>1, <2>2, LatestIsGreatest
  <2>4. ASSUME Compactions # {}
        PROVE  Latest(Compactions) \in Compactions /\ \A d \in Compactions : d <= Latest(Compactions)
    BY <2>1, <2>2, <2>4, LatestIsGreatest
  <2>5. u \in View
    <3>1. CASE Compactions = {}
      BY <3>1 DEF View, Users, OfKind
    <3>2. CASE Compactions # {}
      <4> DEFINE c == Latest(Compactions)
      <4>1. c \in Compactions /\ \A d \in Compactions : d <= c
        BY <2>4, <3>2
      <4>2. View = {1, c} \cup {i \in DOMAIN entries : i > c \/ i \in entries[c].kept}
        BY <3>2 DEF View
      <4> HIDE DEF c
      <4>3. u # c /\ u \in DOMAIN entries
        BY <4>1 DEF Users, Compactions, OfKind, Is
      <4>4. u > c \/ u < c
        BY <2>2, <4>1, <4>3
      <4>5. u < c => u \in entries[c].kept
        BY <2>3, <4>1 DEF KeepsQuestion
      <4>6. QED
        BY <4>2, <4>3, <4>4, <4>5
    <3>3. QED
      BY <3>1, <3>2
  <2>6. View \in SUBSET (1 .. Len(entries))
    BY <2>1, <2>2, <2>4 DEF View
  <2>7. u \in Mandatory
    <3> DEFINE Seen == OfKind(View, "user")
    <3>1. u \in Seen /\ Seen \subseteq Users /\ Seen \in SUBSET (1 .. Len(entries))
      BY <2>1, <2>5, <2>6 DEF Users, OfKind
    <3> HIDE DEF Seen
    <3>2. Latest(Seen) \in Seen /\ \A v \in Seen : v <= Latest(Seen)
      BY <2>1, <3>1, LatestIsGreatest
    <3>3. u = Latest(Seen)
      <4>1. Latest(Seen) \in Users
        BY <3>1, <3>2, Zenon
      <4>2. Latest(Seen) <= u /\ u <= Latest(Seen)
        BY <2>3, <3>1, <3>2, <4>1, Zenon
      <4>3. Users \subseteq Nat
        BY <2>2
      <4>4. Latest(Seen) \in Nat /\ u \in Nat
        BY <4>1, <4>3, Zenon
      <4>5. QED
        BY <4>2, <4>4
    <3>4. QED
      BY <3>1, <3>3 DEF Mandatory, Seen
  <2>8. u \in SystemOnly
    BY DEF SystemOnly, Users
  <2>9. \A S \in HardTrims : u \in S
    BY <2>7 DEF HardTrims
  <2>10. u \in AggressiveTrim
    BY <2>7 DEF AggressiveTrim
  <2>11. QED
    BY <2>5, <2>7, <2>8, <2>9, <2>10 DEF Trims
<1>2. QED
  BY <1>1, ContextTyped, QuestionKept, PTL

----------------------------------------
(* What a request does not show.                                             *)

\* In session s, what the latest compaction does not keep was read for its summary,
\* is an older summary, or is in gone.
AccountedIn(s, gone) ==
  \A c \in DOMAIN s :
    s[c].kind = "compaction" /\ (\A d \in DOMAIN s : s[d].kind = "compaction" => d <= c) =>
      \A i \in 2 .. c - 1 :
        i \in s[c].kept \/ i \in s[c].source \/ i \in gone \/ s[i].kind = "compaction"

\* An entry that is no compaction changes nothing of it.
LEMMA AppendAccounted ==
  ASSUME NEW s \in Seq(Entry), NEW gone, AccountedIn(s, gone),
         NEW e \in Entry, e.kind # "compaction"
  PROVE  AccountedIn(Append(s, e), gone)
<1> DEFINE n == Len(s)
           w == Append(s, e)
<1>1. /\ n \in Nat /\ DOMAIN s = 1 .. n /\ DOMAIN w = 1 .. n + 1 /\ w[n + 1] = e
      /\ \A i \in 1 .. n : w[i] = s[i]
  OBVIOUS
<1> HIDE DEF w
<1> SUFFICES ASSUME NEW c \in DOMAIN w, w[c].kind = "compaction",
                    \A d \in DOMAIN w : w[d].kind = "compaction" => d <= c,
                    NEW i \in 2 .. c - 1
             PROVE  i \in w[c].kept \/ i \in w[c].source \/ i \in gone \/ w[i].kind = "compaction"
  BY Zenon DEF AccountedIn, w
<1>2. c \in 1 .. n
  BY <1>1
<1>3. s[c].kind = "compaction" /\ w[c] = s[c]
  BY <1>1, <1>2
<1>4. \A d \in 1 .. n : s[d].kind = "compaction" => d <= c
  BY <1>1
<1>5. i \in s[c].kept \/ i \in s[c].source \/ i \in gone \/ s[i].kind = "compaction"
  BY <1>1, <1>2, <1>3, <1>4 DEF AccountedIn
<1>6. w[i] = s[i]
  BY <1>1, <1>2
<1>7. QED
  BY <1>3, <1>5, <1>6

LEMMA AnsweredAccounted ==
  ASSUME ContextTypeOK, AccountedIn(entries, lost), NEW said \in Answered
  PROVE  said \in Seq(Entry) /\ AccountedIn(said, lost)
<1>1. said \in Seq(Entry) /\ entries \in Seq(Entry)
  BY AnsweredSession DEF IsSession, ContextTypeOK
<1>2. Assistant({}) \in Entry /\ Assistant({}).kind = "assistant"
  BY EntriesTyped
<1>3. said = entries \/ said = Append(entries, Assistant({}))
  BY DEF Answered
<1>4. QED
  BY <1>1, <1>2, <1>3, AppendAccounted, Zenon

\* An archived session has nothing between its prompt and its summary.
LEMMA ArchivedAccounted ==
  ASSUME NEW s, NEW gone, AccountedIn(s, gone)
  PROVE  AccountedIn(Archived(s), gone)
<1>1. CASE Archived(s) = s
  BY <1>1
<1>2. CASE Archived(s) = <<Plain("system"), Summary({}, 2 .. Len(s))>>
  <2>1. DOMAIN Archived(s) = 1 .. 2
    BY <1>2
  <2>2. \A c \in 1 .. 2 : 2 .. c - 1 = {}
    OBVIOUS
  <2>3. QED
    BY <2>1, <2>2 DEF AccountedIn
<1>3. QED
  BY <1>1, <1>2 DEF Archived

\* Only the entries that are left need to be accounted for.
LEMMA CutAccounted ==
  ASSUME NEW s \in Seq(Entry), NEW gone, AccountedIn(s, gone)
  PROVE  AccountedIn(s, gone \cap DOMAIN s)
<1>1. \A c \in DOMAIN s : \A i \in 2 .. c - 1 : i \in DOMAIN s
  OBVIOUS
<1>2. QED
  BY <1>1 DEF AccountedIn

LEMMA CompactAccounted ==
  ASSUME ContextTypeOK, Compact
  PROVE  AccountedIn(entries', lost')
<1>1. PICK k \in SafeCuts : \E rest \in Sources(Earlier(Compactable, k)) :
        /\ entries' = Append(entries, Summary(Compactable \ Earlier(Compactable, k), rest))
        /\ lost' = Earlier(Compactable, k) \ rest
  BY DEF Compact
<1>2. PICK rest \in Sources(Earlier(Compactable, k)) :
        /\ entries' = Append(entries, Summary(Compactable \ Earlier(Compactable, k), rest))
        /\ lost' = Earlier(Compactable, k) \ rest
  BY <1>1
<1> DEFINE n == Len(entries)
           S == Compactable
           E == Earlier(Compactable, k)
           e == Summary(S \ E, rest)
<1>3. e.kept = S \ E /\ e.source = rest /\ e.kind = "compaction"
  BY DEF Summary
<1>4. entries' = Append(entries, e) /\ lost' = E \ rest
  BY <1>2
<1> HIDE DEF e
<1>5. /\ n \in Nat /\ DOMAIN entries = 1 .. n /\ DOMAIN entries' = 1 .. n + 1 /\ entries'[n + 1] = e
      /\ \A i \in 1 .. n : entries'[i] = entries[i]
  BY <1>4 DEF ContextTypeOK
<1>6. \A i \in 2 .. n : i \in S \/ entries[i].kind = "compaction"
  BY <1>5 DEF Compactable, Is, ContextTypeOK
<1> HIDE DEF S, E
<1> SUFFICES ASSUME NEW c \in 1 .. n + 1,
                    \A d \in 1 .. n + 1 : entries'[d].kind = "compaction" => d <= c,
                    NEW i \in 2 .. c - 1
             PROVE  \/ i \in entries'[c].kept \/ i \in entries'[c].source
                    \/ i \in lost' \/ entries'[i].kind = "compaction"
  BY <1>5 DEF AccountedIn
<1>7. c = n + 1
  BY <1>3, <1>5
<1>8. i \in 2 .. n /\ entries'[i] = entries[i]
  BY <1>5, <1>7
<1>9. i \in S => i \in S \ E \/ i \in rest \/ i \in E \ rest
  OBVIOUS
<1>10. QED
  BY <1>3, <1>4, <1>5, <1>6, <1>7, <1>8, <1>9

\* A compaction forgets nothing in silence, however often a session is compacted,
\* whatever its summary's own request had to drop, and whoever archives it
\* (src/runtime/context-view.ts, src/runtime/compaction.ts).
THEOREM NothingSilentlyMissing == ContextSpec => []OnlySummarisedMissing
<1> DEFINE A == AccountedIn(entries, lost)
<1>1. ContextInit => A
  BY DEF ContextInit, AccountedIn, Plain
<1>2. ContextTypeOK /\ A /\ [ContextNext]_contextVars => A'
  <2> SUFFICES ASSUME ContextTypeOK, A, [ContextNext]_contextVars
               PROVE  AccountedIn(entries', lost')
    OBVIOUS
  <2>1. entries \in Seq(Entry) /\ AccountedIn(entries, lost) /\ open \subseteq Calls
    BY DEF ContextTypeOK
  <2>2. CASE UserSpeaks \/ SubagentReports
    <3>1. PICK e \in {Plain("user"), Plain("branch_summary")} : entries' = Append(entries, e) /\ lost' = lost
      BY <2>2 DEF UserSpeaks, SubagentReports
    <3>2. e \in Entry /\ e.kind # "compaction"
      BY EntriesTyped DEF Kinds
    <3>3. QED
      BY <2>1, <3>1, <3>2, AppendAccounted
  <2>3. CASE ModelCallsTools
    <3>1. PICK calls \in SUBSET Calls : entries' = Append(entries, Assistant(calls)) /\ lost' = lost
      BY <2>3 DEF ModelCallsTools, Unused
    <3>2. Assistant(calls) \in Entry /\ Assistant(calls).kind = "assistant"
      BY EntriesTyped
    <3>3. QED
      BY <2>1, <3>1, <3>2, AppendAccounted
  <2>4. CASE ToolReports
    <3>1. PICK c \in Calls : entries' = Append(entries, Result(c)) /\ lost' = lost
      BY <2>1, <2>4 DEF ToolReports
    <3>2. Result(c) \in Entry /\ Result(c).kind = "tool_result"
      BY EntriesTyped
    <3>3. QED
      BY <2>1, <3>1, <3>2, AppendAccounted
  <2>5. CASE FollowUp
    <3>1. PICK said \in Answered : entries' = Append(said, Plain("user")) /\ lost' = lost
      BY <2>5 DEF FollowUp
    <3>2. Plain("user") \in Entry /\ Plain("user").kind = "user"
      BY EntriesTyped DEF Kinds
    <3>3. QED
      BY <2>1, <3>1, <3>2, AnsweredAccounted, AppendAccounted
  <2>6. CASE ModelAnswers
    <3>1. PICK said \in Answered :
            (entries' = Archived(said) \/ entries' = said) /\ lost' = lost \cap DOMAIN entries'
      BY <2>6 DEF ModelAnswers
    <3>2. said \in Seq(Entry) /\ IsSession(said) /\ AccountedIn(said, lost)
      BY <2>1, AnsweredAccounted, AnsweredSession
    <3>3. entries' \in Seq(Entry) /\ AccountedIn(entries', lost)
      BY <3>1, <3>2, ArchivedAccounted, ArchivedSession DEF IsSession
    <3>4. QED
      BY <3>1, <3>3, CutAccounted
  <2>7. CASE Interrupted
    BY <2>1, <2>7 DEF Interrupted
  <2>8. CASE Compact
    BY <2>8, CompactAccounted
  <2>9. CASE UNCHANGED contextVars
    BY <2>1, <2>9 DEF contextVars
  <2>10. QED
    BY <2>2, <2>3, <2>4, <2>5, <2>6, <2>7, <2>8, <2>9 DEF ContextNext
<1>3. ContextTypeOK /\ A => OnlySummarisedMissing
  <2> SUFFICES ASSUME ContextTypeOK, A, NEW i \in DOMAIN entries \ View
               PROVE  i \in entries[Latest(Compactions)].source \cup Compactions \cup lost
    BY DEF OnlySummarisedMissing
  <2> DEFINE c == Latest(Compactions)
  <2>1. Len(entries) \in Nat /\ DOMAIN entries = 1 .. Len(entries)
    BY DEF ContextTypeOK
  <2>2. Compactions # {} /\ Compactions \subseteq DOMAIN entries
    BY DEF View, Compactions, OfKind
  <2>3. c \in Compactions /\ \A d \in Compactions : d <= c
    BY <2>1, <2>2, LatestIsGreatest
  <2>4. i # 1 /\ i # c /\ ~(i > c) /\ i \notin entries[c].kept
    BY <2>2 DEF View
  <2> HIDE DEF c
  <2>5. i \in 2 .. c - 1 /\ c \in DOMAIN entries
    BY <2>1, <2>2, <2>3, <2>4
  <2>6. entries[c].kind = "compaction" /\ \A d \in DOMAIN entries : entries[d].kind = "compaction" => d <= c
    BY <2>3 DEF Compactions, OfKind, Is
  <2>7. i \in entries[c].source \/ i \in lost \/ entries[i].kind = "compaction"
    BY <2>4, <2>5, <2>6 DEF AccountedIn
  <2>8. QED
    BY <2>7 DEF Compactions, OfKind, Is, c
<1>4. QED
  BY <1>1, <1>2, <1>3, ContextTyped, PTL DEF ContextSpec

----------------------------------------
(* Results stay with the message that asked for them.                        *)

Behind == {"tool_result", "branch_summary"}
AskerAt(s, i) == s[i].kind = "assistant" /\ s[i].calls # {}

\* A result, or a subagent's summary, follows the message whose calls are being
\* answered; summaries come first.
Follows(s) ==
  \A i \in DOMAIN s :
    /\ s[i].kind \in Behind => i > 1 /\ (s[i - 1].kind \in Behind \/ AskerAt(s, i - 1))
    /\ s[i].kind = "branch_summary" => s[i - 1].kind # "tool_result"

\* All entries from the message a to the entry n come of its calls; their results
\* answer them.
Reaches(s, a, n) == AskerAt(s, a) /\ \A i \in a + 1 .. n : s[i].kind \in Behind
Owns(s) ==
  \A a, r \in DOMAIN s :
    a < r /\ s[r].kind = "tool_result" /\ Reaches(s, a, r) => s[r].calls \subseteq s[a].calls

\* Calls without a result are those of the message the session ends with.
Awaits(s, calls) ==
  calls # {} =>
    /\ s[Len(s)].kind \in Behind \/ AskerAt(s, Len(s))
    /\ \A a \in DOMAIN s : Reaches(s, a, Len(s)) => calls \subseteq s[a].calls

\* No two summaries of subagents in a row.
AsidesApart(s) ==
  \A i \in DOMAIN s : s[i].kind = "branch_summary" /\ i < Len(s) => s[i + 1].kind # "branch_summary"

\* A compaction that keeps a result or a summary keeps the entry before it.
KeptWhole(s) ==
  \A c, i \in DOMAIN s :
    s[c].kind = "compaction" /\ i < c /\ i \in s[c].kept /\ s[i].kind \in Behind => i - 1 \in s[c].kept

\* A session written by several runs.
Written(s) == Follows(s) /\ Owns(s) /\ (AsidesApart(s) => KeptWhole(s))

SegInv ==
  /\ ContextTypeOK /\ Written(entries) /\ Awaits(entries, open)
  /\ alive => Len(entries) > 1
  /\ alive \/ open = {}

\* Behind a result there is the message it answers.
LEMMA OwnerExists ==
  ASSUME NEW s \in Seq(Entry), Follows(s), Owns(s),
         NEW r \in DOMAIN s, s[r].kind = "tool_result"
  PROVE  \E a \in 1 .. r - 1 : Reaches(s, a, r) /\ s[r].calls \subseteq s[a].calls
<1> DEFINE T == {i \in 1 .. r : s[i].kind \notin Behind}
<1>1. DOMAIN s = 1 .. Len(s) /\ Len(s) \in Nat /\ r \in 1 .. Len(s)
  OBVIOUS
<1>2. T # {}
  <2>1. 1 \in 1 .. r /\ 1 \in DOMAIN s
    BY <1>1
  <2>2. s[1].kind \notin Behind
    BY <2>1 DEF Follows
  <2>3. QED
    BY <2>1, <2>2
<1>3. r \in Nat /\ T \in SUBSET (1 .. r)
  BY <1>1
<1>4. PICK a \in T : \A i \in T : i <= a
  BY <1>2, <1>3, GreatestExists
<1>5. a \in 1 .. r /\ s[a].kind \notin Behind /\ \A i \in a + 1 .. r : s[i].kind \in Behind
  BY <1>1, <1>4
<1>6. a < r
  BY <1>1, <1>5 DEF Behind
<1>7. AskerAt(s, a)
  <2>1. a + 1 \in DOMAIN s /\ s[a + 1].kind \in Behind /\ a + 1 - 1 = a
    BY <1>1, <1>5, <1>6
  <2>2. QED
    BY <1>1, <1>5, <2>1 DEF Follows, AskerAt
<1>8. Reaches(s, a, r) /\ a \in DOMAIN s
  BY <1>1, <1>5, <1>7 DEF Reaches
<1>9. QED
  BY <1>1, <1>5, <1>6, <1>8 DEF Owns

\* An entry goes behind the session it belongs behind.
LEMMA AppendWritten ==
  ASSUME NEW s \in Seq(Entry), Written(s), Len(s) > 0, NEW e \in Entry,
         e.kind \in Behind => s[Len(s)].kind \in Behind \/ AskerAt(s, Len(s)),
         e.kind = "branch_summary" => s[Len(s)].kind # "tool_result",
         e.kind = "tool_result" => \A a \in DOMAIN s : Reaches(s, a, Len(s)) => e.calls \subseteq s[a].calls,
         (e.kind = "compaction" /\ AsidesApart(s)) =>
           \A i \in DOMAIN s : i \in e.kept /\ s[i].kind \in Behind => i - 1 \in e.kept
  PROVE  Written(Append(s, e))
<1> DEFINE n == Len(s)
           w == Append(s, e)
<1>1. /\ n \in Nat /\ n > 0 /\ DOMAIN s = 1 .. n /\ DOMAIN w = 1 .. n + 1 /\ Len(w) = n + 1
      /\ w[n + 1] = e /\ \A i \in 1 .. n : w[i] = s[i]
  OBVIOUS
<1> HIDE DEF w
<1>0. Follows(s) /\ Owns(s)
  BY DEF Written
<1>2. \A i \in 1 .. n + 1 : i = n + 1 \/ i \in 1 .. n
  BY <1>1
<1>3. Follows(w)
  <2> SUFFICES ASSUME NEW i \in 1 .. n + 1
               PROVE  /\ w[i].kind \in Behind => i > 1 /\ (w[i - 1].kind \in Behind \/ AskerAt(w, i - 1))
                      /\ w[i].kind = "branch_summary" => w[i - 1].kind # "tool_result"
    BY <1>1 DEF Follows
  <2>1. CASE i = n + 1
    <3>1. i - 1 = n /\ w[n] = s[n] /\ i > 1
      BY <1>1, <2>1
    <3>2. QED
      BY <1>1, <2>1, <3>1 DEF AskerAt
  <2>2. CASE i \in 1 .. n
    <3>1. i > 1 => i - 1 \in 1 .. n
      BY <1>1, <2>2
    <3>2. s[i].kind \in Behind => i > 1
      BY <1>0, <1>1, <2>2 DEF Follows
    <3>3. w[i] = s[i] /\ (i > 1 => w[i - 1] = s[i - 1])
      BY <1>1, <2>2, <3>1
    <3>4. /\ s[i].kind \in Behind => s[i - 1].kind \in Behind \/ AskerAt(s, i - 1)
          /\ s[i].kind = "branch_summary" => s[i - 1].kind # "tool_result"
      BY <1>0, <1>1, <2>2 DEF Follows
    <3>5. s[i].kind = "branch_summary" => s[i].kind \in Behind
      BY DEF Behind
    <3>6. CASE i > 1
      BY <3>3, <3>4, <3>6 DEF AskerAt
    <3>7. CASE ~(i > 1)
      BY <3>2, <3>3, <3>5, <3>7
    <3>8. QED
      BY <3>6, <3>7
  <2>3. QED
    BY <1>2, <2>1, <2>2
<1>4. \A a, m \in 1 .. n : Reaches(w, a, m) <=> Reaches(s, a, m)
  <2> SUFFICES ASSUME NEW a \in 1 .. n, NEW m \in 1 .. n
               PROVE  Reaches(w, a, m) <=> Reaches(s, a, m)
    OBVIOUS
  <2>1. w[a] = s[a] /\ \A i \in a + 1 .. m : w[i] = s[i]
    BY <1>1
  <2>2. QED
    BY <2>1 DEF Reaches, AskerAt
<1>5. Owns(w)
  <2> SUFFICES ASSUME NEW a \in 1 .. n + 1, NEW r \in 1 .. n + 1, a < r, w[r].kind = "tool_result", Reaches(w, a, r)
               PROVE  w[r].calls \subseteq w[a].calls
    BY <1>1 DEF Owns
  <2>1. a \in 1 .. n /\ w[a] = s[a]
    BY <1>1
  <2>2. CASE r = n + 1
    <3>1. Reaches(w, a, n)
      BY <1>1, <2>2 DEF Reaches
    <3>2. Reaches(s, a, n)
      BY <1>1, <1>4, <2>1, <3>1
    <3>3. QED
      BY <1>1, <2>1, <2>2, <3>2
  <2>3. CASE r \in 1 .. n
    BY <1>0, <1>1, <1>4, <2>1, <2>3 DEF Owns
  <2>4. QED
    BY <1>2, <2>2, <2>3
<1>6. ASSUME AsidesApart(w)
      PROVE  KeptWhole(w)
  <2>1. AsidesApart(s)
    <3>1. \A i \in 1 .. n : i < n => i + 1 \in 1 .. n
      BY <1>1
    <3>2. QED
      BY <1>1, <1>6, <3>1 DEF AsidesApart
  <2>2. KeptWhole(s)
    BY <2>1 DEF Written
  <2> SUFFICES ASSUME NEW c \in 1 .. n + 1, NEW i \in 1 .. n + 1,
                      w[c].kind = "compaction", i < c, i \in w[c].kept, w[i].kind \in Behind
               PROVE  i - 1 \in w[c].kept
    BY <1>1 DEF KeptWhole
  <2>3. i \in 1 .. n /\ w[i] = s[i]
    BY <1>1
  <2>4. CASE c = n + 1
    BY <1>1, <2>1, <2>3, <2>4
  <2>5. CASE c \in 1 .. n
    BY <1>1, <2>2, <2>3, <2>5 DEF KeptWhole
  <2>6. QED
    BY <1>2, <2>4, <2>5
<1>7. QED
  BY <1>3, <1>5, <1>6 DEF Written, w

\* Before a result or a subagent's summary there is an entry to keep with it.
LEMMA BehindNotFirst ==
  ASSUME ContextTypeOK, Follows(entries), NEW i \in Compactable, entries[i].kind \in Behind
  PROVE  /\ i - 1 \in Compactable /\ Earlier(Compactable, i) # {}
         /\ Latest(Earlier(Compactable, i)) = i - 1
<1>1. /\ Len(entries) \in Nat /\ DOMAIN entries = 1 .. Len(entries) /\ i \in 1 .. Len(entries)
      /\ Compactable \in SUBSET (1 .. Len(entries))
  BY DEF ContextTypeOK, Compactable
<1>2. i > 1 /\ (entries[i - 1].kind \in Behind \/ AskerAt(entries, i - 1))
  BY <1>1 DEF Follows
<1>3. i - 1 \in Compactable
  BY <1>1, <1>2 DEF Compactable, Is, Behind, AskerAt
<1>4. i - 1 \in Earlier(Compactable, i) /\ Earlier(Compactable, i) \in SUBSET (1 .. Len(entries))
  <2>1. i - 1 < i
    BY <1>1
  <2>2. Earlier(Compactable, i) \subseteq Compactable
    BY DEF Earlier
  <2>3. i - 1 \in Earlier(Compactable, i)
    BY <1>3, <2>1, Zenon DEF Earlier
  <2>4. QED
    BY <1>1, <2>2, <2>3
<1>5. Latest(Earlier(Compactable, i)) \in Earlier(Compactable, i) /\ i - 1 <= Latest(Earlier(Compactable, i))
  BY <1>1, <1>4, LatestIsGreatest
<1>6. QED
  BY <1>1, <1>3, <1>4, <1>5 DEF Earlier

\* A cut does not begin with a result, nor with a subagent's summary unless
\* another is before it.
LEMMA CutWhole ==
  ASSUME ContextTypeOK, Follows(entries), AsidesApart(entries), NEW k \in Compactable
  PROVE  entries[KeepStart(k)].kind \notin Behind
<1> DEFINE start == PastResults(k)
           older == Earlier(Compactable, start)
<1>1. start \in Compactable /\ (~Is(start, "tool_result") \/ older = {})
  BY PastResultsStops
<1>2. KeepStart(k) = IF ~Is(start, "assistant") /\ older # {} /\ Asks(Latest(older))
                     THEN Latest(older) ELSE start
  BY DEF KeepStart
<1>3. ~Is(start, "tool_result")
  BY <1>1, BehindNotFirst DEF Is, Behind
<1> HIDE DEF start
<1>4. CASE entries[start].kind = "branch_summary"
  <2>1. start - 1 \in Compactable /\ older # {} /\ Latest(older) = start - 1
    BY <1>1, <1>4, BehindNotFirst DEF Behind
  <2>2. /\ Len(entries) \in Nat /\ DOMAIN entries = 1 .. Len(entries)
        /\ start \in 1 .. Len(entries) /\ start - 1 \in 1 .. Len(entries)
    BY <1>1, <2>1 DEF ContextTypeOK, Compactable
  <2>3. entries[start - 1].kind \in Behind \/ AskerAt(entries, start - 1)
    BY <1>4, <2>2 DEF Follows, Behind
  <2>4. entries[start - 1].kind # "tool_result"
    BY <1>4, <2>2 DEF Follows
  <2>5. entries[start - 1].kind # "branch_summary"
    <3>1. start - 1 < Len(entries) /\ start - 1 + 1 = start
      BY <2>2
    <3>2. QED
      BY <1>4, <2>2, <3>1 DEF AsidesApart
  <2>6. AskerAt(entries, start - 1)
    BY <2>3, <2>4, <2>5 DEF Behind
  <2>7. ~Is(start, "assistant") /\ Asks(Latest(older))
    BY <1>4, <2>1, <2>6 DEF Is, Asks, AskerAt
  <2>8. KeepStart(k) = start - 1
    BY <1>2, <2>1, <2>7
  <2>9. QED
    BY <2>6, <2>8 DEF AskerAt, Behind
<1>5. CASE entries[start].kind # "branch_summary"
  <2>1. KeepStart(k) = start \/ Asks(KeepStart(k))
    BY <1>2
  <2>2. QED
    BY <1>3, <1>5, <2>1 DEF Is, Asks, Behind
<1>6. QED
  BY <1>4, <1>5

\* So a compaction keeps all of a message and its results, or none.
LEMMA CompactWritten ==
  ASSUME ContextTypeOK, Written(entries), Compact
  PROVE  Written(entries')
<1>1. PICK k \in SafeCuts, rest \in SUBSET Nat :
        /\ entries' = Append(entries, Summary(Compactable \ Earlier(Compactable, k), rest))
        /\ Compactable \ Earlier(Compactable, k) \in SUBSET Nat
  BY CompactAppends
<1> DEFINE kept == Compactable \ Earlier(Compactable, k)
           e == Summary(kept, rest)
<1>2. e \in Entry /\ e.kind = "compaction" /\ e.kept = kept
  BY <1>1, EntriesTyped, Zenon
<1>3. PICK j \in Compactable : k = KeepStart(j)
  BY DEF SafeCuts, CutPoints
<1>4. k \in Compactable /\ Follows(entries)
  BY <1>3, KeepStartBounds DEF Written
<1>5. /\ Len(entries) \in Nat /\ Len(entries) > 0 /\ entries \in Seq(Entry)
      /\ Compactable \in SUBSET (1 .. Len(entries))
  BY DEF ContextTypeOK, Compactable
<1>6. ASSUME AsidesApart(entries), NEW i \in DOMAIN entries, i \in kept, entries[i].kind \in Behind
      PROVE  i - 1 \in kept
  <2>1. i \in Compactable /\ i - 1 \in Compactable
    BY <1>4, <1>6, BehindNotFirst
  <2>2. i # k
    BY <1>3, <1>4, <1>6, CutWhole
  <2>3. i > k
    BY <1>4, <1>5, <1>6, <2>1, <2>2 DEF Earlier
  <2>4. QED
    BY <1>4, <1>5, <2>1, <2>3 DEF Earlier
<1> HIDE DEF kept, e
<1>7. entries' = Append(entries, e)
  BY <1>1 DEF e, kept
<1>8. Written(Append(entries, e))
  BY <1>2, <1>5, <1>6, AppendWritten DEF Behind
<1>9. QED
  BY <1>7, <1>8

\* An archived session holds no results.
LEMMA ArchivedWritten ==
  ASSUME NEW s, Written(s)
  PROVE  Written(Archived(s))
<1>1. CASE Archived(s) = s
  BY <1>1
<1>2. CASE Archived(s) = <<Plain("system"), Summary({}, 2 .. Len(s))>>
  <2> DEFINE w == Archived(s)
  <2>1. /\ DOMAIN w = 1 .. 2 /\ w[1].kind = "system" /\ w[2].kind = "compaction" /\ w[2].kept = {}
    BY <1>2 DEF Plain, Summary
  <2> HIDE DEF w
  <2>2. \A i \in DOMAIN w : w[i].kind \notin Behind /\ w[i].kind # "tool_result" /\ w[i].kind # "branch_summary"
    BY <2>1 DEF Behind
  <2>3. Follows(w) /\ Owns(w)
    BY <2>2 DEF Follows, Owns
  <2>4. KeptWhole(w)
    BY <2>2 DEF KeptWhole
  <2>5. QED
    BY <2>3, <2>4 DEF Written, w
<1>3. QED
  BY <1>1, <1>2 DEF Archived

\* An entry that is no compaction and comes of no call.
LEMMA PlainWritten ==
  ASSUME NEW s \in Seq(Entry), Written(s), Len(s) > 0, NEW e \in Entry, e.kind \in {"user", "assistant"}
  PROVE  Written(Append(s, e))
BY AppendWritten DEF Behind

LEMMA AnsweredWritten ==
  ASSUME SegInv, NEW said \in Answered
  PROVE  said \in Seq(Entry) /\ Len(said) > 0 /\ Written(said)
<1>1. said \in Seq(Entry) /\ said # <<>>
  BY AnsweredSession DEF IsSession, SegInv
<1>2. entries \in Seq(Entry) /\ Len(entries) > 0 /\ Written(entries)
  BY DEF SegInv, ContextTypeOK
<1>3. Assistant({}) \in Entry /\ Assistant({}).kind = "assistant"
  BY EntriesTyped
<1>4. said = entries \/ said = Append(entries, Assistant({}))
  BY DEF Answered
<1>5. Written(said)
  BY <1>2, <1>3, <1>4, PlainWritten, Zenon
<1>6. QED
  BY <1>1, <1>5

\* The invariant holds in every session the program writes.
LEMMA SegInit == ContextInit => SegInv
<1> SUFFICES ASSUME ContextInit PROVE SegInv
  OBVIOUS
<1>1. entries = <<Plain("system")>> /\ open = {} /\ alive = FALSE /\ entries[1].kind = "system" /\ DOMAIN entries = {1}
  BY DEF ContextInit, Plain
<1>2. Written(entries)
  BY <1>1 DEF Written, Follows, Owns, KeptWhole, Behind
<1>3. Awaits(entries, open)
  BY <1>1 DEF Awaits
<1>4. QED
  BY <1>1, <1>2, <1>3, ContextInitTyped DEF SegInv

LEMMA SegNext ==
  ASSUME SegInv, ContextTypeOK', [ContextNext]_contextVars
  PROVE  SegInv'
<1>1. /\ entries \in Seq(Entry) /\ Len(entries) \in Nat /\ Len(entries) > 0 /\ Written(entries)
      /\ Awaits(entries, open) /\ (alive => Len(entries) > 1) /\ (alive \/ open = {})
      /\ open \subseteq Calls /\ DOMAIN entries = 1 .. Len(entries)
  BY DEF SegInv, ContextTypeOK
<1>2. Written(entries') /\ Awaits(entries', open') /\ (alive' => Len(entries') > 1) /\ (alive' \/ open' = {})
      => SegInv'
  BY DEF SegInv
<1>3. \A s : Awaits(s, {})
  BY DEF Awaits
<1>4. CASE UserSpeaks
  <2>1. Plain("user") \in Entry /\ Plain("user").kind = "user"
    BY EntriesTyped DEF Kinds
  <2>2. entries' = Append(entries, Plain("user")) /\ open = {} /\ open' = open /\ alive'
    BY <1>1, <1>4 DEF UserSpeaks
  <2>3. Written(entries') /\ Len(entries') > 1
    BY <1>1, <2>1, <2>2, PlainWritten
  <2>4. QED
    BY <1>2, <1>3, <2>2, <2>3
<1>5. CASE ModelCallsTools
  <2>1. PICK calls \in SUBSET Calls \ {{}} : entries' = Append(entries, Assistant(calls)) /\ open' = calls
    BY <1>5 DEF ModelCallsTools, Unused
  <2>2. Assistant(calls) \in Entry /\ Assistant(calls).kind = "assistant" /\ Assistant(calls).calls = calls
    BY EntriesTyped DEF Assistant, Plain
  <2>3. alive' /\ Len(entries') > 1
    BY <1>1, <1>5, <2>1, <2>2 DEF ModelCallsTools, Requesting
  <2>4. Written(entries')
    BY <1>1, <2>1, <2>2, PlainWritten
  <2> DEFINE e == Assistant(calls)
             n == Len(entries) + 1
  <2>5. entries' = Append(entries, e)
    BY <2>1
  <2>6. e \in Entry /\ e.kind = "assistant" /\ e.calls = open'
    BY <2>1, <2>2
  <2> HIDE DEF e
  <2>7. /\ Len(entries') = n /\ DOMAIN entries' = 1 .. n /\ entries'[n] = e /\ n \in Nat
    BY <1>1, <2>5, <2>6
  <2>8. Awaits(entries', open')
    <3>1. \A a \in 1 .. n : Reaches(entries', a, n) => a = n
      BY <2>6, <2>7 DEF Reaches, Behind
    <3>2. open' # {} => AskerAt(entries', n)
      BY <2>6, <2>7 DEF AskerAt
    <3>3. QED
      BY <2>6, <2>7, <3>1, <3>2 DEF Awaits
  <2>9. QED
    BY <1>2, <2>3, <2>4, <2>8
<1>6. ASSUME NEW e \in Entry, e.kind \in Behind, entries' = Append(entries, e), alive' = alive,
             open # {}, open' \subseteq open,
             e.kind = "branch_summary" => entries[Len(entries)].kind # "tool_result",
             e.kind = "tool_result" => e.calls \subseteq open
      PROVE  SegInv'
  <2> DEFINE n == Len(entries)
  <2>1. /\ entries[n].kind \in Behind \/ AskerAt(entries, n)
        /\ \A a \in DOMAIN entries : Reaches(entries, a, n) => open \subseteq entries[a].calls
    BY <1>1, <1>6 DEF Awaits
  <2>2. Written(entries')
    <3>1. e.kind # "compaction"
      BY <1>6 DEF Behind
    <3>2. e.kind = "tool_result" =>
            \A a \in DOMAIN entries : Reaches(entries, a, n) => e.calls \subseteq entries[a].calls
      BY <1>6, <2>1
    <3>3. QED
      BY <1>1, <1>6, <2>1, <3>1, <3>2, AppendWritten
  <2>3. /\ Len(entries') = n + 1 /\ DOMAIN entries' = 1 .. n + 1 /\ entries'[n + 1] = e
        /\ \A i \in 1 .. n : entries'[i] = entries[i]
    BY <1>1, <1>6
  <2>4. Awaits(entries', open')
    <3>1. ASSUME NEW a \in 1 .. n + 1, Reaches(entries', a, n + 1)
          PROVE  open' \subseteq entries'[a].calls
      <4>1. a # n + 1
        BY <1>6, <2>3, <3>1 DEF Reaches, AskerAt, Behind
      <4>2. a \in 1 .. n /\ entries'[a] = entries[a]
        BY <1>1, <2>3, <4>1
      <4>3. Reaches(entries, a, n)
        BY <1>1, <2>3, <3>1, <4>2 DEF Reaches, AskerAt
      <4>4. QED
        BY <1>1, <1>6, <2>1, <4>2, <4>3
    <3>2. QED
      BY <1>6, <2>3, <3>1 DEF Awaits
  <2>5. QED
    BY <1>1, <1>2, <1>6, <2>2, <2>3, <2>4
<1>7. CASE SubagentReports
  <2>1. Plain("branch_summary") \in Entry /\ Plain("branch_summary").kind = "branch_summary"
    BY EntriesTyped DEF Kinds
  <2>2. /\ entries' = Append(entries, Plain("branch_summary")) /\ alive' = alive /\ open # {} /\ open' = open
        /\ entries[Len(entries)].kind # "tool_result"
    BY <1>7 DEF SubagentReports, Is
  <2>3. QED
    BY <1>6, <2>1, <2>2 DEF Behind
<1>8. CASE ToolReports
  <2>1. PICK c \in open : entries' = Append(entries, Result(c)) /\ open' = open \ {c} /\ alive' = alive
    BY <1>8 DEF ToolReports
  <2>2. Result(c) \in Entry /\ Result(c).kind = "tool_result" /\ Result(c).calls = {c}
    BY <1>1, <2>1, EntriesTyped DEF Result, Plain
  <2>3. QED
    BY <1>6, <2>1, <2>2 DEF Behind
<1>9. CASE FollowUp
  <2>1. PICK said \in Answered : entries' = Append(said, Plain("user"))
    BY <1>9 DEF FollowUp
  <2>2. Plain("user") \in Entry /\ Plain("user").kind = "user"
    BY EntriesTyped DEF Kinds
  <2>3. said \in Seq(Entry) /\ Len(said) > 0 /\ Written(said)
    BY AnsweredWritten
  <2>4. Written(entries') /\ Len(entries') > 1
    BY <2>1, <2>2, <2>3, PlainWritten
  <2>5. open' = {} /\ alive'
    BY <1>9 DEF FollowUp, Requesting
  <2>6. QED
    BY <1>2, <1>3, <2>4, <2>5
<1>10. CASE ModelAnswers
  <2>1. PICK said \in Answered : entries' = Archived(said) \/ entries' = said
    BY <1>10 DEF ModelAnswers
  <2>2. Written(entries')
    BY <2>1, AnsweredWritten, ArchivedWritten
  <2>3. ~alive' /\ open' = {}
    BY <1>10 DEF ModelAnswers, Requesting
  <2>4. QED
    BY <1>2, <1>3, <2>2, <2>3
<1>11. CASE Interrupted
  BY <1>1, <1>2, <1>3, <1>11 DEF Interrupted
<1>12. CASE Compact
  <2>1. Written(entries')
    BY <1>12, CompactWritten DEF SegInv
  <2>2. open' = {} /\ alive' = alive
    BY <1>12 DEF Compact, Requesting
  <2>3. Len(entries') = Len(entries) + 1
    <3>1. \E e \in Entry : entries' = Append(entries, e)
      <4>1. PICK k \in SafeCuts, rest \in SUBSET Nat :
              /\ entries' = Append(entries, Summary(Compactable \ Earlier(Compactable, k), rest))
              /\ Compactable \ Earlier(Compactable, k) \in SUBSET Nat
        BY <1>12, CompactAppends DEF SegInv
      <4>2. QED
        BY <4>1, EntriesTyped, Zenon
    <3>2. QED
      BY <1>1, <3>1
  <2>4. QED
    BY <1>1, <1>2, <1>3, <2>1, <2>2, <2>3
<1>13. CASE UNCHANGED contextVars
  BY <1>1, <1>2, <1>13 DEF contextVars
<1>14. QED
  BY <1>4, <1>5, <1>7, <1>8, <1>9, <1>10, <1>11, <1>12, <1>13 DEF ContextNext

\* Where the entries of a view stand: entries other than the system prompt and a
\* summary as they came.
LEMMA PlaceIs ==
  ASSUME ContextTypeOK, NEW i \in DOMAIN entries
  PROVE  /\ Len(entries) \in Nat /\ i \in 1 .. Len(entries) /\ Place(i) \in 0 .. Len(entries) + 1
         /\ Place(i) > 1 => Place(i) = i + 1
         /\ ~Is(i, "system") /\ ~Is(i, "compaction") => Place(i) = i + 1 /\ i > 1
<1>1. Len(entries) \in Nat /\ DOMAIN entries = 1 .. Len(entries)
  BY DEF ContextTypeOK
<1>2. ~Is(i, "system") => i > 1
  BY <1>1 DEF ContextTypeOK, Is
<1>3. QED
  BY <1>1, <1>2 DEF Place

\* Some entry of a set stands behind all others of it.
LEMMA LastByPlace ==
  ASSUME ContextTypeOK, NEW S \in SUBSET DOMAIN entries, S # {}
  PROVE  \E i \in S : \A j \in S : ~Before(i, j)
<1> DEFINE T == {Place(i) + 1 : i \in S}
<1>1. \A i \in S : Place(i) \in 0 .. Len(entries) + 1
  BY PlaceIs
<1>2. Len(entries) + 2 \in Nat
  BY DEF ContextTypeOK
<1>3. T \in SUBSET (1 .. Len(entries) + 2) /\ T # {}
  BY <1>1, <1>2
<1>4. PICK m \in T : \A t \in T : t <= m
  BY <1>2, <1>3, GreatestExists
<1>5. PICK i \in S : m = Place(i) + 1
  BY <1>4
<1>6. \A j \in S : Place(j) + 1 <= Place(i) + 1
  BY <1>4, <1>5
<1>7. QED
  BY <1>1, <1>5, <1>6 DEF Before

\* The message a request puts an entry behind: the last with calls before it.
LEMMA HeadIs ==
  ASSUME ContextTypeOK, NEW S \in SUBSET DOMAIN entries, NEW i \in S
  PROVE  \/ Heads(S, i) = {} /\ HeadPlace(S, i) = 0
         \/ \E a \in Heads(S, i) : HeadPlace(S, i) = a + 1 /\ \A b \in Heads(S, i) : b <= a
<1>1. \A a \in Heads(S, i) : a \in DOMAIN entries /\ Asks(a)
  BY DEF Heads
<1>2. \A a \in Heads(S, i) : a \in Nat /\ Place(a) = a + 1
  BY <1>1, PlaceIs DEF Asks, Is
<1>3. CASE Heads(S, i) = {}
  BY <1>3 DEF HeadPlace
<1>4. CASE Heads(S, i) # {}
  <2> DEFINE a == CHOOSE a \in Heads(S, i) : \A b \in Heads(S, i) : ~Before(a, b)
  <2>1. \E x \in Heads(S, i) : \A b \in Heads(S, i) : ~Before(x, b)
    BY <1>1, <1>4, LastByPlace
  <2>2. a \in Heads(S, i) /\ \A b \in Heads(S, i) : ~Before(a, b)
    BY <2>1, Zenon
  <2>3. HeadPlace(S, i) = Place(a)
    BY <1>4 DEF HeadPlace
  <2> HIDE DEF a
  <2>4. \A b \in Heads(S, i) : b <= a
    BY <1>2, <2>2 DEF Before
  <2>5. QED
    BY <1>2, <2>2, <2>3, <2>4
<1>5. QED
  BY <1>3, <1>4

\* A result whose message is sent too, with no other message with calls between
\* them, is sent among the results of that message.
LEMMA PairedWhen ==
  ASSUME ContextTypeOK, NEW S \in SUBSET DOMAIN entries, NEW r \in S, NEW a \in S,
         Answers(r, a), a < r, \A b \in S : Asks(b) /\ b <= r => b <= a
  PROVE  /\ SentBefore(S, a, r)
         /\ \A i \in S : SentBefore(S, a, i) /\ SentBefore(S, i, r) => Answers(i, a)
<1>1. Asks(a) /\ Is(r, "tool_result") /\ entries[r].calls \subseteq entries[a].calls
  BY DEF Answers
<1>2. /\ Len(entries) \in Nat /\ a \in 1 .. Len(entries) /\ r \in 1 .. Len(entries)
      /\ Place(a) = a + 1 /\ Place(r) = r + 1 /\ a > 1
  BY <1>1, PlaceIs DEF Asks, Is
<1>3. \A b \in S : Asks(b) => Place(b) = b + 1 /\ b \in Nat
  BY PlaceIs DEF Asks, Is
<1>4. /\ a \in Heads(S, a) /\ \A b \in Heads(S, a) : b <= a
      /\ a \in Heads(S, r) /\ \A b \in Heads(S, r) : b <= a
  BY <1>1, <1>2, <1>3 DEF Heads, Before
<1>5. HeadPlace(S, a) = a + 1 /\ HeadPlace(S, r) = a + 1
  <2>1. \A i \in {a, r} : HeadPlace(S, i) = a + 1
    <3> SUFFICES ASSUME NEW i \in {a, r} PROVE HeadPlace(S, i) = a + 1
      OBVIOUS
    <3>1. a \in Heads(S, i) /\ \A b \in Heads(S, i) : b <= a /\ b \in Nat
      BY <1>3, <1>4 DEF Heads
    <3>2. PICK x \in Heads(S, i) : HeadPlace(S, i) = x + 1 /\ \A b \in Heads(S, i) : b <= x
      BY <3>1, HeadIs, Zenon
    <3>3. x = a
      BY <1>2, <3>1, <3>2
    <3>4. QED
      BY <3>2, <3>3
  <2>2. QED
    BY <2>1
<1>6. Standing(S, a) = 0
  BY <1>2, <1>5 DEF Standing
<1>7. Standing(S, r) = 1
  <2>1. OfHead(S, r)
    BY <1>1, <1>2, <1>4, <1>5, Zenon DEF OfHead
  <2>2. Place(r) # HeadPlace(S, r)
    BY <1>2, <1>5
  <2>3. QED
    BY <2>1, <2>2 DEF Standing
<1>8. SentBefore(S, a, r)
  BY <1>5, <1>6, <1>7 DEF SentBefore
<1>9. ASSUME NEW i \in S, SentBefore(S, a, i), SentBefore(S, i, r)
      PROVE  Answers(i, a)
  <2>1. HeadPlace(S, i) \in Int
    BY <1>3, HeadIs DEF Heads
  <2>2. HeadPlace(S, i) = a + 1
    BY <1>2, <1>5, <1>9, <2>1 DEF SentBefore
  <2>3. Standing(S, i) \in {0, 1, 2}
    BY DEF Standing
  <2>4. /\ 0 < Standing(S, i) \/ (0 = Standing(S, i) /\ Before(a, i))
        /\ Standing(S, i) < 1 \/ Standing(S, i) = 1
    BY <1>2, <1>5, <1>6, <1>7, <1>9, <2>2, <2>3 DEF SentBefore
  <2>5. Standing(S, i) # 0 \/ ~Before(a, i)
    <3>1. Standing(S, i) = 0 => Place(i) = HeadPlace(S, i)
      BY DEF Standing
    <3>2. QED
      BY <1>2, <2>2, <3>1 DEF Before
  <2>6. Standing(S, i) = 1
    BY <2>3, <2>4, <2>5
  <2>7. OfHead(S, i)
    BY <2>6 DEF Standing
  <2>8. PICK x \in Heads(S, i) : /\ Place(x) = HeadPlace(S, i) /\ Is(i, "tool_result")
                                 /\ entries[i].calls \subseteq entries[x].calls
    BY <2>7 DEF OfHead
  <2>9. x = a
    BY <1>2, <1>3, <2>2, <2>8 DEF Heads
  <2>10. QED
    BY <1>1, <2>8, <2>9 DEF Answers
<1>10. QED
  BY <1>8, <1>9

\* The message a result of the session answers.
Owned(a, r) == a < r /\ Answers(r, a) /\ Reaches(entries, a, r)

\* If S has the messages of its results, they are paired in it.
LEMMA OwnersSuffice ==
  ASSUME ContextTypeOK, NEW S \in SUBSET DOMAIN entries,
         \A r \in OfKind(S, "tool_result") : \E a \in S : Owned(a, r)
  PROVE  PairedIn(S)
<1> SUFFICES ASSUME NEW r \in OfKind(S, "tool_result")
             PROVE  \E a \in S : /\ Answers(r, a) /\ SentBefore(S, a, r)
                                 /\ \A i \in S : SentBefore(S, a, i) /\ SentBefore(S, i, r) => Answers(i, a)
  BY Zenon DEF PairedIn
<1>1. PICK a \in S : Owned(a, r)
  OBVIOUS
<1>2. r \in S
  BY DEF OfKind
<1>3. Len(entries) \in Nat /\ a \in 1 .. Len(entries) /\ r \in 1 .. Len(entries) /\ DOMAIN entries = 1 .. Len(entries)
  BY <1>2 DEF ContextTypeOK
<1>4. ASSUME NEW b \in S, Asks(b), b <= r
      PROVE  b <= a
  <2>1. b \in 1 .. Len(entries) /\ entries[b].kind \notin Behind
    BY <1>3, <1>4 DEF Asks, Is, Behind
  <2>2. b \notin a + 1 .. r
    BY <1>1, <2>1 DEF Owned, Reaches
  <2>3. QED
    BY <1>3, <1>4, <2>1, <2>2
<1>5. a < r /\ Answers(r, a)
  BY <1>1 DEF Owned
<1>6. /\ SentBefore(S, a, r)
      /\ \A i \in S : SentBefore(S, a, i) /\ SentBefore(S, i, r) => Answers(i, a)
  BY <1>2, <1>4, <1>5, PairedWhen
<1>7. QED
  BY <1>5, <1>6

\* A view shows the message of every result it shows.
LEMMA ViewHasOwners ==
  ASSUME ContextTypeOK, Written(entries), AsidesApart(entries)
  PROVE  /\ View \in SUBSET DOMAIN entries
         /\ \A r \in OfKind(View, "tool_result") : \E a \in View : Owned(a, r)
<1>1. Len(entries) \in Nat /\ DOMAIN entries = 1 .. Len(entries) /\ 1 \in 1 .. Len(entries) /\ entries \in Seq(Entry)
  BY DEF ContextTypeOK
<1>2. Compactions \in SUBSET (1 .. Len(entries))
  BY <1>1 DEF Compactions, OfKind
<1> DEFINE c == Latest(Compactions)
<1>3. Compactions # {} => /\ c \in Compactions /\ \A d \in Compactions : d <= c
                          /\ View = {1, c} \cup {i \in DOMAIN entries : i > c \/ i \in entries[c].kept}
  BY <1>1, <1>2, LatestIsGreatest, Zenon DEF View
<1>4. Compactions = {} => View = DOMAIN entries
  BY DEF View
<1> HIDE DEF c
<1>5. View \in SUBSET DOMAIN entries
  BY <1>1, <1>2, <1>3, <1>4
<1>6. ASSUME NEW r \in OfKind(View, "tool_result")
      PROVE  \E a \in View : Owned(a, r)
  <2>1. r \in View /\ r \in 1 .. Len(entries) /\ entries[r].kind = "tool_result"
    BY <1>1, <1>5 DEF OfKind, Is
  <2>2. PICK a \in 1 .. r - 1 : Reaches(entries, a, r) /\ entries[r].calls \subseteq entries[a].calls
    BY <1>1, <2>1, OwnerExists DEF Written
  <2>3. a \in 1 .. Len(entries) /\ a < r
    BY <1>1, <2>1, <2>2
  <2>4. Owned(a, r)
    BY <2>1, <2>2, <2>3 DEF Owned, Answers, Asks, Is, Reaches, AskerAt
  <2>5. a \in View
    <3>1. CASE Compactions = {}
      BY <1>1, <1>4, <2>3, <3>1
    <3>2. CASE Compactions # {}
      <4>1. c \in 1 .. Len(entries) /\ entries[c].kind = "compaction"
        BY <1>2, <1>3, <3>2 DEF Compactions, OfKind, Is
      <4>2. c # a /\ c \notin a + 1 .. r
        BY <2>2, <4>1 DEF Reaches, AskerAt, Behind
      <4>3. CASE r > c
        <5>1. a > c
          BY <2>1, <2>3, <4>1, <4>2, <4>3
        <5>2. QED
          BY <1>1, <1>3, <2>3, <3>2, <5>1
      <4>4. CASE ~(r > c)
        <5>1. r # 1 /\ r # c
          BY <2>1, <2>3, <4>1
        <5>2. r < c /\ r \in entries[c].kept
          BY <1>3, <2>1, <3>2, <4>1, <4>4, <5>1
        <5> DEFINE T == {i \in a .. r : \A j \in i .. r : j \in entries[c].kept}
        <5>3. r \in T /\ T \in SUBSET Nat
          BY <2>1, <2>3, <5>2
        <5>4. PICK m \in T : \A i \in T : m <= i
          BY <5>3, LeastExists
        <5>5. m = a
          <6> SUFFICES ASSUME m # a PROVE FALSE
            OBVIOUS
          <6>1. m \in a + 1 .. r /\ m \in 1 .. Len(entries) /\ m < c /\ m \in entries[c].kept
            BY <2>1, <2>3, <4>1, <5>2, <5>4
          <6>2. entries[m].kind \in Behind
            BY <2>2, <6>1 DEF Reaches
          <6>3. m - 1 \in entries[c].kept
            BY <1>1, <4>1, <6>1, <6>2 DEF Written, KeptWhole
          <6>4. m - 1 \in T
            <7>1. \A j \in m .. r : j \in entries[c].kept
              BY <5>4
            <7>2. \A j \in m - 1 .. r : j = m - 1 \/ j \in m .. r
              BY <2>1, <6>1
            <7>3. m - 1 \in a .. r
              BY <2>1, <2>3, <6>1
            <7>4. QED
              BY <6>3, <7>1, <7>2, <7>3
          <6>5. m - 1 >= m
            BY <5>4, <6>4
          <6>6. QED
            BY <2>1, <2>3, <6>1, <6>5
        <5>6. a \in entries[c].kept
          BY <2>1, <2>3, <5>4, <5>5
        <5>7. QED
          BY <1>1, <1>3, <2>3, <3>2, <5>6
      <4>5. QED
        BY <4>3, <4>4
    <3>3. QED
      BY <3>1, <3>2
  <2>6. QED
    BY <2>4, <2>5
<1>7. QED
  BY <1>5, <1>6

\* Without summaries of subagents a result is in the group of its message.
LEMMA LeaderIsOwner ==
  ASSUME ContextTypeOK, Asides = {}, View \in SUBSET DOMAIN entries,
         NEW r \in OfKind(View, "tool_result"), NEW a \in View, Owned(a, r)
  PROVE  a \in Leaders /\ Leader(r) = a /\ Asks(a)
<1>1. /\ r \in View /\ Is(r, "tool_result") /\ a < r /\ Asks(a) /\ Reaches(entries, a, r)
  BY DEF OfKind, Owned, Answers
<1>2. /\ Len(entries) \in Nat /\ DOMAIN entries = 1 .. Len(entries)
      /\ a \in 1 .. Len(entries) /\ r \in 1 .. Len(entries)
      /\ Place(a) = a + 1 /\ a > 1 /\ Place(r) = r + 1
  <2>1. a \in DOMAIN entries /\ r \in DOMAIN entries
    BY <1>1
  <2>2. ~Is(a, "system") /\ ~Is(a, "compaction") /\ ~Is(r, "system") /\ ~Is(r, "compaction")
    BY <1>1 DEF Asks, Is
  <2>3. QED
    BY <2>1, <2>2, PlaceIs DEF ContextTypeOK
<1>3. a \in Leaders /\ r \notin Leaders
  BY <1>1 DEF Leaders, Asks, Is
<1>4. \A i \in a + 1 .. r : i \notin Leaders
  <2> SUFFICES ASSUME NEW i \in a + 1 .. r PROVE i \notin Leaders
    OBVIOUS
  <2>1. i \in DOMAIN entries /\ entries[i].kind \in Behind
    BY <1>1, <1>2 DEF Reaches
  <2>2. entries[i].kind # "branch_summary"
    BY <2>1 DEF Asides, OfKind, Is
  <2>3. QED
    BY <2>1, <2>2 DEF Leaders, Is, Behind
<1>5. \A k \in Leaders : Before(k, r) => Place(k) <= a + 1 /\ Place(k) \in Int
  <2> SUFFICES ASSUME NEW k \in Leaders, Before(k, r) PROVE Place(k) <= a + 1 /\ Place(k) \in Int
    OBVIOUS
  <2>1. k \in DOMAIN entries
    BY DEF Leaders
  <2>2. /\ k \in 1 .. Len(entries) /\ Place(k) \in 0 .. Len(entries) + 1 /\ (Place(k) > 1 => Place(k) = k + 1)
    BY <2>1, PlaceIs
  <2>3. k \notin a + 1 .. r
    BY <1>4
  <2>4. QED
    BY <1>2, <2>2, <2>3 DEF Before
<1>6. \A k \in Leaders : Place(k) = a + 1 => k = a
  <2> SUFFICES ASSUME NEW k \in Leaders, Place(k) = a + 1 PROVE k = a
    OBVIOUS
  <2>1. k \in DOMAIN entries
    BY DEF Leaders
  <2>2. /\ k \in 1 .. Len(entries) /\ (Place(k) > 1 => Place(k) = k + 1)
    BY <2>1, PlaceIs
  <2>3. QED
    BY <1>2, <2>2
<1> DEFINE Cand(j) == Before(j, r) /\ \A k \in Leaders : Before(k, r) => ~Before(j, k)
<1>7. Cand(a)
  <2>1. Before(a, r)
    BY <1>1, <1>2 DEF Before
  <2>2. ASSUME NEW k \in Leaders, Before(k, r) PROVE ~Before(a, k)
    BY <1>2, <1>5, <2>2 DEF Before
  <2>3. QED
    BY <2>1, <2>2
<1>8. \A j \in Leaders : Cand(j) => j = a
  <2> SUFFICES ASSUME NEW j \in Leaders, Cand(j) PROVE j = a
    OBVIOUS
  <2>1. Before(a, r)
    BY <1>7
  <2>2. Place(j) <= a + 1 /\ Place(j) \in Int /\ ~Before(j, a)
    BY <1>3, <1>5, <2>1
  <2>3. Place(j) = a + 1
    BY <1>2, <2>2 DEF Before
  <2>4. QED
    BY <1>6, <2>3
<1>9. JustBefore(Leaders, r) = CHOOSE j \in Leaders : Cand(j)
  BY DEF JustBefore
<1> HIDE DEF Cand
<1>10. JustBefore(Leaders, r) = a
  BY <1>3, <1>7, <1>8, <1>9
<1>11. QED
  BY <1>1, <1>3, <1>10 DEF Leader

\* So what keeps whole groups keeps the messages of its results.
LEMMA GroupsPaired ==
  ASSUME ContextTypeOK, Written(entries), Asides = {},
         NEW chosen \in SUBSET Leaders
  PROVE  PairedIn(Mandatory \cup UNION {Group(i) : i \in chosen})
<1> DEFINE S == Mandatory \cup UNION {Group(i) : i \in chosen}
<1>1. AsidesApart(entries)
  BY DEF AsidesApart, Asides, OfKind, Is
<1>2. /\ View \in SUBSET DOMAIN entries
      /\ \A r \in OfKind(View, "tool_result") : \E a \in View : Owned(a, r)
  BY <1>1, ViewHasOwners
<1>3. 1 \in DOMAIN entries /\ entries[1].kind = "system"
  BY DEF ContextTypeOK
<1>4. \A i \in Mandatory : i \in DOMAIN entries /\ ~Is(i, "tool_result")
  BY <1>2, <1>3 DEF Mandatory, OfKind, Is
<1>5. \A i \in chosen : Group(i) \subseteq View /\ i \in Group(i)
  BY DEF Group, Leaders, OfKind
<1>6. S \in SUBSET DOMAIN entries
  BY <1>2, <1>4, <1>5
<1>7. ASSUME NEW r \in OfKind(S, "tool_result")
      PROVE  \E a \in S : Owned(a, r)
  <2>1. r \in S /\ Is(r, "tool_result")
    BY DEF OfKind
  <2>2. PICK i \in chosen : r \in Group(i)
    BY <1>4, <2>1
  <2>3. r # i
    BY <2>1 DEF Leaders
  <2>4. r \in OfKind(View, "tool_result") /\ Leader(r) = i
    BY <2>2, <2>3 DEF Group
  <2>5. PICK a \in View : Owned(a, r)
    BY <1>2, <2>4
  <2>6. a = i
    BY <1>2, <2>4, <2>5, LeaderIsOwner
  <2>7. i \in S
    BY <1>5
  <2>8. QED
    BY <2>5, <2>6, <2>7
<1> HIDE DEF S
<1>8. PairedIn(S)
  BY <1>6, <1>7, OwnersSuffice
<1>9. QED
  BY <1>8 DEF S

\* An aggressive trim finds an entry before the last one, and keeps their groups.
LEMMA AggressiveGroups ==
  ASSUME ContextTypeOK, Written(entries), Asides = {}, Len(entries) > 1
  PROVE  \E chosen \in SUBSET Leaders : AggressiveTrim = Mandatory \cup UNION {Group(i) : i \in chosen}
<1>1. AsidesApart(entries)
  BY DEF AsidesApart, Asides, OfKind, Is
<1>2. /\ View \in SUBSET DOMAIN entries
      /\ \A r \in OfKind(View, "tool_result") : \E a \in View : Owned(a, r)
  BY <1>1, ViewHasOwners
<1>3. Len(entries) \in Nat /\ DOMAIN entries = 1 .. Len(entries) /\ entries[1].kind = "system"
      /\ \A i \in DOMAIN entries : entries[i].kind = "system" => i = 1
  BY DEF ContextTypeOK
<1>4. 1 \in View
  BY <1>3 DEF View
<1>5. 1 \in Leaders /\ Leaders \in SUBSET DOMAIN entries
  BY <1>2, <1>3, <1>4 DEF Leaders, Is
<1>6. \E i \in Leaders : i # 1
  <2>1. CASE Compactions = {}
    <3>1. 2 \in View /\ 2 \in DOMAIN entries
      BY <1>3, <2>1 DEF View
    <3>2. entries[2].kind # "tool_result"
      <4> SUFFICES ASSUME entries[2].kind = "tool_result" PROVE FALSE
        OBVIOUS
      <4>1. entries[1].kind \in Behind \/ AskerAt(entries, 1)
        <5>1. 2 - 1 = 1
          OBVIOUS
        <5>2. QED
          BY <3>1, <5>1 DEF Written, Follows, Behind
      <4>2. QED
        BY <1>3, <4>1 DEF Behind, AskerAt
    <3>3. QED
      BY <3>1, <3>2 DEF Leaders, Is
  <2>2. CASE Compactions # {}
    <3>1. Compactions \in SUBSET (1 .. Len(entries))
      BY <1>3 DEF Compactions, OfKind
    <3>2. Latest(Compactions) \in Compactions
      BY <1>3, <2>2, <3>1, LatestIsGreatest
    <3>3. Latest(Compactions) \in View
      BY <2>2 DEF View
    <3>4. QED
      BY <1>3, <3>2, <3>3 DEF Leaders, Compactions, OfKind, Is
  <2>3. QED
    BY <2>1, <2>2
<1> DEFINE latest   == CHOOSE i \in Leaders : \A j \in Leaders : ~Before(i, j)
           previous == JustBefore(View, latest)
<1>7. latest \in Leaders /\ \A j \in Leaders : ~Before(latest, j)
  <2>1. \E i \in Leaders : \A j \in Leaders : ~Before(i, j)
    BY <1>5, LastByPlace
  <2>2. QED
    BY <2>1, Zenon
<1>8. AggressiveTrim = Mandatory \cup Group(latest) \cup
        (IF Orphan(previous) THEN {previous} ELSE Group(Leader(previous)))
  BY DEF AggressiveTrim
<1> HIDE DEF latest
<1>9. Before(1, latest)
  <2>1. PICK i \in Leaders : i # 1
    BY <1>6
  <2>2. Place(1) = 0 /\ Place(i) # 0 /\ Place(i) \in Nat /\ Place(latest) \in Nat
    <3>1. i \in DOMAIN entries /\ ~Is(i, "system") /\ Is(1, "system")
      BY <1>3, <1>5, <2>1 DEF Is
    <3>2. Place(i) \in Nat /\ Place(latest) \in Nat /\ i \in Nat
      BY <1>3, <1>5, <1>7, <3>1, PlaceIs
    <3>3. QED
      BY <3>1, <3>2 DEF Place
  <2>3. QED
    BY <1>7, <2>1, <2>2 DEF Before
<1>10. previous \in View
  <2> DEFINE P == {j \in View : Before(j, latest)}
  <2>1. P \in SUBSET DOMAIN entries /\ P # {}
    BY <1>2, <1>4, <1>9
  <2>2. PICK j \in P : \A k \in P : ~Before(j, k)
    BY <2>1, LastByPlace
  <2>3. \E x \in View : Before(x, latest) /\ \A k \in View : Before(k, latest) => ~Before(x, k)
    BY <2>2
  <2>4. QED
    BY <2>3, Zenon DEF JustBefore
<1> HIDE DEF previous
<1>11. Leader(previous) \in Leaders /\ ~Orphan(previous)
  <2>1. CASE Is(previous, "tool_result")
    <3>1. previous \in OfKind(View, "tool_result")
      BY <1>10, <2>1 DEF OfKind
    <3>2. PICK a \in View : Owned(a, previous)
      BY <1>2, <3>1
    <3>3. a \in Leaders /\ Leader(previous) = a /\ Asks(a)
      BY <1>2, <3>1, <3>2, LeaderIsOwner
    <3>4. QED
      BY <3>3 DEF Orphan
  <2>2. CASE ~Is(previous, "tool_result")
    BY <1>10, <2>2 DEF Leader, Leaders, Orphan
  <2>3. QED
    BY <2>1, <2>2
<1>12. AggressiveTrim = Mandatory \cup UNION {Group(i) : i \in {latest, Leader(previous)}}
  BY <1>8, <1>11
<1>13. QED
  BY <1>7, <1>11, <1>12

\* No request parts a result from the message that asked for it.
LEMMA SegPairs == SegInv => ViewsKeepPairs
<1> SUFFICES ASSUME SegInv PROVE ViewsKeepPairs
  OBVIOUS
<1>1. ContextTypeOK /\ Written(entries) /\ (alive => Len(entries) > 1)
  BY DEF SegInv
<1>2. Len(entries) \in Nat /\ DOMAIN entries = 1 .. Len(entries) /\ entries[1].kind = "system"
  BY <1>1 DEF ContextTypeOK
<1>3. ViewKeepsPairs
  <2> SUFFICES ASSUME \A i \in Asides : i + 1 \notin Asides PROVE PairedIn(View)
    BY DEF ViewKeepsPairs
  <2>1. AsidesApart(entries)
    BY <1>2 DEF AsidesApart, Asides, OfKind, Is
  <2>2. QED
    BY <1>1, <2>1, ViewHasOwners, OwnersSuffice
<1>4. TrimKeepsPairs
  <2> SUFFICES ASSUME Requesting, Asides = {}, NEW S \in Trims PROVE PairedIn(S)
    BY DEF TrimKeepsPairs
  <2>1. CASE S \in HardTrims
    <3>1. PICK chosen \in SUBSET (Leaders \ Mandatory) : S = Mandatory \cup UNION {Group(i) : i \in chosen}
      BY <2>1 DEF HardTrims
    <3>2. QED
      BY <1>1, <3>1, GroupsPaired
  <2>2. CASE S = AggressiveTrim
    <3>1. PICK chosen \in SUBSET Leaders : AggressiveTrim = Mandatory \cup UNION {Group(i) : i \in chosen}
      BY <1>1, AggressiveGroups DEF Requesting
    <3>2. QED
      BY <1>1, <2>2, <3>1, GroupsPaired
  <2>3. CASE S = Mandatory
    <3>1. S = Mandatory \cup UNION {Group(i) : i \in {}}
      BY <2>3
    <3>2. QED
      BY <1>1, <3>1, GroupsPaired
  <2>4. CASE S = SystemOnly
    <3>1. \A r \in S : ~Is(r, "tool_result")
      BY <1>2, <2>4 DEF SystemOnly, Compactions, OfKind, Is
    <3>2. QED
      BY <3>1 DEF PairedIn, OfKind
  <2>5. QED
    BY <2>1, <2>2, <2>3, <2>4 DEF Trims
<1>5. QED
  BY <1>1, <1>3, <1>4 DEF ViewsKeepPairs

\* In whatever a request shows of a session, trimmed or not, a result stands with
\* the message that asked for it, within the limits ViewsKeepPairs names.
THEOREM PairsStayTogether == ContextSpec => []ViewsKeepPairs
<1>1. ContextInit => SegInv
  BY SegInit
<1>2. SegInv /\ ContextTypeOK' /\ [ContextNext]_contextVars => SegInv'
  BY SegNext
<1>3. QED
  BY <1>1, <1>2, SegPairs, ContextTyped, PTL DEF ContextSpec

----------------------------------------
(* Routing.                                                                  *)

\* Configured providers: ids with their formats.
GoodEntries(es) == DOMAIN es \subseteq Providers /\ \A p \in DOMAIN es : es[p] \in Formats

\* The phases in which a command has been settled.
Settled == {"resolved", "ready", "failed"}

Resolved ==
  /\ phase = "parsed" => Missing(flags) = {} \/ (kind = "chat" /\ saved # Unset)
  /\ phase \in Settled =>
       /\ cmd.provider \in Providers /\ cmd.url \in Providers /\ cmd.format \in Formats
       /\ GoodEntries(cmd.entries)
  /\ phase = "ready" =>
       /\ registered = ProviderConfigs
       /\ RoutedModels \subseteq DOMAIN registered
       /\ models = [p \in RoutedModels |-> ProviderFormat(p)]
  /\ saved # Unset /\ saved.entries # Unset => GoodEntries(saved.entries)

\* A command resolved without flags is the one saved, and stays it when it is saved
\* again.
Resumed ==
  phase \in Settled /\ kind = "chat" /\ saved # Unset /\ flags = NoFlags =>
    /\ cmd.provider = saved.provider /\ cmd.url = saved.url
    /\ saved.entries # Unset => cmd.entries = saved.entries
    /\ saved.routing # Unset => cmd.routing = saved.routing

RoutingInv == Resolved /\ Resumed /\ RoutingKept

LEMMA RoutingInitHolds == RoutingInit => RoutingInv
<1> SUFFICES ASSUME RoutingInit PROVE RoutingInv
  OBVIOUS
<1> USE RoutingAssumption
<1>1. RoutingTypeOK
  <2>1. flags \in Flags /\ config \in Configs \union {NoConfig} /\ agent \in AgentRoutings
    BY DEF RoutingInit, Flags, NoFlags, AgentRoutings
  <2>2. QED
    BY <2>1 DEF RoutingInit, RoutingTypeOK
<1>2. QED
  BY <1>1 DEF RoutingInit, RoutingInv, Resolved, Resumed, RoutingKept, Settled, MainAlwaysRegistered,
     EndpointsStay, ResumedAsSaved

\* What the config file gives.
LEMMA EntriesGood == RoutingTypeOK => GoodEntries(Entries)
<1> SUFFICES ASSUME RoutingTypeOK PROVE GoodEntries(Entries)
  OBVIOUS
<1>1. \A p \in Providers : config.entries[p] \in {Unset, Misplaced, "anthropic-messages"}
  BY DEF RoutingTypeOK, Configs, NoConfig
<1>2. QED
  BY <1>1 DEF GoodEntries, Entries, Formats

LEMMA OwnGiven ==
  ASSUME RoutingTypeOK
  PROVE  /\ config.own = Unset \/ config.own \in Providers
         /\ flags.provider \in {Unset, Other} /\ flags.url \in {Unset, Other}
         /\ flags.format \in {Unset, "openai-chat"} /\ DOMAIN flags = {"provider", "url", "format"}
BY RoutingAssumption DEF RoutingTypeOK, Configs, NoConfig, Flags

LEMMA ResolveKeeps ==
  ASSUME RoutingInv, Resolve
  PROVE  RoutingInv'
<1> USE RoutingAssumption
<1>0. RoutingTypeOK /\ Resolved /\ Resumed /\ MainAlwaysRegistered
  BY DEF RoutingInv, RoutingKept
<1>1. /\ phase = "parsed" /\ phase' = "resolved"
      /\ UNCHANGED <<launches, config, agent, kind, flags, saved, registered, models, last>>
      /\ cmd' = IF kind = "chat" THEN ResolvedChat ELSE ResolvedRun
  BY DEF Resolve
<1>2. /\ saved # Unset => /\ saved.provider \in Providers /\ saved.url \in Providers /\ saved.format \in Formats
                          /\ saved.entries # Unset => GoodEntries(saved.entries)
      /\ Missing(flags) = {} \/ (kind = "chat" /\ saved # Unset)
  BY <1>0, <1>1 DEF RoutingTypeOK, Resolved
<1>3. CASE kind = "chat"
  <2>1. cmd' = ResolvedChat
    BY <1>1, <1>3
  <2>2. cmd'.provider \in Providers /\ cmd'.url \in Providers /\ cmd'.format \in Formats
    BY <1>0, <1>2, <2>1, OwnGiven DEF ResolvedChat, Settle, StoredField, Or, Missing, Formats
  <2>3. GoodEntries(cmd'.entries)
    BY <1>0, <1>2, <2>1, EntriesGood DEF ResolvedChat, StoredField, Or
  <2>4. ASSUME saved # Unset, flags = NoFlags
        PROVE  /\ cmd'.provider = saved.provider /\ cmd'.url = saved.url
               /\ saved.entries # Unset => cmd'.entries = saved.entries
               /\ saved.routing # Unset => cmd'.routing = saved.routing
    BY <1>2, <2>1, <2>4 DEF ResolvedChat, Settle, StoredField, Or, Overrides, NoFlags
  <2>5. QED
    BY <1>0, <1>1, <2>2, <2>3, <2>4 DEF RoutingInv, Resolved, Resumed, RoutingKept, RoutingTypeOK, Settled,
       MainAlwaysRegistered, EndpointsStay, ResumedAsSaved
<1>4. CASE kind # "chat"
  <2>1. cmd' = ResolvedRun
    BY <1>1, <1>4
  <2>2. cmd'.provider \in Providers /\ cmd'.url \in Providers /\ cmd'.format \in Formats
    BY <1>0, <1>2, <1>4, <2>1, OwnGiven DEF ResolvedRun, Or, Missing, Formats
  <2>3. GoodEntries(cmd'.entries)
    BY <1>0, <2>1, EntriesGood DEF ResolvedRun
  <2>4. QED
    BY <1>0, <1>1, <1>4, <2>2, <2>3 DEF RoutingInv, Resolved, Resumed, RoutingKept, RoutingTypeOK, Settled,
       MainAlwaysRegistered, EndpointsStay, ResumedAsSaved
<1>5. QED
  BY <1>3, <1>4

LEMMA RegisterKeeps ==
  ASSUME RoutingInv, Register
  PROVE  RoutingInv'
<1> USE RoutingAssumption
<1>0. RoutingTypeOK /\ Resolved /\ Resumed /\ MainAlwaysRegistered
  BY DEF RoutingInv, RoutingKept
<1>1. /\ phase = "resolved" /\ phase' \in {"ready", "failed"}
      /\ UNCHANGED <<launches, config, agent, kind, flags, saved, cmd, last>>
      /\ registered' = ProviderConfigs
  BY DEF Register
<1>2. /\ phase' = "ready" => RoutedModels \subseteq DOMAIN registered' /\ models' = [p \in RoutedModels |-> ProviderFormat(p)]
      /\ phase' = "failed" => models' = << >>
  BY DEF Register
<1>3. /\ cmd.provider \in Providers /\ cmd.url \in Providers /\ cmd.format \in Formats /\ GoodEntries(cmd.entries)
  BY <1>0, <1>1 DEF Resolved, Settled
<1>4. /\ DOMAIN registered' = DOMAIN cmd.entries \union {cmd.provider}
      /\ \A p \in DOMAIN registered' : registered'[p] \in [url : Providers, format : Formats]
      /\ \A p \in DOMAIN registered' : p # cmd.provider => registered'[p].url = p
  BY <1>1, <1>3 DEF ProviderConfigs, PrimaryConfig, GoodEntries
<1>5. ASSUME phase' = "ready"
      PROVE  DOMAIN models' \subseteq DOMAIN registered' /\ \A p \in DOMAIN models' : models'[p] \in Formats
  BY <1>2, <1>3, <1>5 DEF ProviderFormat, GoodEntries
<1>6. RoutingTypeOK'
  <2>1. DOMAIN models' \subseteq DOMAIN registered' /\ \A p \in DOMAIN models' : models'[p] \in Formats
    BY <1>1, <1>2, <1>5
  <2>2. DOMAIN registered' \subseteq Providers
    BY <1>3, <1>4 DEF GoodEntries
  <2>3. QED
    BY <1>0, <1>1, <1>4, <2>1, <2>2 DEF RoutingTypeOK
<1>7. Resolved'
  <2>1. /\ ProviderConfigs' = ProviderConfigs /\ RoutedModels' = RoutedModels
        /\ \A p : ProviderFormat(p)' = ProviderFormat(p)
    BY <1>1 DEF ProviderConfigs, PrimaryConfig, RoutedModels, EffectiveRouting, ProviderFormat
  <2>2. phase' = "ready" => models' = [p \in RoutedModels' |-> ProviderFormat(p)']
    BY <1>2, <2>1
  <2>3. QED
    BY <1>0, <1>1, <1>2, <1>3, <2>1, <2>2 DEF Resolved, Settled
<1>8. Resumed' /\ MainAlwaysRegistered' /\ EndpointsStay' /\ ResumedAsSaved'
  BY <1>0, <1>1, <1>4 DEF Resumed, Settled, MainAlwaysRegistered, EndpointsStay, ResumedAsSaved
<1>9. QED
  BY <1>6, <1>7, <1>8 DEF RoutingInv, RoutingKept

\* Whatever the main agent's routing picks, the command has registered it with one
\* reading of its format.
LEMMA AskServed ==
  ASSUME RoutingInv, phase = "ready", NEW purpose \in Purposes
  PROVE  Outcome(AliasModel(EffectiveRouting, RouteAlias(EffectiveRouting, purpose), cmd.provider))
           \in {"served", "missing alias"}
<1> DEFINE p == AliasModel(EffectiveRouting, RouteAlias(EffectiveRouting, purpose), cmd.provider)
<1>1. p = Unset \/ p \in RoutedModels
  BY DEF AliasModel, RoutedModels
<1> HIDE DEF p
<1>2. ASSUME p \in RoutedModels
      PROVE  p \in DOMAIN registered /\ p \in DOMAIN models /\ registered[p].format = models[p]
  <2>1. /\ registered = ProviderConfigs /\ RoutedModels \subseteq DOMAIN registered
        /\ models = [q \in RoutedModels |-> ProviderFormat(q)]
    BY DEF RoutingInv, Resolved
  <2>2. p \in DOMAIN registered /\ p \in DOMAIN models /\ models[p] = ProviderFormat(p)
    BY <1>2, <2>1
  <2>3. registered[p].format = ProviderFormat(p)
    BY <2>1, <2>2 DEF ProviderConfigs, PrimaryConfig, ProviderFormat
  <2>4. QED
    BY <2>2, <2>3
<1>3. Outcome(p) \in {"served", "missing alias"}
  BY <1>1, <1>2 DEF Outcome
<1>4. QED
  BY <1>3 DEF p

\* What the command was made of does not change under it.
LEMMA ResolvedStays ==
  ASSUME Resolved, UNCHANGED <<phase, config, agent, kind, flags, cmd, registered, models>>,
         phase = "ready" \/ saved' = saved,
         saved' # Unset /\ saved'.entries # Unset => GoodEntries(saved'.entries)
  PROVE  Resolved'
<1>1. /\ ProviderConfigs' = ProviderConfigs /\ RoutedModels' = RoutedModels
      /\ \A p : ProviderFormat(p)' = ProviderFormat(p)
      /\ Missing(flags)' = Missing(flags)
  BY DEF ProviderConfigs, PrimaryConfig, RoutedModels, EffectiveRouting, ProviderFormat, Missing
<1>2. phase' = "ready" => models' = [p \in RoutedModels' |-> ProviderFormat(p)']
  BY <1>1 DEF Resolved
<1>3. phase' \in Settled => GoodEntries(cmd'.entries)
  BY DEF Resolved
<1>4. QED
  BY <1>1, <1>2, <1>3 DEF Resolved, Settled

LEMMA RoutingStepHolds == RoutingInv /\ [RoutingNext]_routingVars => RoutingInv'
<1> SUFFICES ASSUME RoutingInv, [RoutingNext]_routingVars PROVE RoutingInv'
  OBVIOUS
<1> USE RoutingAssumption
<1>0. /\ RoutingTypeOK /\ Resolved /\ Resumed /\ MainAlwaysRegistered /\ EndpointsStay /\ ResumedAsSaved
  BY DEF RoutingInv, RoutingKept
<1> DEFINE Rest == Resolved' /\ Resumed' /\ MainAlwaysRegistered' /\ EndpointsStay' /\ ResumedAsSaved'
<1>1. ASSUME NEW c \in Configs, NEW a \in AgentRoutings, Configure(c, a)
      PROVE  RoutingInv'
  <2>1. RoutingTypeOK'
    BY <1>0, <1>1 DEF Configure, RoutingTypeOK
  <2>2. Rest
    BY <1>0, <1>1 DEF Configure, Resolved, Resumed, Settled, MainAlwaysRegistered, EndpointsStay, ResumedAsSaved
  <2>3. QED
    BY <2>1, <2>2 DEF RoutingInv, RoutingKept
<1>2. CASE Move
  <2>1. RoutingTypeOK'
    BY <1>0, <1>2 DEF Move, RoutingTypeOK
  <2>2. Rest
    BY <1>0, <1>2 DEF Move, Resolved, Resumed, Settled, MainAlwaysRegistered, EndpointsStay, ResumedAsSaved
  <2>3. QED
    BY <2>1, <2>2 DEF RoutingInv, RoutingKept
<1>3. ASSUME NEW k \in {"chat", "run"}, NEW fs \in Flags, Launch(k, fs)
      PROVE  RoutingInv'
  <2>1. RoutingTypeOK'
    BY <1>0, <1>3 DEF Launch, RoutingTypeOK
  <2>2. Rest
    BY <1>0, <1>3 DEF Launch, Missing, Resolved, Resumed, Settled, MainAlwaysRegistered, EndpointsStay,
       ResumedAsSaved
  <2>3. QED
    BY <2>1, <2>2 DEF RoutingInv, RoutingKept
<1>4. ASSUME NEW purpose \in Purposes, Ask(purpose)
      PROVE  RoutingInv'
  <2>1. /\ phase = "ready" /\ last'.outcome \in {"served", "missing alias"}
        /\ UNCHANGED <<phase, launches, config, agent, kind, flags, saved, cmd, registered, models>>
    BY <1>4, AskServed DEF Ask
  <2>2. RoutingTypeOK'
    BY <1>0, <2>1 DEF RoutingTypeOK
  <2>3. Resolved'
    <3>1. saved' # Unset /\ saved'.entries # Unset => GoodEntries(saved'.entries)
      BY <1>0, <2>1 DEF Resolved
    <3>2. QED
      BY <1>0, <2>1, <3>1, ResolvedStays
  <2>4. Rest
    BY <1>0, <2>1, <2>3 DEF Resumed, MainAlwaysRegistered, EndpointsStay, ResumedAsSaved
  <2>5. QED
    BY <2>2, <2>4 DEF RoutingInv, RoutingKept
<1>5. CASE AskSubagent(Other)
  <2>1. /\ phase = "ready" /\ last'.asker # "main agent"
        /\ UNCHANGED <<phase, launches, config, agent, kind, flags, saved, cmd, registered, models>>
    BY <1>5 DEF AskSubagent
  <2>2. RoutingTypeOK'
    BY <1>0, <2>1 DEF RoutingTypeOK
  <2>3. Resolved'
    <3>1. saved' # Unset /\ saved'.entries # Unset => GoodEntries(saved'.entries)
      BY <1>0, <2>1 DEF Resolved
    <3>2. QED
      BY <1>0, <2>1, <3>1, ResolvedStays
  <2>4. Rest
    BY <1>0, <2>1, <2>3 DEF Resumed, MainAlwaysRegistered, EndpointsStay, ResumedAsSaved
  <2>5. QED
    BY <2>2, <2>4 DEF RoutingInv, RoutingKept
<1>6. CASE Save
  <2>1. /\ phase = "ready"
        /\ UNCHANGED <<phase, launches, config, agent, kind, flags, cmd, registered, models, last>>
        /\ saved' = [provider |-> cmd.provider, url |-> cmd.url, format |-> cmd.format,
                     entries |-> IF DOMAIN cmd.entries = {} THEN Unset ELSE cmd.entries,
                     routing |-> cmd.routing]
    BY <1>6 DEF Save
  <2>2. /\ cmd.provider \in Providers /\ cmd.url \in Providers /\ cmd.format \in Formats
        /\ GoodEntries(cmd.entries)
    BY <1>0, <2>1 DEF Resolved, Settled
  <2>3. /\ saved'.provider = cmd.provider /\ saved'.url = cmd.url /\ saved'.format = cmd.format
        /\ saved'.entries \in {Unset, cmd.entries} /\ saved'.routing = cmd.routing
    BY <2>1
  <2>4. RoutingTypeOK'
    BY <1>0, <2>1, <2>2, <2>3 DEF RoutingTypeOK
  <2>5. Resolved'
    <3>1. saved' # Unset /\ saved'.entries # Unset => GoodEntries(saved'.entries)
      BY <2>2, <2>3
    <3>2. QED
      BY <1>0, <2>1, <3>1, ResolvedStays
  <2>6. Rest
    BY <1>0, <2>1, <2>3, <2>5 DEF Resumed, MainAlwaysRegistered, EndpointsStay, ResumedAsSaved
  <2>7. QED
    BY <2>4, <2>6 DEF RoutingInv, RoutingKept
<1>7. CASE Exit
  <2>1. RoutingTypeOK'
    <3>1. flags' \in Flags /\ kind' \in {"chat", "run"}
      BY <1>7 DEF Exit, NoFlags, Flags
    <3>2. QED
      BY <1>0, <1>7, <3>1 DEF Exit, RoutingTypeOK
  <2>2. Rest
    BY <1>0, <1>7 DEF Exit, Resolved, Resumed, Settled, MainAlwaysRegistered, EndpointsStay, ResumedAsSaved
  <2>3. QED
    BY <2>1, <2>2 DEF RoutingInv, RoutingKept
<1>8. CASE UNCHANGED routingVars
  <2>1. UNCHANGED <<phase, launches, config, agent, kind, flags, saved, cmd, registered, models, last>>
    BY <1>8 DEF routingVars
  <2>2. RoutingTypeOK'
    BY <1>0, <2>1 DEF RoutingTypeOK
  <2>3. Resolved'
    <3>1. saved' # Unset /\ saved'.entries # Unset => GoodEntries(saved'.entries)
      BY <1>0, <2>1 DEF Resolved
    <3>2. QED
      BY <1>0, <2>1, <3>1, ResolvedStays
  <2>4. Rest
    BY <1>0, <2>1, <2>3 DEF Resumed, MainAlwaysRegistered, EndpointsStay, ResumedAsSaved
  <2>5. QED
    BY <2>2, <2>4 DEF RoutingInv, RoutingKept
<1>9. QED
  BY <1>1, <1>2, <1>3, <1>4, <1>5, <1>6, <1>7, <1>8, ResolveKeeps, RegisterKeeps DEF RoutingNext

\* Every command that got past its startup reaches the providers and models it was
\* told to, and so does each that resumes its session (src/cli/model-routing.ts).
THEOREM RoutingIsKept == RoutingSpec => []RoutingKept
<1>1. RoutingInv => RoutingKept
  BY DEF RoutingInv
<1>2. QED
  BY <1>1, RoutingInitHolds, RoutingStepHolds, PTL DEF RoutingSpec

----------------------------------------
(* Parts of a reasoning put together.                                        *)

\* m deltas, and the whole of n fragments k times after them.
Tale(m, k, n) == [i \in 1 .. m + k |-> IF i <= m THEN <<i>> ELSE Counted(n)]

\* FlattenSeq puts together from the front.
IsJoin(f, parts) ==
  f = [i \in 1 .. Len(parts) |-> IF i = 1 THEN parts[i] ELSE f[i - 1] \o parts[i]]

LEMMA JoinsExist ==
  ASSUME NEW parts, Len(parts) \in Nat
  PROVE  \E f : IsJoin(f, parts)
<1> DEFINE Upto(f, n) == f = [i \in 1 .. n |-> IF i = 1 THEN parts[i] ELSE f[i - 1] \o parts[i]]
           Bad == {n \in Nat : ~ \E f : Upto(f, n)}
<1>1. SUFFICES ASSUME Bad # {} PROVE FALSE
  <2>1. Len(parts) \notin Bad
    BY <1>1, Zenon
  <2>2. \E f : Upto(f, Len(parts))
    BY <2>1, Zenon
  <2>3. QED
    BY <2>2, Zenon DEF IsJoin
<1>2. PICK n \in Bad : \A m \in Bad : n <= m
  <2>1. Bad \subseteq Nat
    OBVIOUS
  <2> HIDE DEF Bad
  <2>2. QED
    BY <1>1, <2>1, LeastExists
<1>3. n \in Nat /\ ~ \E f : Upto(f, n)
  BY <1>2
<1>4. n # 0
  <2>1. Upto([i \in 1 .. 0 |-> i], 0)
    OBVIOUS
  <2>2. QED
    BY <1>3, <2>1, Zenon
<1>5. n - 1 \in Nat /\ ~ (n <= n - 1)
  BY <1>3, <1>4
<1>6. PICK g : Upto(g, n - 1)
  <2>1. n - 1 \notin Bad
    BY <1>2, <1>5, Zenon
  <2>2. QED
    BY <1>5, <2>1, Zenon
<1> DEFINE h == [i \in 1 .. n |-> IF i < n THEN g[i] ELSE IF i = 1 THEN parts[i] ELSE g[i - 1] \o parts[i]]
<1>7. ASSUME NEW i \in 1 .. n
      PROVE  h[i] = IF i = 1 THEN parts[i] ELSE h[i - 1] \o parts[i]
  <2>1. CASE i < n
    <3>1. i \in 1 .. n - 1 /\ h[i] = g[i]
      BY <1>3, <2>1
    <3>2. g[i] = IF i = 1 THEN parts[i] ELSE g[i - 1] \o parts[i]
      BY <1>6, <3>1
    <3>3. i # 1 => h[i - 1] = g[i - 1]
      BY <1>3, <3>1
    <3>4. QED
      BY <3>1, <3>2, <3>3
  <2>2. CASE ~ (i < n)
    <3>1. h[i] = IF i = 1 THEN parts[i] ELSE g[i - 1] \o parts[i]
      BY <2>2
    <3>2. i # 1 => h[i - 1] = g[i - 1]
      BY <1>3
    <3>3. QED
      BY <3>1, <3>2
  <2>3. QED
    BY <2>1, <2>2
<1>8. h = [i \in 1 .. n |-> IF i = 1 THEN parts[i] ELSE h[i - 1] \o parts[i]]
  <2>1. h = [i \in 1 .. n |-> h[i]]
    OBVIOUS
  <2> HIDE DEF h
  <2>2. QED
    BY <1>7, <2>1
<1> HIDE DEF h
<1>9. QED
  BY <1>3, <1>8, Zenon

\* What FlattenSeq makes is what such a function makes.
LEMMA FlattenJoins ==
  ASSUME NEW parts, Len(parts) \in Nat, Len(parts) # 0
  PROVE  \E f : IsJoin(f, parts) /\ FlattenSeq(parts) = f[Len(parts)]
<1> DEFINE f == CHOOSE f : f = [i \in 1 .. Len(parts) |-> IF i = 1 THEN parts[i] ELSE f[i - 1] \o parts[i]]
<1>1. IsJoin(f, parts)
  BY JoinsExist, Zenon DEF IsJoin
<1>2. FlattenSeq(parts) = f[Len(parts)]
  BY Zenon DEF FlattenSeq
<1>3. QED
  BY <1>1, <1>2, Zenon

\* Singles are put together to the numbers they hold.
LEMMA SinglesCount ==
  ASSUME NEW parts, NEW n \in Nat, NEW f, IsJoin(f, parts),
         Len(parts) \in Nat, n <= Len(parts), \A i \in 1 .. n : parts[i] = <<i>>
  PROVE  \A i \in 1 .. n : f[i] = Counted(i)
<1> DEFINE Bad == {i \in 1 .. n : f[i] # Counted(i)}
<1>1. SUFFICES ASSUME Bad # {} PROVE FALSE
  OBVIOUS
<1>2. PICK k \in Bad : \A j \in Bad : k <= j
  <2>1. Bad \subseteq Nat
    OBVIOUS
  <2> HIDE DEF Bad
  <2>2. QED
    BY <1>1, <2>1, LeastExists
<1>3. k \in 1 .. n /\ f[k] # Counted(k) /\ \A j \in 1 .. n : j < k => f[j] = Counted(j)
  BY <1>2
<1>4. \A i \in 1 .. n : f[i] = IF i = 1 THEN parts[i] ELSE f[i - 1] \o parts[i]
  <2>1. \A i \in 1 .. Len(parts) : f[i] = IF i = 1 THEN parts[i] ELSE f[i - 1] \o parts[i]
    BY DEF IsJoin
  <2>2. 1 .. n \subseteq 1 .. Len(parts)
    OBVIOUS
  <2>3. QED
    BY <2>1, <2>2, Zenon
<1>5. CASE k = 1
  <2>1. f[1] = <<1>>
    BY <1>3, <1>4, <1>5
  <2>2. Counted(1) = <<1>>
    BY DEF Counted
  <2>3. QED
    BY <1>3, <1>5, <2>1, <2>2
<1>6. CASE k # 1
  <2>1. k - 1 \in 1 .. n /\ f[k - 1] = Counted(k - 1)
    BY <1>3, <1>6
  <2>2. f[k] = Counted(k - 1) \o <<k>>
    BY <1>3, <1>4, <1>6, <2>1
  <2>3. Counted(k - 1) \o <<k>> = Counted(k)
    <3>1. Counted(k - 1) \in Seq(Nat) /\ Len(Counted(k - 1)) = k - 1 /\ \A i \in 1 .. k - 1 : Counted(k - 1)[i] = i
      BY <1>3, <1>6 DEF Counted
    <3>2. Counted(k - 1) \o <<k>> \in Seq(Nat) /\ Len(Counted(k - 1) \o <<k>>) = k
      BY <1>3, <3>1
    <3>3. \A i \in 1 .. k : (Counted(k - 1) \o <<k>>)[i] = i
      BY <1>3, <3>1
    <3>4. Counted(k - 1) \o <<k>> = [i \in 1 .. k |-> (Counted(k - 1) \o <<k>>)[i]]
      BY <3>2
    <3>5. QED
      BY <3>3, <3>4 DEF Counted
  <2>4. QED
    BY <1>3, <2>2, <2>3
<1>7. QED
  BY <1>5, <1>6

LEMMA CountedTyped ==
  ASSUME NEW n \in Nat
  PROVE  Counted(n) \in Seq(Nat) /\ Len(Counted(n)) = n /\ \A i \in 1 .. n : Counted(n)[i] = i
BY DEF Counted

\* s is such a tale.
IsTale(s, m, k, n) ==
  /\ s \in Seq(Seq(Nat)) /\ Len(s) = m + k
  /\ \A i \in 1 .. m : s[i] = <<i>>
  /\ \A i \in m + 1 .. m + k : s[i] = Counted(n)

LEMMA TaleTyped ==
  ASSUME NEW m \in Nat, NEW k \in Nat, NEW n \in Nat
  PROVE  IsTale(Tale(m, k, n), m, k, n)
<1>1. Counted(n) \in Seq(Nat)
  BY CountedTyped
<1>2. m + k \in Nat
  OBVIOUS
<1>3. \A i \in 1 .. m + k : Tale(m, k, n)[i] = IF i <= m THEN <<i>> ELSE Counted(n)
  BY DEF Tale
<1>4. \A i \in 1 .. m + k : Tale(m, k, n)[i] \in Seq(Nat)
  <2> SUFFICES ASSUME NEW i \in 1 .. m + k  PROVE Tale(m, k, n)[i] \in Seq(Nat)
    OBVIOUS
  <2>1. i \in Nat
    OBVIOUS
  <2>2. <<i>> \in Seq(Nat)
    BY <2>1
  <2>3. Tale(m, k, n)[i] = IF i <= m THEN <<i>> ELSE Counted(n)
    BY <1>3
  <2>4. QED
    BY <1>1, <2>2, <2>3, Zenon
<1>5. Tale(m, k, n) = [i \in 1 .. m + k |-> Tale(m, k, n)[i]]
  BY DEF Tale
<1>6. Tale(m, k, n) \in Seq(Seq(Nat)) /\ Len(Tale(m, k, n)) = m + k
  <2>1. Tale(m, k, n) \in [1 .. m + k -> Seq(Nat)]
    BY <1>4, <1>5, Zenon
  <2>2. QED
    BY <1>2, <2>1
<1>7. \A i \in 1 .. m : i \in 1 .. m + k /\ i <= m
  OBVIOUS
<1>8. \A i \in m + 1 .. m + k : i \in 1 .. m + k /\ ~ (i <= m)
  OBVIOUS
<1>9. QED
  BY <1>3, <1>6, <1>7, <1>8 DEF IsTale

\* Deltas only.
LEMMA DeltasTyped ==
  ASSUME NEW m \in Nat, NEW n \in Nat
  PROVE  /\ Tale(m, 0, n) \in Seq(Seq(Nat)) /\ Len(Tale(m, 0, n)) = m
         /\ \A i \in 1 .. m : Tale(m, 0, n)[i] = <<i>>
<1>1. 0 \in Nat /\ m + 0 = m
  OBVIOUS
<1>2. IsTale(Tale(m, 0, n), m, 0, n)
  BY <1>1, TaleTyped, Zenon
<1>3. QED
  BY <1>1, <1>2, Zenon DEF IsTale

\* Without a whole it does not matter what the whole would be.
LEMMA DeltasOnly ==
  ASSUME NEW m \in Nat, NEW n \in Nat, NEW o \in Nat
  PROVE  Tale(m, 0, n) = Tale(m, 0, o)
BY DEF Tale

\* A delta more, and a whole more.
LEMMA DeltaAdded ==
  ASSUME NEW m \in Nat, NEW n \in Nat
  PROVE  Append(Tale(m, 0, n), <<m + 1>>) = Tale(m + 1, 0, n)
<1> DEFINE d == Tale(m, 0, n)
           s == Append(d, <<m + 1>>)
<1>1. s \in Seq(Seq(Nat)) /\ Len(s) = m + 1 /\ \A i \in 1 .. m + 1 : s[i] = <<i>>
  <2>1. m + 1 \in Nat
    OBVIOUS
  <2>2. d \in Seq(Seq(Nat)) /\ Len(d) = m /\ \A i \in 1 .. m : d[i] = <<i>>
    BY DeltasTyped
  <2>3. <<m + 1>> \in Seq(Nat)
    BY <2>1
  <2> HIDE DEF d
  <2>4. /\ s \in Seq(Seq(Nat)) /\ Len(s) = Len(d) + 1
        /\ \A i \in 1 .. Len(d) : s[i] = d[i]
        /\ s[Len(d) + 1] = <<m + 1>>
    <3>1. PICK S : S = Seq(Nat)
      OBVIOUS
    <3>2. d \in Seq(S) /\ <<m + 1>> \in S
      BY <2>2, <2>3, <3>1, Zenon
    <3>3. /\ s \in Seq(S) /\ Len(s) = Len(d) + 1
          /\ \A i \in 1 .. Len(d) : s[i] = d[i]
          /\ s[Len(d) + 1] = <<m + 1>>
      BY <3>2, AppendProperties
    <3>4. QED
      BY <3>1, <3>3, Zenon
  <2> HIDE DEF s
  <2>5. (\A i \in 1 .. m : s[i] = d[i]) /\ s[m + 1] = <<m + 1>> /\ Len(s) = m + 1
    BY <2>2, <2>4
  <2>6. ASSUME NEW i \in 1 .. m + 1  PROVE i \in 1 .. m \/ i = m + 1
    OBVIOUS
  <2>7. QED
    BY <2>2, <2>4, <2>5, <2>6
<1> HIDE DEF s, d
<1>2. /\ Tale(m + 1, 0, n) \in Seq(Seq(Nat)) /\ Len(Tale(m + 1, 0, n)) = m + 1
      /\ \A i \in 1 .. m + 1 : Tale(m + 1, 0, n)[i] = <<i>>
  <2>1. m + 1 \in Nat
    OBVIOUS
  <2>2. QED
    BY <2>1, DeltasTyped
<1>3. Append(Tale(m, 0, n), <<m + 1>>) = s
  BY DEF s, d
<1>4. s = Tale(m + 1, 0, n)
  <2>1. Len(s) = Len(Tale(m + 1, 0, n)) /\ \A i \in 1 .. Len(s) : s[i] = Tale(m + 1, 0, n)[i]
    BY <1>1, <1>2
  <2>2. QED
    BY <1>1, <1>2, <2>1, SeqEqual, Zenon
<1>5. QED
  BY <1>3, <1>4

LEMMA WholeAdded ==
  ASSUME NEW m \in Nat, NEW k \in Nat, NEW n \in Nat
  PROVE  Tale(m, k, n) \o Whole(n) = IF n > 0 THEN Tale(m, k + 1, n) ELSE Tale(m, k, n)
<1> DEFINE s == Tale(m, k, n)
<1>1. /\ s \in Seq(Seq(Nat)) /\ Len(s) = m + k
      /\ \A i \in 1 .. m : s[i] = <<i>>
      /\ \A i \in m + 1 .. m + k : s[i] = Counted(n)
  <2>1. IsTale(s, m, k, n)
    BY TaleTyped, Zenon
  <2>2. QED
    BY <2>1, Zenon DEF IsTale
<1> HIDE DEF s
<1>2. CASE n > 0
  <2> DEFINE t == s \o <<Counted(n)>>
             u == Tale(m, k + 1, n)
  <2>1. Counted(n) \in Seq(Nat)
    BY CountedTyped
  <2>2. /\ t \in Seq(Seq(Nat)) /\ Len(t) = m + (k + 1)
        /\ \A i \in 1 .. m + k : t[i] = s[i]
        /\ t[m + (k + 1)] = Counted(n)
    <3>1. t = Append(s, Counted(n)) /\ m + (k + 1) = (m + k) + 1
      BY <1>1
    <3> HIDE DEF t
    <3>2. /\ Append(s, Counted(n)) \in Seq(Seq(Nat)) /\ Len(Append(s, Counted(n))) = Len(s) + 1
          /\ \A i \in 1 .. Len(s) : Append(s, Counted(n))[i] = s[i]
          /\ Append(s, Counted(n))[Len(s) + 1] = Counted(n)
      <4>1. PICK S : S = Seq(Nat)
        OBVIOUS
      <4>2. s \in Seq(S) /\ Counted(n) \in S
        BY <1>1, <2>1, <4>1, Zenon
      <4>3. /\ Append(s, Counted(n)) \in Seq(S) /\ Len(Append(s, Counted(n))) = Len(s) + 1
            /\ \A i \in 1 .. Len(s) : Append(s, Counted(n))[i] = s[i]
            /\ Append(s, Counted(n))[Len(s) + 1] = Counted(n)
        BY <4>2, AppendProperties
      <4>4. QED
        BY <4>1, <4>3, Zenon
    <3>3. QED
      BY <1>1, <3>1, <3>2
  <2>3. /\ u \in Seq(Seq(Nat)) /\ Len(u) = m + (k + 1)
        /\ \A i \in 1 .. m : u[i] = <<i>>
        /\ \A i \in m + 1 .. m + (k + 1) : u[i] = Counted(n)
    <3>1. k + 1 \in Nat
      OBVIOUS
    <3>2. IsTale(u, m, k + 1, n)
      BY <3>1, TaleTyped, Zenon
    <3>3. QED
      BY <3>2, Zenon DEF IsTale
  <2> HIDE DEF t, u
  <2>4. ASSUME NEW i \in 1 .. m + (k + 1)  PROVE t[i] = u[i]
    <3>1. CASE i <= m
      <4>1. i \in 1 .. m /\ i \in 1 .. m + k
        BY <3>1
      <4>2. t[i] = s[i] /\ s[i] = <<i>> /\ u[i] = <<i>>
        BY <1>1, <2>2, <2>3, <4>1, Zenon
      <4>3. QED
        BY <4>2, Zenon
    <3>2. CASE i > m /\ i <= m + k
      <4>1. i \in m + 1 .. m + k /\ i \in 1 .. m + k /\ i \in m + 1 .. m + (k + 1)
        BY <3>2
      <4>2. t[i] = s[i] /\ s[i] = Counted(n) /\ u[i] = Counted(n)
        BY <1>1, <2>2, <2>3, <4>1, Zenon
      <4>3. QED
        BY <4>2, Zenon
    <3>3. CASE i > m + k
      <4>1. i = m + (k + 1) /\ i \in m + 1 .. m + (k + 1)
        BY <3>3
      <4>2. QED
        BY <2>2, <2>3, <4>1, Zenon
    <3>4. i <= m \/ (i > m /\ i <= m + k) \/ i > m + k
      OBVIOUS
    <3>5. QED
      BY <3>1, <3>2, <3>3, <3>4, Zenon
  <2>5. t = u
    <3>1. Len(t) = Len(u) /\ \A i \in 1 .. Len(t) : t[i] = u[i]
      BY <2>2, <2>3, <2>4
    <3>2. QED
      BY <2>2, <2>3, <3>1, SeqEqual, Zenon
  <2>6. s \o Whole(n) = t
    BY <1>2 DEF t, Whole
  <2>7. QED
    BY <1>2, <2>5, <2>6 DEF s, u
<1>3. CASE n = 0
  <2>1. s \o <<>> = s
    BY <1>1, ConcatEmptySeq, Zenon
  <2>2. QED
    BY <1>3, <2>1 DEF s, Whole
<1>4. QED
  BY <1>2, <1>3 DEF s

\* Where the first whole is complete: behind its deltas, or the first part itself.
LEMMA FirstWhole ==
  ASSUME NEW m \in Nat, NEW k \in Nat, NEW n \in Nat, m + k > 0, m > 0 => m = n,
         NEW f, IsJoin(f, Tale(m, k, n))
  PROVE  f[IF m > 0 THEN m ELSE 1] = Counted(n)
<1>1. /\ Len(Tale(m, k, n)) = m + k /\ \A i \in 1 .. m : Tale(m, k, n)[i] = <<i>>
      /\ \A i \in m + 1 .. m + k : Tale(m, k, n)[i] = Counted(n)
  <2>1. IsTale(Tale(m, k, n), m, k, n)
    BY TaleTyped, Zenon
  <2>2. QED
    BY <2>1, Zenon DEF IsTale
<1>2. CASE m > 0
  <2>1. \A i \in 1 .. m : f[i] = Counted(i)
    <3>1. m + k \in Nat /\ m <= m + k
      OBVIOUS
    <3>2. QED
      BY <1>1, <3>1, SinglesCount
  <2>2. QED
    BY <1>2, <2>1
<1>3. CASE m = 0
  <2>1. 1 \in 1 .. m + k /\ 1 \in m + 1 .. m + k
    BY <1>3
  <2>2. f[1] = Tale(m, k, n)[1]
    BY <1>1, <2>1 DEF IsJoin
  <2>3. QED
    BY <1>1, <1>3, <2>1, <2>2
<1>4. QED
  BY <1>2, <1>3

\* The client makes one reasoning of deltas, of a whole, and of two tellings of it;
\* of three it makes all three.
LEMMA ReasoningJoined ==
  ASSUME NEW m \in Nat, NEW k \in Nat, NEW n \in Nat, k > 0 => n > 0, m > 0 /\ k > 0 => m = n,
         k <= 3, m > 0 => k <= 2, JoinUnique(Tale(m, k, n)) # <<>>
  PROVE  \/ m > 0 /\ JoinUnique(Tale(m, k, n)) = Counted(m)
         \/ k > 0 /\ JoinUnique(Tale(m, k, n)) = Counted(n)
         \/ /\ k = 3 \/ (m > 0 /\ k = 2)
            /\ JoinUnique(Tale(m, k, n)) = Counted(n) \o Counted(n) \o Counted(n)
<1> DEFINE parts == Tale(m, k, n)
           w == Counted(n)
<1>1. /\ parts \in Seq(Seq(Nat)) /\ Len(parts) = m + k
      /\ (\A i \in 1 .. m : parts[i] = <<i>>) /\ (\A i \in m + 1 .. m + k : parts[i] = w)
  <2>1. IsTale(parts, m, k, n)
    BY TaleTyped, Zenon
  <2>2. QED
    BY <2>1, Zenon DEF IsTale
<1>2. w \in Seq(Nat) /\ Len(w) = n
  BY CountedTyped
<1>3. m + k > 0
  <2> SUFFICES ASSUME m + k = 0 PROVE FALSE
    OBVIOUS
  <2>1. parts = <<>> /\ Len(parts) = 0
    BY <1>1
  <2>2. FlattenSeq(parts) = <<>>
    BY <2>1 DEF FlattenSeq
  <2>3. QED
    BY <2>1, <2>2 DEF JoinUnique
<1>4. PICK f : IsJoin(f, parts) /\ FlattenSeq(parts) = f[m + k]
  <2>1. Len(parts) \in Nat /\ Len(parts) # 0
    BY <1>1, <1>3
  <2>2. \E f : IsJoin(f, parts) /\ FlattenSeq(parts) = f[Len(parts)]
    BY <2>1, FlattenJoins, Zenon
  <2>3. QED
    BY <1>1, <2>2
<1>5. CASE k = 0
  <2>1. \A i \in 1 .. m : parts[i] = <<i>>
    BY <1>1
  <2>2. f[m] = Counted(m) /\ m > 0 /\ m + k = m /\ Len(parts) = m
    <3>1. m > 0 /\ m + k = m /\ m <= m /\ Len(parts) = m /\ m \in 1 .. m
      BY <1>1, <1>3, <1>5
    <3> HIDE DEF parts
    <3>2. \A i \in 1 .. m : f[i] = Counted(i)
      BY <1>4, <2>1, <3>1, SinglesCount
    <3>3. QED
      BY <3>1, <3>2
  <2>3. ASSUME m > 1
        PROVE  Counted(m) # Last(parts) \o Last(parts)
    <3>1. Last(parts) = <<m>>
      <4>1. m \in 1 .. m
        BY <2>2
      <4>2. QED
        BY <2>1, <2>2, <4>1 DEF Last
    <3>2. (<<m>> \o <<m>>)[1] = m /\ Counted(m)[1] = 1
      <4>1. Counted(m)[1] = 1
        BY <2>3, CountedTyped
      <4>2. QED
        BY <4>1
    <3>3. QED
      BY <2>3, <3>1, <3>2
  <2>4. FlattenSeq(parts) = Counted(m)
    BY <1>4, <2>2
  <2> HIDE DEF parts
  <2>5. JoinUnique(parts) = Counted(m)
    BY <2>2, <2>3, <2>4 DEF JoinUnique
  <2>6. QED
    BY <2>2, <2>5 DEF parts
<1>6. CASE k > 0
  <2> DEFINE j == IF m > 0 THEN m ELSE 1
             r == IF m > 0 THEN k ELSE k - 1
  <2>1. j \in Nat /\ j > 0 /\ r \in 0 .. 2 /\ j + r = m + k /\ n > 0
    BY <1>6
  <2>2. f[j] = w
    <3>1. IsJoin(f, Tale(m, k, n)) /\ (m > 0 => m = n)
      BY <1>4, <1>6
    <3>2. QED
      BY <1>3, <3>1, FirstWhole
  <2>3. \A i \in j + 1 .. j + r : parts[i] = w
    <3>1. \A i \in j + 1 .. j + r : i \in m + 1 .. m + k
      BY <1>6
    <3>2. QED
      BY <1>1, <3>1
  <2>4. Last(parts) = w
    <3>1. m + k \in m + 1 .. m + k
      BY <1>6
    <3>2. QED
      BY <1>1, <3>1 DEF Last
  <2> HIDE DEF parts, w, j, r
  <2>5. /\ r = 0 => f[j + r] = w
        /\ r = 1 => f[j + r] = w \o w
        /\ r = 2 => f[j + r] = w \o w \o w
    <3>1. \A i \in 1 .. j + r : f[i] = IF i = 1 THEN parts[i] ELSE f[i - 1] \o parts[i]
      BY <1>1, <1>4, <2>1 DEF IsJoin
    <3>2. ASSUME NEW i \in j + 1 .. j + r  PROVE f[i] = f[i - 1] \o w
      <4>1. i \in 1 .. j + r /\ i # 1
        BY <2>1
      <4>2. QED
        BY <2>3, <3>1, <4>1, Zenon
    <3>3. ASSUME r > 0  PROVE f[j + 1] = w \o w
      <4>1. j + 1 \in j + 1 .. j + r /\ (j + 1) - 1 = j
        BY <2>1, <3>3
      <4>2. QED
        BY <2>2, <3>2, <4>1, Zenon
    <3>4. ASSUME r = 0  PROVE f[j + r] = w
      <4>1. j + r = j
        BY <2>1, <3>4
      <4>2. QED
        BY <2>2, <4>1, Zenon
    <3>5. ASSUME r = 1  PROVE f[j + r] = w \o w
      <4>1. r > 0
        BY <3>5
      <4>2. QED
        BY <3>3, <3>5, <4>1, Zenon
    <3>6. ASSUME r = 2  PROVE f[j + r] = w \o w \o w
      <4>1. j + 2 \in j + 1 .. j + r /\ (j + 2) - 1 = j + 1 /\ r > 0
        BY <2>1, <3>6
      <4>2. f[j + 2] = f[j + 1] \o w
        BY <3>2, <4>1, Zenon
      <4>3. QED
        BY <3>3, <3>6, <4>1, <4>2, Zenon
    <3>7. QED
      BY <3>4, <3>5, <3>6, Zenon
  <2>6. /\ r = 0 => FlattenSeq(parts) = w
        /\ r = 1 => FlattenSeq(parts) = w \o w
        /\ r = 2 => FlattenSeq(parts) = w \o w \o w
    BY <1>4, <2>1, <2>5, Zenon
  <2>7. CASE r = 0
    <3>1. Len(parts) = 1
      BY <1>1, <1>6, <2>7 DEF r
    <3>2. JoinUnique(parts) = w
      BY <2>6, <2>7, <3>1 DEF JoinUnique
    <3>3. QED
      BY <1>6, <3>2 DEF parts, w
  <2>8. CASE r = 1
    <3>1. Len(parts) > 1
      BY <1>1, <1>6, <2>8 DEF r
    <3>2. JoinUnique(parts) = w
      BY <2>4, <2>6, <2>8, <3>1 DEF JoinUnique
    <3>3. QED
      BY <1>6, <3>2 DEF parts, w
  <2>9. CASE r = 2
    <3>1. w \o w \o w # w \o w
      <4>1. Len(w \o w) = n + n /\ w \o w \in Seq(Nat)
        BY <1>2
      <4>2. Len(w \o w \o w) = (n + n) + n
        BY <1>2, <4>1
      <4>3. QED
        BY <2>1, <4>1, <4>2
    <3>2. JoinUnique(parts) = w \o w \o w
      BY <2>4, <2>6, <2>9, <3>1 DEF JoinUnique
    <3>3. k = 3 \/ (m > 0 /\ k = 2)
      BY <2>9 DEF r
    <3>4. QED
      BY <3>2, <3>3 DEF parts, w
  <2>10. QED
    BY <2>1, <2>7, <2>8, <2>9
<1>7. QED
  BY <1>5, <1>6

----------------------------------------
(* What a client has heard of what was sent.                                 *)

CallState  == [call : Nat, json : Nat]
SentCall   == [sent : Nat, total : Nat]
EventTypes ==
  {"none", "text", "reasoning", "added", "done", "open", "args", "close", "stop", "length", "error"}
Items == {"none", "open", "whole", "done"}

StreamTypes ==
  /\ DOMAIN provided = {"text", "reasoning", "told", "item", "calls", "open", "stop"}
  /\ provided.text \in Nat /\ provided.reasoning \in Nat /\ provided.told \in Nat
  /\ provided.item \in Items /\ provided.calls \in Seq(SentCall)
  /\ provided.stop \in StopReasons \cup {"none"}
  /\ buffer \in [type : EventTypes, call : Nat]
  /\ DOMAIN acc = {"text", "reasoning", "calls", "pending", "stop", "usage"}
  /\ acc.text \in Nat /\ acc.reasoning \in Seq(Seq(Nat))
  /\ acc.calls \in Seq(CallState) /\ acc.pending \in Seq(CallState)

\* What the provider has sent, and what of it is in the buffer.
SentInOrder ==
  /\ \A i \in 1 .. Len(provided.calls) :
       /\ provided.calls[i].sent <= provided.calls[i].total
       /\ i < Len(provided.calls) => provided.calls[i].sent = provided.calls[i].total
  /\ provided.open => Len(provided.calls) > 0
  /\ buffer.type \in {"open", "args", "close"} => buffer.call = Len(provided.calls) /\ Len(provided.calls) > 0
  /\ buffer.type = "open" => provided.open /\ provided.calls[Len(provided.calls)].sent = 0
  /\ buffer.type = "args" => provided.open /\ provided.calls[Len(provided.calls)].sent > 0
  /\ buffer.type = "close" => ~provided.open
  /\ buffer.type \in {"added", "done"} => provided.calls = <<>>
  /\ buffer.type = "length" => buffer.call = 0
  /\ provided.item \in {"open", "whole"} => provided.calls = <<>>
  /\ buffer.type \in StopReasons => provided.stop = buffer.type
  /\ provided.stop = "stop" => ~provided.open
  /\ acc.usage => /\ provided.stop # "none" /\ buffer.type = "none"
                  /\ client = "responses" => provided.stop = "stop"

\* One for an event of that type that is in the buffer.
Late(type) == IF buffer.type = type THEN 1 ELSE 0

TextHeard == acc.text + Late("text") = provided.text /\ shown = acc.text

\* One for a reasoning in one piece that is in the buffer.
WholeLate == IF buffer.type \in {"added", "done", "stop"} /\ buffer.call > 0 THEN 1 ELSE 0

\* How often the reasoning can have been told by now.
Tellings == (IF provided.item = "done" THEN 2 ELSE 1) + (IF provided.stop = "stop" THEN 1 ELSE 0)

\* Of the reasoning, m deltas and k wholes were heard.
HeardOf(m, k) ==
  /\ acc.reasoning = Tale(m, k, provided.reasoning)
  /\ m + Late("reasoning") > 0 =>
       /\ provided.reasoning = m + Late("reasoning") /\ provided.told = (k + WholeLate) + 1
       /\ k + WholeLate > 0 => Late("reasoning") = 0
       /\ provided.item # "whole"
  /\ m + Late("reasoning") = 0 => provided.told = k + WholeLate
  /\ provided.reasoning = 0 <=> provided.told = 0
  /\ provided.told <= Tellings
  /\ k + WholeLate > 0 \/ provided.item # "none" => client = "responses"
  /\ provided.item \in {"none", "open"} /\ provided.stop = "none" => k + WholeLate = 0
  /\ WholeLate = 1 => buffer.call = provided.reasoning
  /\ Late("reasoning") = 1 => buffer.call = provided.reasoning

ThoughtHeard == \E m \in Nat, k \in Nat : HeardOf(m, k)

\* The Responses client has the call that is open, or whose end is in the
\* buffer, in hand.
InHand == client = "responses" /\ (buffer.type = "close" \/ (provided.open /\ buffer.type # "open"))

CallsHeard ==
  LET n == Len(provided.calls)
  IN /\ \A i \in 1 .. Len(acc.calls) :
          /\ acc.calls[i].call = i
          /\ acc.calls[i].json = provided.calls[i].sent - (IF i = n THEN Late("args") ELSE 0)
     /\ IF InHand
        THEN /\ Len(acc.calls) = n - 1 /\ Len(acc.pending) = 1
             /\ acc.pending[1].call = n
             /\ acc.pending[1].json = provided.calls[n].sent - Late("args")
        ELSE /\ Len(acc.calls) = n - Late("open") /\ acc.pending = <<>>

StreamFollowed == StreamTypes /\ SentInOrder /\ TextHeard /\ ThoughtHeard /\ CallsHeard

StreamInv ==
  /\ StreamHeard
  /\ client = "blank" => StreamInit
  /\ reader = "locked" => streamed /\ reply = NoReply /\ client # "blank" /\ StreamFollowed

\* Before an answer there is nothing to be right about.
LEMMA NothingReplied ==
  ASSUME StreamTypeOK, reply.kind # "response"
  PROVE  StreamHeard
BY DEF StreamHeard, HeardIsWhole, CutCallsMarked, ShownIsAnswer, ReasoningTold, Replied

LEMMA StreamInitHolds == StreamInit => StreamInv
<1> SUFFICES ASSUME StreamInit PROVE StreamInv
  OBVIOUS
<1>1. StreamTypeOK /\ reply.kind # "response"
  <2>1. streamed \in BOOLEAN
    BY Zenon DEF StreamInit
  <2>2. QED
    BY <2>1 DEF StreamInit, StreamTypeOK, NoReply, NothingProvided, EmptyState
<1>2. StreamHeard
  BY <1>1, NothingReplied
<1>3. QED
  BY <1>2 DEF StreamInit, StreamInv

\* An empty answer has been followed.
Unsent == provided = NothingProvided /\ buffer = NoEvent /\ acc = EmptyState /\ shown = 0

LEMMA StartFollowed == Unsent => StreamFollowed
<1> SUFFICES ASSUME provided = NothingProvided, buffer = NoEvent, acc = EmptyState, shown = 0
             PROVE  StreamFollowed
  BY DEF Unsent
<1>1. /\ provided.text = 0 /\ provided.reasoning = 0 /\ provided.told = 0 /\ provided.item = "none"
      /\ provided.calls = <<>> /\ ~provided.open /\ provided.stop = "none"
  BY DEF NothingProvided
<1>2. /\ acc.text = 0 /\ acc.reasoning = <<>> /\ acc.calls = <<>> /\ acc.pending = <<>> /\ ~acc.usage
  BY DEF EmptyState
<1>3. buffer.type = "none" /\ buffer \in [type : EventTypes, call : Nat]
  BY DEF NoEvent, EventTypes
<1>4. StreamTypes
  BY <1>1, <1>2, <1>3 DEF StreamTypes, NothingProvided, EmptyState, Items
<1>5. SentInOrder
  BY <1>1, <1>2, <1>3 DEF SentInOrder, StopReasons
<1>6. TextHeard
  BY <1>1, <1>2, <1>3 DEF TextHeard, Late
<1>7. ThoughtHeard
  <2>1. Tale(0, 0, 0) = <<>> /\ 0 \in Nat
    BY DEF Tale
  <2>2. Late("reasoning") = 0 /\ WholeLate = 0 /\ Tellings \in Nat
    BY <1>1, <1>3 DEF Late, WholeLate, Tellings
  <2>3. HeardOf(0, 0)
    BY <1>1, <1>2, <2>1, <2>2 DEF HeardOf
  <2>4. QED
    BY <2>1, <2>3 DEF ThoughtHeard
<1>8. CallsHeard
  BY <1>1, <1>2, <1>3 DEF CallsHeard, Late, InHand
<1>9. QED
  BY <1>4, <1>5, <1>6, <1>7, <1>8 DEF StreamFollowed

\* What has been heard of the reasoning stays so while none of it is on its way.
LEMMA ThoughtKept ==
  ASSUME ThoughtHeard, acc'.reasoning = acc.reasoning, client' = client,
         provided'.reasoning = provided.reasoning, provided'.told = provided.told,
         provided'.item = provided.item,
         provided'.stop = provided.stop \/ (provided.stop = "none" /\ provided'.stop = "length"),
         Late("reasoning") = 0, Late("reasoning")' = 0, WholeLate = 0, WholeLate' = 0
  PROVE  ThoughtHeard'
<1>1. PICK m \in Nat, k \in Nat : HeardOf(m, k)
  BY DEF ThoughtHeard
<1>2. Tellings' = Tellings
  BY DEF Tellings
<1>3. HeardOf(m, k)'
  BY <1>1, <1>2 DEF HeardOf
<1>4. QED
  BY <1>3 DEF ThoughtHeard

\* What the provider sends into an empty buffer.
LEMMA SendStarts ==
  ASSUME StreamInv, NEW type, NEW call, NEW sent, Send(type, call, sent)
  PROVE  /\ StreamFollowed /\ client \in Clients
         /\ buffer.type = "none" /\ ~acc.usage /\ provided.stop = "none"
         /\ provided' = sent /\ buffer' = [type |-> type, call |-> call]
         /\ UNCHANGED <<client, streamed, acc, shown, reader, reply>>
<1>1. /\ reader = "locked" /\ buffer = NoEvent /\ provided.stop = "none"
      /\ provided' = sent /\ buffer' = [type |-> type, call |-> call]
      /\ UNCHANGED <<client, streamed, acc, shown, reader, reply>>
  BY DEF Send, Finished
<1>2. StreamFollowed /\ client \in Clients
  BY <1>1 DEF StreamInv, StreamHeard, StreamTypeOK
<1>3. buffer.type = "none"
  BY <1>1 DEF NoEvent
<1>4. ~acc.usage
  BY <1>1, <1>2 DEF StreamFollowed, SentInOrder
<1>5. QED
  BY <1>1, <1>2, <1>3, <1>4

LEMMA SendKeeps ==
  ASSUME StreamInv, NEW type, NEW call, NEW sent, Send(type, call, sent), StreamFollowed'
  PROVE  StreamInv'
<1>1. /\ reader = "locked" /\ streamed /\ reply = NoReply
      /\ UNCHANGED <<client, streamed, acc, shown, reader, reply>>
  BY DEF Send, StreamInv
<1>2. StreamTypeOK' /\ client # "blank"
  <2>1. StreamTypeOK /\ client # "blank"
    BY <1>1 DEF StreamInv, StreamHeard
  <2>2. provided'.stop \in StopReasons \cup {"none"}
    BY DEF StreamFollowed, StreamTypes
  <2>3. QED
    BY <1>1, <2>1, <2>2 DEF StreamTypeOK
<1>3. StreamHeard'
  BY <1>1, <1>2 DEF NoReply, StreamHeard, HeardIsWhole, CutCallsMarked, ShownIsAnswer, ReasoningTold, Replied
<1>4. QED
  BY <1>1, <1>2, <1>3 DEF StreamInv

LEMMA SendTextKeeps ==
  ASSUME StreamInv, SendText
  PROVE  StreamInv'
<1> DEFINE sent == [provided EXCEPT !.text = @ + 1]
<1>1. Send("text", 0, sent)
  BY DEF SendText
<1>2. /\ StreamFollowed /\ buffer.type = "none" /\ ~acc.usage
      /\ provided' = sent /\ buffer' = [type |-> "text", call |-> 0]
      /\ UNCHANGED <<client, acc, shown>>
  BY <1>1, SendStarts
<1>3. StreamTypes
  BY <1>2 DEF StreamFollowed
<1>4. /\ provided'.text = provided.text + 1 /\ provided'.reasoning = provided.reasoning
      /\ provided'.told = provided.told /\ provided'.item = provided.item
      /\ provided'.calls = provided.calls /\ provided'.open = provided.open /\ provided'.stop = provided.stop
      /\ DOMAIN provided' = DOMAIN provided
      /\ buffer'.type = "text" /\ buffer' \in [type : EventTypes, call : Nat]
  BY <1>2, <1>3 DEF StreamTypes, EventTypes
<1>5. StreamFollowed'
  <2>1. StreamTypes'
    BY <1>2, <1>3, <1>4 DEF StreamTypes
  <2>2. SentInOrder'
    BY <1>2, <1>4 DEF StreamFollowed, SentInOrder, StopReasons
  <2>3. TextHeard'
    BY <1>2, <1>3, <1>4 DEF StreamFollowed, StreamTypes, TextHeard, Late
  <2>4. ThoughtHeard'
    BY <1>2, <1>4, ThoughtKept DEF StreamFollowed, Late, WholeLate
  <2>5. CallsHeard'
    BY <1>2, <1>4 DEF StreamFollowed, CallsHeard, Late, InHand
  <2>6. QED
    BY <2>1, <2>2, <2>3, <2>4, <2>5 DEF StreamFollowed
<1>6. QED
  BY <1>1, <1>5, SendKeeps

\* What is true of every event of the reasoning when it is sent.
LEMMA ThoughtSentKeeps ==
  ASSUME StreamInv, NEW type \in {"reasoning", "added", "done", "stop"}, NEW call \in Nat, NEW sent,
         Send(type, call, sent), DOMAIN sent = DOMAIN provided,
         sent.text = provided.text, sent.calls = provided.calls, sent.open = provided.open,
         sent.reasoning \in Nat, sent.told \in Nat, sent.item \in Items,
         type = "stop" => sent.stop = "stop" /\ ~provided.open,
         type # "stop" => sent.stop = provided.stop,
         type \in {"added", "done"} => provided.calls = <<>>,
         sent.item = provided.item \/ sent.item = "done" \/ provided.calls = <<>>,
         ThoughtHeard'
  PROVE  StreamInv'
<1>1. /\ StreamFollowed /\ client \in Clients /\ buffer.type = "none" /\ ~acc.usage /\ provided.stop = "none"
      /\ provided' = sent /\ buffer' = [type |-> type, call |-> call]
      /\ UNCHANGED <<client, acc, shown>>
  BY SendStarts
<1>2. /\ StreamTypes /\ SentInOrder /\ TextHeard /\ CallsHeard
      /\ buffer'.type = type /\ buffer'.call = call /\ buffer' \in [type : EventTypes, call : Nat]
  BY <1>1 DEF StreamFollowed, EventTypes
<1>3. StreamFollowed'
  <2>1. StreamTypes'
    BY <1>1, <1>2 DEF StreamTypes, StopReasons
  <2>2. SentInOrder'
    BY <1>1, <1>2 DEF SentInOrder, StopReasons
  <2>3. TextHeard'
    BY <1>1, <1>2 DEF TextHeard, Late
  <2>5. CallsHeard'
    <3>1. Late("args")' = Late("args") /\ Late("open")' = Late("open")
      BY <1>1, <1>2 DEF Late
    <3>2. InHand' <=> InHand
      BY <1>1, <1>2 DEF InHand
    <3>3. QED
      BY <1>1, <1>2, <3>1, <3>2 DEF CallsHeard
  <2>6. QED
    BY <2>1, <2>2, <2>3, <2>5 DEF StreamFollowed
<1>4. QED
  BY <1>3, SendKeeps

LEMMA SendReasoningKeeps ==
  ASSUME StreamInv, SendReasoning
  PROVE  StreamInv'
<1> DEFINE n == provided.reasoning
           sent == [provided EXCEPT !.reasoning = @ + 1, !.told = 1]
<1>1. Send("reasoning", n + 1, sent) /\ provided.item \in {"none", "open"}
  BY DEF SendReasoning
<1>2. /\ StreamFollowed /\ buffer.type = "none" /\ provided.stop = "none"
      /\ provided' = sent /\ buffer' = [type |-> "reasoning", call |-> n + 1]
      /\ UNCHANGED <<client, acc>>
  BY <1>1, SendStarts
<1>3. StreamTypes /\ n \in Nat
  BY <1>2 DEF StreamFollowed, StreamTypes
<1>4. /\ sent.text = provided.text /\ sent.reasoning = n + 1 /\ sent.told = 1 /\ sent.item = provided.item
      /\ sent.calls = provided.calls /\ sent.open = provided.open /\ sent.stop = provided.stop
      /\ DOMAIN sent = DOMAIN provided
  BY <1>3 DEF StreamTypes
<1> HIDE DEF sent
<1>5. PICK m \in Nat, k \in Nat : HeardOf(m, k)
  BY <1>2 DEF StreamFollowed, ThoughtHeard
<1>6. Late("reasoning") = 0 /\ WholeLate = 0 /\ Late("reasoning")' = 1 /\ WholeLate' = 0
  BY <1>2 DEF Late, WholeLate
<1>7. k = 0 /\ n = m
  BY <1>1, <1>2, <1>3, <1>5, <1>6 DEF HeardOf
<1>8. ThoughtHeard'
  <2>1. Tale(m, 0, n) = Tale(m, 0, n + 1)
    BY <1>3, <1>7, DeltasOnly
  <2>2. Tellings' = Tellings /\ Tellings \in Nat /\ Tellings >= 1
    BY <1>2, <1>4 DEF Tellings
  <2>3. HeardOf(m, 0)'
    BY <1>1, <1>2, <1>3, <1>4, <1>5, <1>6, <1>7, <2>1, <2>2 DEF HeardOf
  <2>4. QED
    BY <2>3 DEF ThoughtHeard
<1>9. n + 1 \in Nat /\ sent.reasoning \in Nat /\ sent.told \in Nat /\ sent.item \in Items
  BY <1>3, <1>4 DEF StreamTypes
<1>10. QED
  BY <1>1, <1>4, <1>8, <1>9, ThoughtSentKeeps

\* A reasoning told in one piece, or not told, by an event of the Responses format.
LEMMA RetoldIs ==
  ASSUME StreamTypes, NEW n \in Wholes
  PROVE  /\ n \in Nat /\ DOMAIN Retold(n) = DOMAIN provided
         /\ Retold(n).text = provided.text /\ Retold(n).calls = provided.calls
         /\ Retold(n).open = provided.open /\ Retold(n).stop = provided.stop /\ Retold(n).item = provided.item
         /\ n = 0 => Retold(n).reasoning = provided.reasoning /\ Retold(n).told = provided.told
         /\ n > 0 => /\ Retold(n).reasoning = n /\ Retold(n).told = provided.told + 1
                     /\ provided.reasoning \in {0, n}
<1>1. n \in Nat /\ (n > 0 => provided.reasoning \in {0, n})
  BY StreamAssumption DEF Wholes, StreamTypes
<1>2. QED
  BY <1>1 DEF Retold, StreamTypes

LEMMA WholeSentKeeps ==
  ASSUME StreamInv, NEW type \in {"added", "done", "stop"}, NEW n \in Wholes, NEW sent,
         Send(type, n, sent), DOMAIN sent = DOMAIN provided,
         sent.text = provided.text, sent.calls = provided.calls, sent.open = provided.open,
         sent.reasoning = Retold(n).reasoning, sent.told = Retold(n).told,
         n > 0 => client = "responses",
         \/ /\ type = "added" /\ provided.item = "none" /\ provided.reasoning = 0 /\ client = "responses"
            /\ sent.item = IF n = 0 THEN "open" ELSE "whole"
         \/ type = "done" /\ provided.item \in {"open", "whole"} /\ sent.item = "done"
         \/ type = "stop" /\ sent.item = provided.item /\ sent.stop = "stop" /\ ~provided.open,
         type # "stop" => sent.stop = provided.stop /\ provided.calls = <<>>
  PROVE  StreamInv'
<1>1. /\ StreamFollowed /\ buffer.type = "none" /\ provided.stop = "none"
      /\ provided' = sent /\ buffer' = [type |-> type, call |-> n]
      /\ UNCHANGED <<client, acc>>
  BY SendStarts
<1>2. StreamTypes /\ provided.reasoning \in Nat /\ provided.told \in Nat /\ provided.item \in Items
  BY <1>1 DEF StreamFollowed, StreamTypes
<1>3. /\ n \in Nat
      /\ n = 0 => sent.reasoning = provided.reasoning /\ sent.told = provided.told
      /\ n > 0 => /\ sent.reasoning = n /\ sent.told = provided.told + 1
                  /\ provided.reasoning \in {0, n}
  BY <1>2, RetoldIs
<1>4. PICK m \in Nat, k \in Nat : HeardOf(m, k)
  BY <1>1 DEF StreamFollowed, ThoughtHeard
<1>5. /\ Late("reasoning") = 0 /\ WholeLate = 0 /\ Late("reasoning")' = 0
      /\ WholeLate' = IF n > 0 THEN 1 ELSE 0
  BY <1>1 DEF Late, WholeLate
<1>6. m + k = 0 \/ provided.reasoning > 0
  BY <1>2, <1>4, <1>5 DEF HeardOf
<1>7. acc.reasoning = Tale(m, k, sent.reasoning)
  <2>1. acc.reasoning = Tale(m, k, provided.reasoning)
    BY <1>4 DEF HeardOf
  <2>2. CASE sent.reasoning = provided.reasoning
    BY <2>1, <2>2
  <2>3. CASE m + k = 0
    <3>1. m = 0 /\ k = 0 /\ sent.reasoning \in Nat
      BY <1>2, <1>3, <2>3
    <3>2. QED
      BY <1>2, <2>1, <3>1, DeltasOnly
  <2>4. QED
    BY <1>2, <1>3, <1>6, <2>2, <2>3
<1>8. Tellings' >= Tellings /\ Tellings' \in Nat /\ Tellings \in Nat /\ (type # "added" => Tellings' = Tellings + 1)
  BY <1>1, <1>2 DEF Tellings
<1>9. HeardOf(m, k)'
  <2>1. /\ provided'.reasoning = sent.reasoning /\ provided'.told = sent.told /\ provided'.item = sent.item
        /\ provided'.stop = sent.stop /\ acc' = acc /\ client' = client /\ buffer'.call = n
    BY <1>1
  <2>2. m > 0 => provided.reasoning = m /\ provided.told = k + 1 /\ provided.item # "whole"
    BY <1>4, <1>5 DEF HeardOf
  <2>3. m = 0 => provided.told = k
    BY <1>4, <1>5 DEF HeardOf
  <2>4. (provided.reasoning = 0 <=> provided.told = 0) /\ provided.told <= Tellings
    BY <1>4 DEF HeardOf
  <2>5. k > 0 \/ provided.item # "none" => client = "responses"
    BY <1>4, <1>5 DEF HeardOf
  <2>6. provided.item \in {"none", "open"} => k = 0
    BY <1>1, <1>4, <1>5 DEF HeardOf
  <2>7. provided'.told <= Tellings'
    <3>1. CASE n = 0
      BY <1>2, <1>3, <1>8, <2>1, <2>4, <3>1
    <3>2. CASE n > 0 /\ type # "added"
      BY <1>2, <1>3, <1>8, <2>1, <2>4, <3>2
    <3>3. CASE n > 0 /\ type = "added"
      <4>1. provided'.told = 1
        BY <1>3, <2>1, <2>4, <3>3
      <4>2. Tellings >= 1
        BY DEF Tellings
      <4>3. QED
        BY <1>8, <4>1, <4>2
    <3>4. QED
      BY <1>3, <3>1, <3>2, <3>3
  <2>8. m > 0 => provided'.reasoning = m /\ provided'.told = (k + WholeLate') + 1 /\ provided'.item # "whole"
    BY <1>2, <1>3, <1>5, <2>1, <2>2
  <2>9. m = 0 => provided'.told = k + WholeLate'
    BY <1>2, <1>3, <1>5, <2>1, <2>3
  <2>10. provided'.reasoning = 0 <=> provided'.told = 0
    BY <1>2, <1>3, <2>1, <2>4
  <2>11. k + WholeLate' > 0 \/ provided'.item # "none" => client = "responses"
    BY <1>2, <1>3, <1>5, <2>1, <2>5
  <2>12. provided'.item \in {"none", "open"} /\ provided'.stop = "none" => k + WholeLate' = 0
    BY <1>1, <1>3, <1>5, <2>1, <2>6
  <2>13. WholeLate' = 1 => buffer'.call = provided'.reasoning
    BY <1>3, <1>5, <2>1
  <2>14. m + 0 = m /\ acc'.reasoning = Tale(m, k, provided'.reasoning)
    BY <1>7, <2>1
  <2>15. QED
    BY <1>5, <2>7, <2>8, <2>9, <2>10, <2>11, <2>12, <2>13, <2>14, <2>1 DEF HeardOf
<1>10. ThoughtHeard'
  BY <1>9 DEF ThoughtHeard
<1>11. sent.reasoning \in Nat /\ sent.told \in Nat /\ sent.item \in Items
  BY <1>2, <1>3 DEF Items
<1>12. QED
  BY <1>3, <1>10, <1>11, ThoughtSentKeeps

LEMMA SendItemKeeps ==
  ASSUME StreamInv, SendItemAdded \/ SendItemDone
  PROVE  StreamInv'
<1>1. reader = "locked"
  BY DEF SendItemAdded, SendItemDone, Send
<1>2. StreamFollowed /\ StreamTypes /\ ThoughtHeard
  BY <1>1 DEF StreamInv, StreamFollowed
<1>3. provided.item # "none" => client = "responses"
  BY <1>2 DEF ThoughtHeard, HeardOf
<1>4. CASE SendItemAdded
  <2>1. PICK n \in Wholes : Send("added", n, [Retold(n) EXCEPT !.item = IF n = 0 THEN "open" ELSE "whole"])
    BY <1>4 DEF SendItemAdded
  <2>2. client = "responses" /\ provided.calls = <<>> /\ provided.item = "none" /\ provided.reasoning = 0
    BY <1>4 DEF SendItemAdded, Thinking
  <2> DEFINE sent == [Retold(n) EXCEPT !.item = IF n = 0 THEN "open" ELSE "whole"]
  <2>3. /\ DOMAIN sent = DOMAIN provided /\ sent.text = provided.text /\ sent.calls = provided.calls
        /\ sent.open = provided.open /\ sent.stop = provided.stop
        /\ sent.reasoning = Retold(n).reasoning /\ sent.told = Retold(n).told
        /\ sent.item = IF n = 0 THEN "open" ELSE "whole"
    <3>1. /\ DOMAIN Retold(n) = DOMAIN provided /\ Retold(n).text = provided.text
          /\ Retold(n).calls = provided.calls /\ Retold(n).open = provided.open /\ Retold(n).stop = provided.stop
          /\ "item" \in DOMAIN Retold(n)
      BY <1>2, RetoldIs DEF StreamTypes
    <3> HIDE DEF sent
    <3>2. sent = [Retold(n) EXCEPT !["item"] = IF n = 0 THEN "open" ELSE "whole"]
      BY DEF sent
    <3>3. QED
      BY <3>1, <3>2
  <2>4. Send("added", n, sent)
    BY <2>1
  <2> HIDE DEF sent
  <2>5. QED
    BY <2>2, <2>3, <2>4, WholeSentKeeps
<1>5. CASE SendItemDone
  <2>1. PICK n \in Wholes : Send("done", n, [Retold(n) EXCEPT !.item = "done"])
    BY <1>5 DEF SendItemDone
  <2>2. provided.item \in {"open", "whole"} /\ client = "responses"
    BY <1>3, <1>5 DEF SendItemDone
  <2>3. provided.calls = <<>>
    BY <1>2, <2>2 DEF StreamFollowed, SentInOrder
  <2> DEFINE sent == [Retold(n) EXCEPT !.item = "done"]
  <2>4. /\ DOMAIN sent = DOMAIN provided /\ sent.text = provided.text /\ sent.calls = provided.calls
        /\ sent.open = provided.open /\ sent.stop = provided.stop
        /\ sent.reasoning = Retold(n).reasoning /\ sent.told = Retold(n).told /\ sent.item = "done"
    <3>1. /\ DOMAIN Retold(n) = DOMAIN provided /\ Retold(n).text = provided.text
          /\ Retold(n).calls = provided.calls /\ Retold(n).open = provided.open /\ Retold(n).stop = provided.stop
          /\ "item" \in DOMAIN Retold(n)
      BY <1>2, RetoldIs DEF StreamTypes
    <3> HIDE DEF sent
    <3>2. sent = [Retold(n) EXCEPT !["item"] = "done"]
      BY DEF sent
    <3>3. QED
      BY <3>1, <3>2
  <2>5. Send("done", n, sent)
    BY <2>1
  <2> HIDE DEF sent
  <2>6. QED
    BY <2>2, <2>3, <2>4, <2>5, WholeSentKeeps
<1>6. QED
  BY <1>4, <1>5

LEMMA SendErrorKeeps ==
  ASSUME StreamInv, SendError
  PROVE  StreamInv'
<1>1. Send("error", 0, provided)
  BY DEF SendError
<1>2. /\ StreamFollowed /\ buffer.type = "none" /\ ~acc.usage /\ provided.stop = "none"
      /\ provided' = provided /\ buffer' = [type |-> "error", call |-> 0]
      /\ UNCHANGED <<client, acc, shown>>
  BY <1>1, SendStarts
<1>3. buffer'.type = "error" /\ buffer' \in [type : EventTypes, call : Nat]
  BY <1>2 DEF EventTypes
<1>4. StreamFollowed'
  <2>1. StreamTypes'
    BY <1>2, <1>3 DEF StreamFollowed, StreamTypes
  <2>2. SentInOrder'
    BY <1>2, <1>3 DEF StreamFollowed, SentInOrder, StopReasons
  <2>3. TextHeard'
    BY <1>2, <1>3 DEF StreamFollowed, TextHeard, Late
  <2>4. ThoughtHeard'
    BY <1>2, <1>3, ThoughtKept DEF StreamFollowed, Late, WholeLate
  <2>5. CallsHeard'
    BY <1>2, <1>3 DEF StreamFollowed, CallsHeard, Late, InHand
  <2>6. QED
    BY <2>1, <2>2, <2>3, <2>4, <2>5 DEF StreamFollowed
<1>5. QED
  BY <1>1, <1>4, SendKeeps

LEMMA SendStopKeeps ==
  ASSUME StreamInv, ~provided.open, NEW n \in IF client = "responses" THEN Wholes ELSE {0},
         Send("stop", n, [Retold(n) EXCEPT !.stop = "stop"])
  PROVE  StreamInv'
<1> DEFINE sent == [Retold(n) EXCEPT !.stop = "stop"]
<1>1. StreamFollowed /\ StreamTypes
  BY SendStarts DEF StreamFollowed
<1>2. n \in Wholes /\ (n > 0 => client = "responses")
  <2>1. 0 \in Wholes
    BY StreamAssumption DEF Wholes
  <2>2. QED
    BY <2>1
<1>3. /\ DOMAIN sent = DOMAIN provided /\ sent.text = provided.text /\ sent.calls = provided.calls
      /\ sent.open = provided.open /\ sent.item = provided.item
      /\ sent.reasoning = Retold(n).reasoning /\ sent.told = Retold(n).told /\ sent.stop = "stop"
  <2>1. /\ DOMAIN Retold(n) = DOMAIN provided /\ Retold(n).text = provided.text
        /\ Retold(n).calls = provided.calls /\ Retold(n).open = provided.open /\ Retold(n).item = provided.item
        /\ "stop" \in DOMAIN Retold(n)
    BY <1>1, <1>2, RetoldIs DEF StreamTypes
  <2> HIDE DEF sent
  <2>2. sent = [Retold(n) EXCEPT !["stop"] = "stop"]
    BY DEF sent
  <2>3. QED
    BY <2>1, <2>2
<1>4. Send("stop", n, sent)
  OBVIOUS
<1> HIDE DEF sent
<1>5. QED
  BY <1>2, <1>3, <1>4, WholeSentKeeps

LEMMA SendLengthKeeps ==
  ASSUME StreamInv, Send("length", 0, [provided EXCEPT !.stop = "length"])
  PROVE  StreamInv'
<1> DEFINE sent == [provided EXCEPT !.stop = "length"]
<1>2. /\ StreamFollowed /\ buffer.type = "none" /\ ~acc.usage /\ provided.stop = "none"
      /\ provided' = sent /\ buffer' = [type |-> "length", call |-> 0]
      /\ UNCHANGED <<client, acc, shown>>
  BY SendStarts
<1>3. StreamTypes
  BY <1>2 DEF StreamFollowed
<1>4. /\ provided'.text = provided.text /\ provided'.reasoning = provided.reasoning
      /\ provided'.told = provided.told /\ provided'.item = provided.item
      /\ provided'.calls = provided.calls /\ provided'.open = provided.open /\ provided'.stop = "length"
      /\ DOMAIN provided' = DOMAIN provided
      /\ buffer'.type = "length" /\ buffer' \in [type : EventTypes, call : Nat]
  BY <1>2, <1>3 DEF StreamTypes, EventTypes
<1>5. StreamFollowed'
  <2>1. StreamTypes'
    BY <1>2, <1>3, <1>4 DEF StreamTypes, StopReasons
  <2>2. SentInOrder'
    BY <1>2, <1>4 DEF StreamFollowed, SentInOrder, StopReasons
  <2>3. TextHeard'
    BY <1>2, <1>4 DEF StreamFollowed, TextHeard, Late
  <2>4. ThoughtHeard'
    BY <1>2, <1>4, ThoughtKept DEF StreamFollowed, Late, WholeLate
  <2>5. CallsHeard'
    <3>1. InHand' <=> InHand
      BY <1>2, <1>4 DEF InHand
    <3>2. Late("args")' = Late("args") /\ Late("open")' = Late("open")
      BY <1>2, <1>4 DEF Late
    <3>3. QED
      BY <1>2, <1>4, <3>1, <3>2 DEF StreamFollowed, CallsHeard
  <2>6. QED
    BY <2>1, <2>2, <2>3, <2>4, <2>5 DEF StreamFollowed
<1>6. QED
  BY <1>5, SendKeeps

LEMMA SendCloseKeeps ==
  ASSUME StreamInv, SendClose
  PROVE  StreamInv'
<1> DEFINE sent == [provided EXCEPT !.open = FALSE]
           n == Len(provided.calls)
<1>1. Send("close", n, sent) /\ provided.open
  BY DEF SendClose, Current
<1>2. /\ StreamFollowed /\ buffer.type = "none" /\ ~acc.usage
      /\ provided' = sent /\ buffer' = [type |-> "close", call |-> n]
      /\ UNCHANGED <<client, acc, shown>>
  BY <1>1, SendStarts
<1>3. StreamTypes
  BY <1>2 DEF StreamFollowed
<1>4. /\ provided'.text = provided.text /\ provided'.reasoning = provided.reasoning
      /\ provided'.told = provided.told /\ provided'.item = provided.item
      /\ provided'.calls = provided.calls /\ ~provided'.open /\ provided'.stop = provided.stop
      /\ DOMAIN provided' = DOMAIN provided /\ n \in Nat
      /\ buffer'.type = "close" /\ buffer'.call = n /\ buffer' \in [type : EventTypes, call : Nat]
  BY <1>2, <1>3 DEF StreamTypes, EventTypes
<1>5. StreamFollowed'
  <2>1. StreamTypes'
    BY <1>2, <1>3, <1>4 DEF StreamTypes
  <2>2. SentInOrder'
    <3>1. SentInOrder
      BY <1>2 DEF StreamFollowed
    <3>2. n > 0
      BY <1>1, <3>1 DEF SentInOrder
    <3>3. QED
      BY <1>2, <1>4, <3>1, <3>2 DEF SentInOrder, StopReasons
  <2>3. TextHeard'
    BY <1>2, <1>4 DEF StreamFollowed, TextHeard, Late
  <2>4. ThoughtHeard'
    BY <1>2, <1>4, ThoughtKept DEF StreamFollowed, Late, WholeLate
  <2>5. CallsHeard'
    <3>1. InHand' <=> InHand
      BY <1>1, <1>2, <1>4 DEF InHand
    <3>2. Late("args")' = Late("args") /\ Late("open")' = Late("open")
      BY <1>2, <1>4 DEF Late
    <3>3. QED
      BY <1>2, <1>4, <3>1, <3>2 DEF StreamFollowed, CallsHeard
  <2>6. QED
    BY <2>1, <2>2, <2>3, <2>4, <2>5 DEF StreamFollowed
<1>6. QED
  BY <1>1, <1>5, SendKeeps

LEMMA SendOpenKeeps ==
  ASSUME StreamInv, SendOpen
  PROVE  StreamInv'
<1> DEFINE n == Len(provided.calls)
<1>0. PICK total \in 0 .. MaxFragments :
        Send("open", n + 1, [provided EXCEPT !.calls = Append(@, [sent |-> 0, total |-> total]), !.open = TRUE])
  BY DEF SendOpen, Current
<1> DEFINE sent == [provided EXCEPT !.calls = Append(@, [sent |-> 0, total |-> total]), !.open = TRUE]
<1>1. Send("open", n + 1, sent) /\ ~provided.open /\ CallsComplete
  BY <1>0 DEF SendOpen
<1>2. /\ StreamFollowed /\ buffer.type = "none" /\ ~acc.usage /\ provided.stop = "none"
      /\ provided' = sent /\ buffer' = [type |-> "open", call |-> n + 1]
      /\ UNCHANGED <<client, acc, shown>>
  BY <1>1, SendStarts
<1>3. StreamTypes /\ total \in Nat
  BY <1>2, StreamAssumption DEF StreamFollowed
<1>4. /\ provided'.text = provided.text /\ provided'.reasoning = provided.reasoning
      /\ provided'.told = provided.told /\ provided'.item = provided.item
      /\ provided'.calls = Append(provided.calls, [sent |-> 0, total |-> total])
      /\ provided'.open /\ provided'.stop = provided.stop
      /\ DOMAIN provided' = DOMAIN provided /\ n \in Nat
      /\ buffer'.type = "open" /\ buffer'.call = n + 1 /\ buffer' \in [type : EventTypes, call : Nat]
  BY <1>2, <1>3 DEF StreamTypes, EventTypes
<1>5. /\ provided'.calls \in Seq(SentCall) /\ Len(provided'.calls) = n + 1
      /\ \A i \in 1 .. n : provided'.calls[i] = provided.calls[i]
      /\ provided'.calls[n + 1].sent = 0 /\ provided'.calls[n + 1].total = total
  <2>1. provided.calls \in Seq(SentCall) /\ [sent |-> 0, total |-> total] \in SentCall
    BY <1>3 DEF StreamTypes, SentCall
  <2>2. QED
    BY <1>4, <2>1
<1>6. StreamFollowed'
  <2>1. StreamTypes'
    BY <1>2, <1>3, <1>4, <1>5 DEF StreamTypes
  <2>2. SentInOrder'
    <3>1. SentInOrder
      BY <1>2 DEF StreamFollowed
    <3>2. \A i \in 1 .. n : provided.calls[i].sent = provided.calls[i].total
      BY <1>1, <1>3 DEF CallsComplete, StreamTypes
    <3>3. \A i \in 1 .. n : provided.calls[i].sent <= provided.calls[i].total
      BY <3>1 DEF SentInOrder
    <3>4. \A i \in 1 .. n + 1 :
            /\ provided'.calls[i].sent <= provided'.calls[i].total
            /\ i < n + 1 => provided'.calls[i].sent = provided'.calls[i].total
      <4> SUFFICES ASSUME NEW i \in 1 .. n + 1
                   PROVE  /\ provided'.calls[i].sent <= provided'.calls[i].total
                          /\ i < n + 1 => provided'.calls[i].sent = provided'.calls[i].total
        OBVIOUS
      <4>1. CASE i = n + 1
        BY <1>3, <1>5, <4>1
      <4>2. CASE i # n + 1
        <5>1. i \in 1 .. n
          BY <1>4, <4>2
        <5>2. QED
          BY <1>5, <3>2, <3>3, <5>1
      <4>3. QED
        BY <4>1, <4>2
    <3>5. provided'.item \notin {"open", "whole"} /\ Len(provided'.calls) > 0
      BY <1>0, <1>4, <1>5 DEF SendOpen, ThoughtEnded
    <3>6. QED
      BY <1>2, <1>4, <1>5, <3>1, <3>4, <3>5 DEF SentInOrder, StopReasons
  <2>3. TextHeard'
    BY <1>2, <1>4 DEF StreamFollowed, TextHeard, Late
  <2>4. ThoughtHeard'
    BY <1>2, <1>4, ThoughtKept DEF StreamFollowed, Late, WholeLate
  <2>5. CallsHeard'
    <3>1. ~InHand /\ ~InHand'
      BY <1>1, <1>2, <1>4 DEF InHand
    <3>2. Late("args")' = 0 /\ Late("open")' = 1 /\ Late("args") = 0 /\ Late("open") = 0
      BY <1>2, <1>4 DEF Late
    <3>3. /\ Len(acc.calls) = n /\ acc.pending = <<>>
          /\ \A i \in 1 .. n : acc.calls[i].call = i /\ acc.calls[i].json = provided.calls[i].sent - 0
      BY <1>2, <1>4, <3>1, <3>2 DEF StreamFollowed, CallsHeard
    <3>4. \A i \in 1 .. n : acc.calls[i].call = i /\ acc.calls[i].json = provided'.calls[i].sent - 0
      BY <1>5, <3>3
    <3>5. QED
      BY <1>2, <1>4, <1>5, <3>1, <3>2, <3>3, <3>4 DEF CallsHeard
  <2>6. QED
    BY <2>1, <2>2, <2>3, <2>4, <2>5 DEF StreamFollowed
<1>7. QED
  BY <1>1, <1>6, SendKeeps

LEMMA SendArgumentsKeeps ==
  ASSUME StreamInv, SendArguments
  PROVE  StreamInv'
<1> DEFINE n == Len(provided.calls)
           sent == [provided EXCEPT !.calls[n].sent = @ + 1]
<1>1. Send("args", n, sent) /\ provided.open /\ provided.calls[n].sent < provided.calls[n].total
  BY DEF SendArguments, Current, Last
<1>2. /\ StreamFollowed /\ buffer.type = "none" /\ ~acc.usage /\ provided.stop = "none"
      /\ provided' = sent /\ buffer' = [type |-> "args", call |-> n]
      /\ UNCHANGED <<client, acc, shown>>
  BY <1>1, SendStarts
<1>3. /\ StreamTypes /\ SentInOrder /\ provided.calls \in Seq(SentCall)
      /\ n \in Nat /\ n > 0 /\ n \in 1 .. n
      /\ provided.calls[n].sent \in Nat /\ provided.calls[n].total \in Nat
      /\ provided.calls[n] \in SentCall
  <2>1. StreamTypes /\ SentInOrder /\ provided.calls \in Seq(SentCall)
    BY <1>2 DEF StreamFollowed, StreamTypes
  <2>2. n \in Nat /\ n > 0
    BY <1>1, <2>1 DEF SentInOrder
  <2>3. n \in 1 .. n
    BY <2>2
  <2>4. provided.calls[n] \in SentCall
    BY <2>1, <2>2, <2>3
  <2>5. provided.calls[n].sent \in Nat /\ provided.calls[n].total \in Nat
    BY <2>4 DEF SentCall
  <2>6. QED
    BY <2>1, <2>2, <2>3, <2>4, <2>5
<1>4. /\ provided'.text = provided.text /\ provided'.reasoning = provided.reasoning
      /\ provided'.told = provided.told /\ provided'.item = provided.item
      /\ provided'.open /\ provided'.stop = provided.stop
      /\ provided'.calls = [provided.calls EXCEPT ![n].sent = @ + 1]
      /\ DOMAIN provided' = DOMAIN provided
      /\ buffer'.type = "args" /\ buffer'.call = n /\ buffer' \in [type : EventTypes, call : Nat]
  BY <1>1, <1>2, <1>3 DEF StreamTypes, EventTypes
<1>5. /\ provided'.calls \in Seq(SentCall) /\ Len(provided'.calls) = n
      /\ \A i \in 1 .. n : i # n => provided'.calls[i] = provided.calls[i]
      /\ provided'.calls[n].sent = provided.calls[n].sent + 1 /\ provided'.calls[n].total = provided.calls[n].total
  <2>1. [provided.calls[n] EXCEPT !.sent = @ + 1] \in SentCall
    BY <1>3 DEF SentCall
  <2>2. /\ [provided.calls[n] EXCEPT !.sent = @ + 1].sent = provided.calls[n].sent + 1
        /\ [provided.calls[n] EXCEPT !.sent = @ + 1].total = provided.calls[n].total
    BY <1>3 DEF SentCall
  <2>3. provided'.calls = [provided.calls EXCEPT ![n] = [provided.calls[n] EXCEPT !.sent = @ + 1]]
    BY <1>4
  <2>4. \A e \in SentCall : LET s == [provided.calls EXCEPT ![n] = e]
        IN s \in Seq(SentCall) /\ Len(s) = n /\ s[n] = e /\ \A i \in 1 .. n : i # n => s[i] = provided.calls[i]
    BY <1>3
  <2>5. QED
    BY <2>1, <2>2, <2>3, <2>4
<1>6. StreamFollowed'
  <2>1. StreamTypes'
    BY <1>2, <1>3, <1>4, <1>5 DEF StreamTypes
  <2>2. SentInOrder'
    <3>1. provided.calls[n].sent \in Nat /\ provided.calls[n].total \in Nat
      BY <1>3
    <3>2. \A i \in 1 .. n :
            /\ provided'.calls[i].sent <= provided'.calls[i].total
            /\ i < n => provided'.calls[i].sent = provided'.calls[i].total
      <4> SUFFICES ASSUME NEW i \in 1 .. n
                   PROVE  /\ provided'.calls[i].sent <= provided'.calls[i].total
                          /\ i < n => provided'.calls[i].sent = provided'.calls[i].total
        OBVIOUS
      <4>1. CASE i = n
        BY <1>1, <1>3, <1>5, <3>1, <4>1
      <4>2. CASE i # n
        BY <1>3, <1>5, <4>2 DEF SentInOrder
      <4>3. QED
        BY <4>1, <4>2
    <3>3. provided'.calls[n].sent > 0
      BY <1>5, <3>1
    <3>4. QED
      BY <1>2, <1>3, <1>4, <1>5, <3>2, <3>3 DEF SentInOrder, StopReasons
  <2>3. TextHeard'
    BY <1>2, <1>4 DEF StreamFollowed, TextHeard, Late
  <2>4. ThoughtHeard'
    BY <1>2, <1>4, ThoughtKept DEF StreamFollowed, Late, WholeLate
  <2>5. CallsHeard'
    <3>1. InHand' <=> InHand
      BY <1>1, <1>2, <1>4 DEF InHand
    <3>2. Late("args")' = 1 /\ Late("open")' = 0 /\ Late("args") = 0 /\ Late("open") = 0
      BY <1>2, <1>4 DEF Late
    <3>3. CallsHeard /\ provided.calls[n].sent \in Nat
      BY <1>2, <1>3 DEF StreamFollowed
    <3>4. Len(acc.calls) \in Nat /\ Len(acc.calls) <= n
      BY <1>3, <3>2, <3>3 DEF CallsHeard, StreamTypes
    <3>5. \A i \in 1 .. Len(acc.calls) :
             provided.calls[i].sent - 0 = provided'.calls[i].sent - (IF i = n THEN 1 ELSE 0)
      <4> SUFFICES ASSUME NEW i \in 1 .. Len(acc.calls)
                   PROVE  provided.calls[i].sent - 0 = provided'.calls[i].sent - (IF i = n THEN 1 ELSE 0)
        OBVIOUS
      <4>1. i \in 1 .. n
        BY <1>3, <3>4
      <4>2. CASE i = n
        <5>1. provided'.calls[n].sent = provided.calls[n].sent + 1 /\ provided.calls[n].sent \in Nat
          BY <1>5, <3>3
        <5>2. provided.calls[n].sent - 0 = provided'.calls[n].sent - 1
          BY <5>1
        <5>3. QED
          BY <4>2, <5>2
      <4>3. CASE i # n
        BY <1>5, <4>1, <4>3
      <4>4. QED
        BY <4>2, <4>3
    <3>6. \A i \in 1 .. Len(acc.calls) :
            /\ acc.calls[i].call = i
            /\ acc.calls[i].json = provided'.calls[i].sent - (IF i = n THEN 1 ELSE 0)
      BY <3>2, <3>3, <3>5 DEF CallsHeard
    <3>7. provided.calls[n].sent - 0 = provided'.calls[n].sent - 1
      BY <1>5, <3>3
    <3>8. IF InHand
          THEN /\ Len(acc.calls) = n - 1 /\ Len(acc.pending) = 1
               /\ acc.pending[1].call = n /\ acc.pending[1].json = provided'.calls[n].sent - 1
          ELSE Len(acc.calls) = n - 0 /\ acc.pending = <<>>
      BY <3>2, <3>3, <3>7 DEF CallsHeard
    <3>9. QED
      BY <1>2, <1>5, <3>1, <3>2, <3>6, <3>8 DEF CallsHeard
  <2>6. QED
    BY <2>1, <2>2, <2>3, <2>4, <2>5 DEF StreamFollowed
<1>7. QED
  BY <1>1, <1>6, SendKeeps

\* What a line that ends leaves alone.
LEMMA LineStarts ==
  ASSUME StreamInv, LineEnds
  PROVE  /\ StreamFollowed /\ client \in Clients
         /\ acc' = Processed(acc, buffer) /\ buffer'.type = "none" /\ buffer' \in [type : EventTypes, call : Nat]
         /\ shown' = IF buffer.type = "text" THEN shown + 1 ELSE shown
         /\ UNCHANGED <<client, provided>>
<1>1. StreamFollowed /\ client \in Clients
  BY DEF LineEnds, StreamInv, StreamHeard, StreamTypeOK
<1>2. buffer'.type = "none" /\ buffer' \in [type : EventTypes, call : Nat]
  BY DEF LineEnds, NoEvent, EventTypes
<1>3. QED
  BY <1>1, <1>2 DEF LineEnds

LEMMA LineKeeps ==
  ASSUME StreamInv, LineEnds, StreamFollowed'
  PROVE  StreamInv'
<1>1. /\ reader = "locked" /\ streamed /\ reply = NoReply
      /\ UNCHANGED <<client, provided, streamed, reader, reply>>
  BY DEF LineEnds, StreamInv
<1>2. StreamTypeOK' /\ client # "blank"
  <2>1. StreamTypeOK /\ client # "blank"
    BY <1>1 DEF StreamInv, StreamHeard
  <2>2. Len(acc'.pending) <= 1
    <3>1. Len(acc'.pending) = 1 \/ acc'.pending = <<>>
      BY Zenon DEF StreamFollowed, CallsHeard
    <3>2. Len(<<>>) = 0
      OBVIOUS
    <3>3. Len(acc'.pending) = 1 \/ Len(acc'.pending) = 0
      BY <3>1, <3>2, Zenon
    <3>4. 1 <= 1 /\ 0 <= 1
      OBVIOUS
    <3>5. QED
      BY <3>3, <3>4, Zenon
  <2>3. QED
    BY <1>1, <2>1, <2>2 DEF StreamTypeOK
<1>3. StreamHeard'
  BY <1>1, <1>2 DEF NoReply, StreamHeard, HeardIsWhole, CutCallsMarked, ShownIsAnswer, ReasoningTold, Replied
<1>4. QED
  BY <1>1, <1>2, <1>3 DEF StreamInv

LEMMA TextLineKeeps ==
  ASSUME StreamInv, LineEnds, buffer.type = "text"
  PROVE  StreamInv'
<1>1. /\ StreamFollowed /\ client \in Clients
      /\ acc' = Processed(acc, buffer) /\ buffer'.type = "none" /\ buffer' \in [type : EventTypes, call : Nat]
      /\ shown' = shown + 1
      /\ UNCHANGED <<client, provided>>
  BY LineStarts
<1>2. StreamTypes
  BY <1>1 DEF StreamFollowed
<1>3. /\ acc'.text = acc.text + 1 /\ acc'.reasoning = acc.reasoning /\ acc'.calls = acc.calls
      /\ acc'.pending = acc.pending /\ acc'.usage = acc.usage /\ DOMAIN acc' = DOMAIN acc
  BY <1>1, <1>2 DEF Processed, StreamTypes, StopReasons
<1>4. StreamFollowed'
  <2>1. StreamTypes'
    BY <1>1, <1>2, <1>3 DEF StreamTypes
  <2>2. SentInOrder'
    BY <1>1, <1>3 DEF StreamFollowed, SentInOrder, StopReasons
  <2>3. TextHeard'
    BY <1>1, <1>2, <1>3 DEF StreamFollowed, StreamTypes, TextHeard, Late
  <2>4. ThoughtHeard'
    BY <1>1, <1>3, ThoughtKept DEF StreamFollowed, Late, WholeLate
  <2>5. CallsHeard'
    <3>1. InHand' <=> InHand
      BY <1>1 DEF InHand
    <3>2. Late("args")' = Late("args") /\ Late("open")' = Late("open")
      BY <1>1 DEF Late
    <3>3. QED
      BY <1>1, <1>3, <3>1, <3>2 DEF StreamFollowed, CallsHeard
  <2>6. QED
    BY <2>1, <2>2, <2>3, <2>4, <2>5 DEF StreamFollowed
<1>5. QED
  BY <1>4, LineKeeps

LEMMA ReasoningLineKeeps ==
  ASSUME StreamInv, LineEnds, buffer.type = "reasoning"
  PROVE  StreamInv'
<1> DEFINE n == provided.reasoning
<1>1. /\ StreamFollowed /\ client \in Clients
      /\ acc' = Processed(acc, buffer) /\ buffer'.type = "none" /\ buffer' \in [type : EventTypes, call : Nat]
      /\ shown' = shown
      /\ UNCHANGED <<client, provided>>
  BY LineStarts
<1>2. StreamTypes /\ n \in Nat /\ ~acc.usage
  BY <1>1 DEF StreamFollowed, SentInOrder, StreamTypes
<1>3. PICK m \in Nat, k \in Nat : HeardOf(m, k)
  BY <1>1 DEF StreamFollowed, ThoughtHeard
<1>4. Late("reasoning") = 1 /\ WholeLate = 0 /\ Late("reasoning")' = 0 /\ WholeLate' = 0
  BY <1>1 DEF Late, WholeLate
<1>5. k = 0 /\ n = m + 1 /\ buffer.call = n /\ acc.reasoning = Tale(m, 0, n)
  BY <1>3, <1>4 DEF HeardOf
<1>6. /\ acc'.text = acc.text /\ acc'.reasoning = Append(acc.reasoning, <<n>>) /\ acc'.calls = acc.calls
      /\ acc'.pending = acc.pending /\ acc'.usage = acc.usage /\ DOMAIN acc' = DOMAIN acc
  BY <1>1, <1>2, <1>5 DEF Processed, StreamTypes, StopReasons
<1>7. acc'.reasoning = Tale(m + 1, 0, n) /\ acc'.reasoning \in Seq(Seq(Nat))
  <2>1. acc'.reasoning = Tale(m + 1, 0, n)
    BY <1>2, <1>5, <1>6, DeltaAdded
  <2>2. m + 1 \in Nat /\ 0 \in Nat
    OBVIOUS
  <2>3. IsTale(Tale(m + 1, 0, n), m + 1, 0, n)
    BY <1>2, <2>2, TaleTyped, Zenon
  <2>4. QED
    BY <2>1, <2>3, Zenon DEF IsTale
<1>8. StreamFollowed'
  <2>1. StreamTypes'
    BY <1>1, <1>2, <1>6, <1>7 DEF StreamTypes
  <2>2. SentInOrder'
    BY <1>1, <1>6 DEF StreamFollowed, SentInOrder, StopReasons
  <2>3. TextHeard'
    BY <1>1, <1>2, <1>6 DEF StreamFollowed, TextHeard, Late
  <2>4. ThoughtHeard'
    <3>1. Tellings' = Tellings
      BY <1>1 DEF Tellings
    <3>2. HeardOf(m + 1, 0)'
      BY <1>1, <1>3, <1>4, <1>5, <1>7, <3>1 DEF HeardOf
    <3>3. QED
      BY <3>2 DEF ThoughtHeard
  <2>5. CallsHeard'
    <3>1. InHand' <=> InHand
      BY <1>1 DEF InHand
    <3>2. Late("args")' = Late("args") /\ Late("open")' = Late("open")
      BY <1>1 DEF Late
    <3>3. QED
      BY <1>1, <1>6, <3>1, <3>2 DEF StreamFollowed, CallsHeard
  <2>6. QED
    BY <2>1, <2>2, <2>3, <2>4, <2>5 DEF StreamFollowed
<1>9. QED
  BY <1>8, LineKeeps

\* The reasoning with what an event tells of it in one piece.
LEMMA WholeHeard ==
  ASSUME StreamFollowed, buffer.type \in {"added", "done", "stop"}, buffer'.type = "none",
         acc'.reasoning = acc.reasoning \o Whole(buffer.call), UNCHANGED <<client, provided>>
  PROVE  ThoughtHeard' /\ acc'.reasoning \in Seq(Seq(Nat))
<1> DEFINE n == provided.reasoning
<1>1. PICK m \in Nat, k \in Nat : HeardOf(m, k)
  BY DEF StreamFollowed, ThoughtHeard
<1>2. n \in Nat /\ buffer.call \in Nat
  BY DEF StreamFollowed, StreamTypes
<1>3. /\ Late("reasoning") = 0 /\ Late("reasoning")' = 0 /\ WholeLate' = 0
      /\ WholeLate = IF buffer.call > 0 THEN 1 ELSE 0
  BY DEF Late, WholeLate
<1>4. acc.reasoning = Tale(m, k, n) /\ (buffer.call > 0 => buffer.call = n)
  BY <1>1, <1>3 DEF HeardOf
<1>5. Tellings' = Tellings
  BY DEF Tellings
<1>6. CASE buffer.call > 0
  <2>0. PICK o \in Nat : o = k + 1
    OBVIOUS
  <2>1. acc'.reasoning = Tale(m, k + 1, n) /\ k + 1 \in Nat
    <3>1. buffer.call = n /\ n > 0
      BY <1>4, <1>6
    <3>2. acc'.reasoning = Tale(m, k, n) \o Whole(n)
      BY <1>4, <3>1, Zenon
    <3>3. Tale(m, k, n) \o Whole(n) = Tale(m, k + 1, n)
      BY <1>2, <3>1, WholeAdded
    <3>4. QED
      BY <2>0, <3>2, <3>3, Zenon
  <2>2. HeardOf(m, k + 1)'
    BY <1>1, <1>2, <1>3, <1>4, <1>5, <1>6, <2>1 DEF HeardOf
  <2>3. Tale(m, o, n) \in Seq(Seq(Nat))
    <3>1. IsTale(Tale(m, o, n), m, o, n)
      BY <1>2, TaleTyped, Zenon
    <3>2. QED
      BY <3>1, Zenon DEF IsTale
  <2>4. QED
    BY <1>2, <2>0, <2>1, <2>2, <2>3, Zenon DEF ThoughtHeard
<1>7. CASE buffer.call = 0
  <2>0. Tale(m, k, n) \in Seq(Seq(Nat))
    <3>1. IsTale(Tale(m, k, n), m, k, n)
      BY <1>2, TaleTyped, Zenon
    <3>2. QED
      BY <3>1, Zenon DEF IsTale
  <2>1. acc'.reasoning = Tale(m, k, n)
    <3>1. Whole(buffer.call) = Whole(0) /\ Tale(m, k, n) \o <<>> = Tale(m, k, n)
      BY <1>7, <2>0
    <3>2. Whole(0) = <<>>
      BY DEF Whole
    <3>3. QED
      BY <1>4, <3>1, <3>2
  <2>2. HeardOf(m, k)'
    BY <1>1, <1>2, <1>3, <1>5, <1>7, <2>1 DEF HeardOf
  <2>3. QED
    BY <2>0, <2>1, <2>2, Zenon DEF ThoughtHeard
<1>8. QED
  BY <1>2, <1>6, <1>7

LEMMA ItemLineKeeps ==
  ASSUME StreamInv, LineEnds, buffer.type \in {"added", "done"}
  PROVE  StreamInv'
<1>1. /\ StreamFollowed /\ client \in Clients
      /\ acc' = Processed(acc, buffer) /\ buffer'.type = "none" /\ buffer' \in [type : EventTypes, call : Nat]
      /\ shown' = shown
      /\ UNCHANGED <<client, provided>>
  BY LineStarts
<1>2. StreamTypes /\ provided.calls = <<>> /\ ~acc.usage /\ ~provided.open
  <2>1. SentInOrder /\ StreamTypes
    BY <1>1 DEF StreamFollowed
  <2>2. provided.calls = <<>> /\ Len(<<>>) = 0
    BY <2>1 DEF SentInOrder
  <2>3. QED
    BY <2>1, <2>2 DEF SentInOrder
<1>3. acc.calls = <<>> /\ acc.pending = <<>>
  <2>1. ~InHand /\ Late("open") = 0
    BY <1>2 DEF InHand, Late
  <2>2. Len(acc.calls) = 0 /\ acc.pending = <<>>
    BY <1>1, <1>2, <2>1 DEF StreamFollowed, CallsHeard
  <2>3. QED
    BY <1>2, <2>2 DEF StreamTypes
<1>4. /\ acc'.text = acc.text /\ acc'.calls = acc.calls /\ acc'.pending = acc.pending
      /\ acc'.usage = acc.usage /\ DOMAIN acc' = DOMAIN acc
      /\ acc'.reasoning = acc.reasoning \o Whole(buffer.call)
  <2>1. CASE buffer.type = "added"
    <3>1. acc' = AddWhole(acc, buffer.call)
      BY <1>1, <2>1 DEF Processed, StopReasons
    <3>2. QED
      BY <1>2, <3>1 DEF AddWhole, StreamTypes
  <2>2. CASE buffer.type = "done"
    <3>1. acc' = AddWhole(FinishCall(acc), buffer.call)
      BY <1>1, <2>2 DEF Processed, StopReasons
    <3>2. /\ FinishCall(acc).text = acc.text /\ FinishCall(acc).reasoning = acc.reasoning
          /\ FinishCall(acc).calls = acc.calls /\ FinishCall(acc).pending = acc.pending
          /\ FinishCall(acc).usage = acc.usage /\ DOMAIN FinishCall(acc) = DOMAIN acc
      <4>1. acc.calls \o acc.pending = <<>>
        BY <1>3
      <4>2. QED
        BY <1>2, <1>3, <4>1 DEF FinishCall, StreamTypes
    <3>3. /\ DOMAIN FinishCall(acc) = {"text", "reasoning", "calls", "pending", "stop", "usage"}
      BY <1>2, <3>2 DEF StreamTypes
    <3>4. acc' = [FinishCall(acc) EXCEPT !["reasoning"] = FinishCall(acc).reasoning \o Whole(buffer.call)]
      BY <3>1 DEF AddWhole
    <3>5. QED
      BY <3>2, <3>3, <3>4
  <2>3. QED
    BY <2>1, <2>2
<1>5. ThoughtHeard' /\ acc'.reasoning \in Seq(Seq(Nat))
  BY <1>1, <1>4, WholeHeard
<1>6. StreamFollowed'
  <2>1. StreamTypes'
    BY <1>1, <1>2, <1>4, <1>5 DEF StreamTypes
  <2>2. SentInOrder'
    BY <1>1, <1>4 DEF StreamFollowed, SentInOrder, StopReasons
  <2>3. TextHeard'
    BY <1>1, <1>2, <1>4 DEF StreamFollowed, TextHeard, Late
  <2>5. CallsHeard'
    <3>1. InHand' <=> InHand
      BY <1>1 DEF InHand
    <3>2. Late("args")' = Late("args") /\ Late("open")' = Late("open")
      BY <1>1 DEF Late
    <3>3. QED
      BY <1>1, <1>4, <3>1, <3>2 DEF StreamFollowed, CallsHeard
  <2>6. QED
    BY <1>5, <2>1, <2>2, <2>3, <2>5 DEF StreamFollowed
<1>7. QED
  BY <1>6, LineKeeps

LEMMA IdleLineKeeps ==
  ASSUME StreamInv, LineEnds, buffer.type \in {"none", "error"}
  PROVE  StreamInv'
<1>1. /\ StreamFollowed /\ client \in Clients
      /\ acc' = Processed(acc, buffer) /\ buffer'.type = "none" /\ buffer' \in [type : EventTypes, call : Nat]
      /\ shown' = shown
      /\ UNCHANGED <<client, provided>>
  BY LineStarts
<1>2. acc' = acc
  BY <1>1 DEF Processed, StopReasons
<1>3. StreamFollowed'
  <2>1. StreamTypes'
    BY <1>1, <1>2 DEF StreamFollowed, StreamTypes
  <2>2. SentInOrder'
    BY <1>1, <1>2 DEF StreamFollowed, SentInOrder, StopReasons
  <2>3. TextHeard'
    BY <1>1, <1>2 DEF StreamFollowed, TextHeard, Late
  <2>4. ThoughtHeard'
    BY <1>1, <1>2, ThoughtKept DEF StreamFollowed, Late, WholeLate
  <2>5. CallsHeard'
    <3>1. InHand' <=> InHand
      BY <1>1 DEF InHand
    <3>2. Late("args")' = Late("args") /\ Late("open")' = Late("open")
      BY <1>1 DEF Late
    <3>3. QED
      BY <1>1, <1>2, <3>1, <3>2 DEF StreamFollowed, CallsHeard
  <2>6. QED
    BY <2>1, <2>2, <2>3, <2>4, <2>5 DEF StreamFollowed
<1>4. QED
  BY <1>3, LineKeeps

LEMMA FinalLineKeeps ==
  ASSUME StreamInv, LineEnds, buffer.type \in StopReasons
  PROVE  StreamInv'
<1>1. /\ StreamFollowed /\ client \in Clients
      /\ acc' = Processed(acc, buffer) /\ buffer'.type = "none" /\ buffer' \in [type : EventTypes, call : Nat]
      /\ shown' = shown
      /\ UNCHANGED <<client, provided>>
  BY LineStarts DEF StopReasons
<1>2. StreamTypes /\ ~acc.usage /\ provided.stop = buffer.type
  BY <1>1 DEF StreamFollowed, SentInOrder, StopReasons
<1>3. acc' = Final(acc, buffer)
  BY <1>1 DEF Processed, StopReasons
<1>4. /\ acc'.text = acc.text /\ acc'.calls = acc.calls /\ acc'.pending = acc.pending
      /\ DOMAIN acc' = DOMAIN acc
      /\ acc'.usage => buffer.type = "stop" \/ client # "responses"
      /\ \/ acc' = acc /\ buffer.type = "length"
         \/ acc'.reasoning = acc.reasoning \o Whole(buffer.call)
  <2>1. CASE client = "responses" /\ buffer.type = "length"
    BY <1>2, <1>3, <2>1 DEF Final
  <2>2. CASE ~ (client = "responses" /\ buffer.type = "length")
    <3>1. acc' = [AddWhole(acc, buffer.call) EXCEPT
                    !.usage = TRUE, !.stop = IF client = "anthropic" THEN buffer.type ELSE @]
      BY <1>3, <2>2 DEF Final
    <3>2. /\ DOMAIN AddWhole(acc, buffer.call) = DOMAIN acc
          /\ AddWhole(acc, buffer.call).text = acc.text /\ AddWhole(acc, buffer.call).calls = acc.calls
          /\ AddWhole(acc, buffer.call).pending = acc.pending
          /\ AddWhole(acc, buffer.call).reasoning = acc.reasoning \o Whole(buffer.call)
      BY <1>2 DEF AddWhole, StreamTypes
    <3>3. /\ acc'.text = acc.text /\ acc'.calls = acc.calls /\ acc'.pending = acc.pending
          /\ DOMAIN acc' = DOMAIN acc /\ acc'.reasoning = acc.reasoning \o Whole(buffer.call)
      <4>1. PICK w : w = AddWhole(acc, buffer.call)
        OBVIOUS
      <4>2. PICK stop : stop = IF client = "anthropic" THEN buffer.type ELSE w.stop
        OBVIOUS
      <4>3. acc' = [w EXCEPT !.usage = TRUE, !.stop = stop]
        BY <3>1, <4>1, <4>2
      <4>4. DOMAIN w = {"text", "reasoning", "calls", "pending", "stop", "usage"}
        BY <1>2, <3>2, <4>1 DEF StreamTypes
      <4>5. /\ acc'.text = w.text /\ acc'.calls = w.calls /\ acc'.pending = w.pending
            /\ DOMAIN acc' = DOMAIN w /\ acc'.reasoning = w.reasoning
        BY <4>3, <4>4
      <4>6. QED
        BY <3>2, <4>1, <4>5
    <3>4. QED
      BY <2>2, <3>3 DEF StopReasons
  <2>3. QED
    BY <2>1, <2>2
<1>5. ThoughtHeard' /\ acc'.reasoning \in Seq(Seq(Nat))
  <2>1. CASE buffer.type = "stop"
    BY <1>1, <1>4, <2>1, WholeHeard
  <2>2. CASE buffer.type = "length"
    <3>1. acc'.reasoning = acc.reasoning
      <4>1. buffer.call = 0
        BY <1>1, <2>2 DEF StreamFollowed, SentInOrder
      <4>2. Whole(0) = <<>> /\ acc.reasoning \o <<>> = acc.reasoning
        BY <1>2 DEF Whole, StreamTypes
      <4>3. QED
        BY <1>4, <4>1, <4>2
    <3>2. Late("reasoning") = 0 /\ Late("reasoning")' = 0 /\ WholeLate = 0 /\ WholeLate' = 0
      BY <1>1, <2>2 DEF Late, WholeLate
    <3>3. QED
      BY <1>1, <1>2, <3>1, <3>2, ThoughtKept DEF StreamFollowed, StreamTypes
  <2>3. QED
    BY <2>1, <2>2 DEF StopReasons
<1>6. StreamFollowed'
  <2>1. StreamTypes'
    BY <1>1, <1>2, <1>4, <1>5 DEF StreamTypes
  <2>2. SentInOrder'
    BY <1>1, <1>2, <1>4 DEF StreamFollowed, SentInOrder, StopReasons
  <2>3. TextHeard'
    BY <1>1, <1>2, <1>4 DEF StreamFollowed, TextHeard, Late, StopReasons
  <2>5. CallsHeard'
    <3>1. InHand' <=> InHand
      BY <1>1, <1>2 DEF InHand, StopReasons
    <3>2. Late("args")' = Late("args") /\ Late("open")' = Late("open")
      BY <1>1 DEF Late, StopReasons
    <3>3. QED
      BY <1>1, <1>4, <3>1, <3>2 DEF StreamFollowed, CallsHeard
  <2>6. QED
    BY <1>5, <2>1, <2>2, <2>3, <2>5 DEF StreamFollowed
<1>7. QED
  BY <1>6, LineKeeps

LEMMA OpenLineKeeps ==
  ASSUME StreamInv, LineEnds, buffer.type = "open"
  PROVE  StreamInv'
<1> DEFINE n == Len(provided.calls)
           fresh == [call |-> n, json |-> 0]
<1>1. /\ StreamFollowed /\ client \in Clients
      /\ acc' = Processed(acc, buffer) /\ buffer'.type = "none" /\ buffer' \in [type : EventTypes, call : Nat]
      /\ shown' = shown
      /\ UNCHANGED <<client, provided>>
  BY LineStarts
<1>2. /\ StreamTypes /\ buffer.call = n /\ n \in Nat /\ n > 0 /\ ~acc.usage
      /\ provided.open /\ provided.calls[n].sent = 0
  BY <1>1 DEF StreamFollowed, SentInOrder, StreamTypes
<1>3. /\ acc' = IF client = "responses" THEN [acc EXCEPT !.pending = <<fresh>>]
                ELSE [acc EXCEPT !.calls = Append(@, fresh)]
  BY <1>1, <1>2 DEF Processed, StartCall, StopReasons
<1>4. /\ acc'.text = acc.text /\ acc'.reasoning = acc.reasoning /\ acc'.usage = acc.usage /\ DOMAIN acc' = DOMAIN acc
      /\ client = "responses" => acc'.calls = acc.calls /\ acc'.pending = <<fresh>>
      /\ client # "responses" => acc'.calls = Append(acc.calls, fresh) /\ acc'.pending = acc.pending
  BY <1>2, <1>3 DEF StreamTypes
<1>5. /\ fresh \in CallState /\ acc.calls \in Seq(CallState) /\ acc.pending = <<>> /\ Len(acc.calls) = n - 1
      /\ \A i \in 1 .. n - 1 : acc.calls[i].call = i /\ acc.calls[i].json = provided.calls[i].sent - 0
  <2>1. ~InHand /\ Late("open") = 1 /\ Late("args") = 0
    BY DEF InHand, Late
  <2>2. fresh \in CallState /\ acc.calls \in Seq(CallState)
    BY <1>2 DEF CallState, StreamTypes
  <2>3. acc.pending = <<>> /\ Len(acc.calls) = n - 1
    BY <1>1, <2>1 DEF StreamFollowed, CallsHeard
  <2>4. \A i \in 1 .. n - 1 : acc.calls[i].call = i /\ acc.calls[i].json = provided.calls[i].sent - 0
    BY <1>1, <2>1, <2>3 DEF StreamFollowed, CallsHeard
  <2>5. QED
    BY <2>2, <2>3, <2>4
<1>6. fresh.call = n /\ fresh.json = 0
  OBVIOUS
<1> HIDE DEF fresh, n
<1>7. StreamFollowed'
  <2>1. StreamTypes'
    <3>1. acc'.calls \in Seq(CallState) /\ acc'.pending \in Seq(CallState)
      <4>1. Append(acc.calls, fresh) \in Seq(CallState) /\ <<fresh>> \in Seq(CallState)
        BY <1>5
      <4>2. CASE client = "responses"
        <5>1. acc'.calls = acc.calls /\ acc'.pending = <<fresh>>
          BY <1>4, <4>2
        <5>2. QED
          BY <1>5, <4>1, <5>1, Zenon
      <4>3. CASE client # "responses"
        <5>1. acc'.calls = Append(acc.calls, fresh) /\ acc'.pending = acc.pending
          BY <1>4, <4>3
        <5>2. acc.pending \in Seq(CallState)
          BY <1>2 DEF StreamTypes
        <5>3. QED
          BY <4>1, <5>1, <5>2, Zenon
      <4>4. QED
        BY <4>2, <4>3
    <3>2. QED
      BY <1>1, <1>2, <1>4, <3>1 DEF StreamTypes
  <2>2. SentInOrder'
    BY <1>1, <1>4 DEF StreamFollowed, SentInOrder, StopReasons
  <2>3. TextHeard'
    BY <1>1, <1>2, <1>4 DEF StreamFollowed, TextHeard, Late
  <2>4. ThoughtHeard'
    BY <1>1, <1>4, ThoughtKept DEF StreamFollowed, Late, WholeLate
  <2>5. CallsHeard'
    <3>1. InHand' <=> client = "responses"
      BY <1>1, <1>2 DEF InHand
    <3>2. Late("args")' = 0 /\ Late("open")' = 0
      BY <1>1 DEF Late
    <3>3. CASE client = "responses"
      <4>1. /\ acc'.pending = <<fresh>> /\ Len(acc'.pending) = 1
            /\ acc'.pending[1].call = n /\ acc'.pending[1].json = 0
        <5>1. acc'.pending = <<fresh>>
          BY <1>4, <3>3
        <5>2. Len(<<fresh>>) = 1 /\ <<fresh>>[1] = fresh
          OBVIOUS
        <5>3. QED
          BY <1>6, <5>1, <5>2, Zenon
      <4>2. acc'.calls = acc.calls /\ provided'.calls = provided.calls
        BY <1>1, <1>4, <3>3
      <4>3. /\ \A i \in 1 .. n - 1 : i # n
            /\ 0 - 0 = 0
        BY <1>2
      <4>4. QED
        BY <1>2, <1>5, <3>1, <3>2, <3>3, <4>1, <4>2, <4>3, SMTT(20) DEF CallsHeard, n
    <3>4. CASE client # "responses"
      <4>1. /\ Len(acc'.calls) = n /\ acc'.pending = <<>>
            /\ acc'.calls[n] = fresh /\ \A i \in 1 .. n - 1 : acc'.calls[i] = acc.calls[i]
        <5>1. acc'.calls = Append(acc.calls, fresh) /\ acc'.pending = <<>>
          BY <1>4, <1>5, <3>4
        <5>2. QED
          BY <1>2, <1>5, <5>1
      <4>2. \A i \in 1 .. n : acc'.calls[i].call = i /\ acc'.calls[i].json = provided.calls[i].sent - 0
        <5> SUFFICES ASSUME NEW i \in 1 .. n
                     PROVE  acc'.calls[i].call = i /\ acc'.calls[i].json = provided.calls[i].sent - 0
          OBVIOUS
        <5>1. CASE i = n
          BY <1>2, <1>6, <4>1, <5>1
        <5>2. CASE i # n
          <6>1. i \in 1 .. n - 1
            BY <1>2, <5>2
          <6>2. QED
            BY <1>5, <4>1, <6>1
        <5>3. QED
          BY <5>1, <5>2
      <4>3. QED
        BY <1>1, <1>2, <3>1, <3>2, <3>4, <4>1, <4>2 DEF CallsHeard, n
    <3>5. QED
      BY <3>3, <3>4
  <2>6. QED
    BY <2>1, <2>2, <2>3, <2>4, <2>5 DEF StreamFollowed
<1>8. QED
  BY <1>7, LineKeeps

\* A fragment more for some of a list of calls.
LEMMA FragmentAdded ==
  ASSUME NEW s \in Seq(CallState), NEW t, NEW Q,
         t = [i \in DOMAIN s |-> IF i \in Q THEN Longer(s[i]) ELSE s[i]]
  PROVE  /\ t \in Seq(CallState) /\ Len(t) = Len(s)
         /\ \A i \in 1 .. Len(s) : t[i].call = s[i].call /\ t[i].json = IF i \in Q THEN s[i].json + 1 ELSE s[i].json
<1>1. \A e \in CallState : Longer(e) \in CallState
  BY DEF CallState, Longer
<1>2. \A e \in CallState : Longer(e).call = e.call /\ Longer(e).json = e.json + 1
  BY DEF CallState, Longer
<1>3. \A i \in 1 .. Len(s) : s[i] \in CallState
  OBVIOUS
<1>4. DOMAIN s = 1 .. Len(s) /\ Len(s) \in Nat
  OBVIOUS
<1>5. \A i \in 1 .. Len(s) : t[i] = IF i \in Q THEN Longer(s[i]) ELSE s[i]
  BY <1>4
<1>6. \A i \in 1 .. Len(s) : t[i] \in CallState
  BY <1>1, <1>3, <1>5, Zenon
<1>7. t \in Seq(CallState) /\ Len(t) = Len(s)
  <2>1. t = [i \in 1 .. Len(s) |-> t[i]]
    BY <1>4
  <2>2. QED
    BY <1>4, <1>6, <2>1
<1>8. \A i \in 1 .. Len(s) : t[i].call = s[i].call /\ t[i].json = IF i \in Q THEN s[i].json + 1 ELSE s[i].json
  <2> SUFFICES ASSUME NEW i \in 1 .. Len(s)
               PROVE  t[i].call = s[i].call /\ t[i].json = IF i \in Q THEN s[i].json + 1 ELSE s[i].json
    OBVIOUS
  <2>1. CASE i \in Q
    BY <1>2, <1>3, <1>5, <2>1, Zenon
  <2>2. CASE i \notin Q
    <3>1. t[i] = s[i]
      BY <1>5, <2>2
    <3>2. QED
      BY <2>2, <3>1
  <2>3. QED
    BY <2>1, <2>2
<1>9. QED
  BY <1>7, <1>8

LEMMA ArgsLineKeeps ==
  ASSUME StreamInv, LineEnds, buffer.type = "args"
  PROVE  StreamInv'
<1> DEFINE n == Len(provided.calls)
           sent == provided.calls[n].sent
<1>1. /\ StreamFollowed /\ client \in Clients
      /\ acc' = Processed(acc, buffer) /\ buffer'.type = "none" /\ buffer' \in [type : EventTypes, call : Nat]
      /\ shown' = shown
      /\ UNCHANGED <<client, provided>>
  BY LineStarts
<1>2. /\ StreamTypes /\ buffer.call = n /\ n \in Nat /\ n > 0 /\ ~acc.usage
      /\ provided.open /\ sent > 0
  BY <1>1 DEF StreamFollowed, SentInOrder, StreamTypes
<1>3. sent \in Nat
  <2>1. n \in 1 .. n /\ provided.calls \in Seq(SentCall)
    BY <1>2 DEF StreamTypes
  <2>2. provided.calls[n] \in SentCall
    BY <2>1
  <2>3. QED
    BY <2>2 DEF SentCall
<1>4. acc' = AddArguments(acc, n)
  BY <1>1, <1>2 DEF Processed, StopReasons
<1> DEFINE All == DOMAIN acc.pending
           Mine == {i \in DOMAIN acc.calls : acc.calls[i].call = n}
<1>5. /\ acc'.text = acc.text /\ acc'.reasoning = acc.reasoning /\ acc'.usage = acc.usage /\ DOMAIN acc' = DOMAIN acc
      /\ client = "responses" =>
           /\ acc'.calls = acc.calls
           /\ acc'.pending = [i \in DOMAIN acc.pending |->
                IF i \in All THEN Longer(acc.pending[i]) ELSE acc.pending[i]]
      /\ client # "responses" =>
           /\ acc'.pending = acc.pending
           /\ acc'.calls = [i \in DOMAIN acc.calls |->
                IF i \in Mine THEN Longer(acc.calls[i]) ELSE acc.calls[i]]
  <2>1. CASE client = "responses"
    <3> DEFINE more == [i \in DOMAIN acc.pending |-> Longer(acc.pending[i])]
    <3>1. acc' = [acc EXCEPT !.pending = more]
      <4>1. acc' = [acc EXCEPT !.pending = [i \in DOMAIN @ |-> Longer(@[i])]]
        BY <1>4, <2>1 DEF AddArguments
      <4>2. QED
        BY <4>1, Zenon
    <3>2. more
            = [i \in DOMAIN acc.pending |->
                 IF i \in All THEN Longer(acc.pending[i]) ELSE acc.pending[i]]
      OBVIOUS
    <3> HIDE DEF All, more
    <3>3. /\ acc'.text = acc.text /\ acc'.reasoning = acc.reasoning /\ acc'.usage = acc.usage
          /\ DOMAIN acc' = DOMAIN acc /\ acc'.calls = acc.calls /\ acc'.pending = more
      BY <1>2, <3>1 DEF StreamTypes
    <3>4. QED
      BY <2>1, <3>2, <3>3
  <2>2. CASE client # "responses"
    <3> DEFINE more == [i \in DOMAIN acc.calls |->
                 IF acc.calls[i].call = n THEN Longer(acc.calls[i]) ELSE acc.calls[i]]
    <3>1. acc' = [acc EXCEPT !.calls = more]
      <4>1. acc' = [acc EXCEPT !.calls =
              [i \in DOMAIN @ |-> IF @[i].call = n THEN Longer(@[i]) ELSE @[i]]]
        BY <1>4, <2>2 DEF AddArguments
      <4>2. QED
        BY <4>1, Zenon
    <3>2. more
            = [i \in DOMAIN acc.calls |->
                 IF i \in Mine THEN Longer(acc.calls[i]) ELSE acc.calls[i]]
      OBVIOUS
    <3> HIDE DEF Mine, more
    <3>3. /\ acc'.text = acc.text /\ acc'.reasoning = acc.reasoning /\ acc'.usage = acc.usage
          /\ DOMAIN acc' = DOMAIN acc /\ acc'.pending = acc.pending /\ acc'.calls = more
      BY <1>2, <3>1 DEF StreamTypes
    <3>4. QED
      BY <2>2, <3>2, <3>3
  <2>3. QED
    BY <2>1, <2>2
<1>6. /\ acc.calls \in Seq(CallState) /\ acc.pending \in Seq(CallState)
      /\ \A i \in 1 .. Len(acc.calls) :
            acc.calls[i].call = i /\ acc.calls[i].json = provided.calls[i].sent - (IF i = n THEN 1 ELSE 0)
      /\ client = "responses" =>
            /\ Len(acc.calls) = n - 1 /\ Len(acc.pending) = 1
            /\ acc.pending[1].call = n /\ acc.pending[1].json = sent - 1
      /\ client # "responses" => Len(acc.calls) = n - 0 /\ acc.pending = <<>>
  <2>1. (InHand <=> client = "responses") /\ Late("open") = 0 /\ Late("args") = 1
    BY <1>2 DEF InHand, Late
  <2>2. acc.calls \in Seq(CallState) /\ acc.pending \in Seq(CallState)
    BY <1>2 DEF StreamTypes
  <2>3. QED
    BY <1>1, <2>1, <2>2 DEF StreamFollowed, CallsHeard
<1>7. /\ acc'.calls \in Seq(CallState) /\ acc'.pending \in Seq(CallState)
      /\ Len(acc'.calls) = Len(acc.calls)
      /\ \A i \in 1 .. Len(acc.calls) :
           /\ acc'.calls[i].call = acc.calls[i].call
           /\ client = "responses" \/ i # n => acc'.calls[i].json = acc.calls[i].json
           /\ client # "responses" /\ i = n => acc'.calls[i].json = acc.calls[i].json + 1
      /\ client # "responses" => acc'.pending = acc.pending
      /\ client = "responses" =>
           Len(acc'.pending) = 1 /\ acc'.pending[1].call = n /\ acc'.pending[1].json = acc.pending[1].json + 1
  <2>1. CASE client = "responses"
    <3>1. acc'.pending = [i \in DOMAIN acc.pending |->
                IF i \in All THEN Longer(acc.pending[i]) ELSE acc.pending[i]]
      BY <1>5, <2>1
    <3>2. /\ acc'.pending \in Seq(CallState) /\ Len(acc'.pending) = Len(acc.pending)
          /\ \A i \in 1 .. Len(acc.pending) :
                acc'.pending[i].call = acc.pending[i].call
                /\ acc'.pending[i].json = IF i \in All THEN acc.pending[i].json + 1 ELSE acc.pending[i].json
      BY <1>6, <3>1, FragmentAdded
    <3>3. 1 \in 1 .. Len(acc.pending) /\ 1 \in All
      BY <1>6, <2>1
    <3>4. acc'.calls = acc.calls
      BY <1>5, <2>1
    <3> HIDE DEF All
    <3>5. QED
      BY <1>6, <2>1, <3>2, <3>3, <3>4
  <2>2. CASE client # "responses"
    <3>1. /\ acc'.calls = [i \in DOMAIN acc.calls |->
                IF i \in Mine THEN Longer(acc.calls[i]) ELSE acc.calls[i]]
          /\ acc'.pending = acc.pending
      BY <1>5, <2>2
    <3> HIDE DEF Mine
    <3>2. /\ acc'.calls \in Seq(CallState) /\ Len(acc'.calls) = Len(acc.calls)
          /\ \A i \in 1 .. Len(acc.calls) :
                acc'.calls[i].call = acc.calls[i].call
                /\ acc'.calls[i].json = IF i \in Mine THEN acc.calls[i].json + 1 ELSE acc.calls[i].json
      <4>1. acc.calls \in Seq(CallState)
        BY <1>6
      <4>2. acc'.calls = [i \in DOMAIN acc.calls |-> IF i \in Mine THEN Longer(acc.calls[i]) ELSE acc.calls[i]]
        BY <3>1
      <4>3. QED
        BY <4>1, <4>2, FragmentAdded, SMTT(30)
    <3>3. \A i \in 1 .. Len(acc.calls) : i \in Mine <=> i = n
      BY <1>6 DEF Mine
    <3>4. \A i \in 1 .. Len(acc.calls) :
           /\ acc'.calls[i].call = acc.calls[i].call
           /\ i # n => acc'.calls[i].json = acc.calls[i].json
           /\ i = n => acc'.calls[i].json = acc.calls[i].json + 1
      BY <3>2, <3>3
    <3>5. acc'.pending = acc.pending /\ acc'.pending \in Seq(CallState)
      BY <1>6, <3>1
    <3>6. QED
      BY <2>2, <3>2, <3>4, <3>5
  <2>3. QED
    BY <2>1, <2>2
<1> HIDE DEF All, Mine
<1>8. StreamFollowed'
  <2>1. StreamTypes'
    BY <1>1, <1>2, <1>5, <1>7 DEF StreamTypes
  <2>2. SentInOrder'
    BY <1>1, <1>5 DEF StreamFollowed, SentInOrder, StopReasons
  <2>3. TextHeard'
    BY <1>1, <1>2, <1>5 DEF StreamFollowed, TextHeard, Late
  <2>4. ThoughtHeard'
    BY <1>1, <1>5, ThoughtKept DEF StreamFollowed, Late, WholeLate
  <2>5. CallsHeard'
    <3>1. (InHand' <=> client = "responses") /\ Late("open")' = 0 /\ Late("args")' = 0
      BY <1>1, <1>2 DEF InHand, Late
    <3>2. \A i \in 1 .. Len(acc'.calls) :
            acc'.calls[i].call = i /\ acc'.calls[i].json = provided.calls[i].sent - 0
      <4> SUFFICES ASSUME NEW i \in 1 .. Len(acc'.calls)
                   PROVE  acc'.calls[i].call = i /\ acc'.calls[i].json = provided.calls[i].sent - 0
        OBVIOUS
      <4>1. i \in 1 .. Len(acc.calls)
        BY <1>7
      <4>2. CASE i = n
        <5>1. client # "responses"
          BY <1>2, <1>6, <4>1, <4>2
        <5>2. acc'.calls[n].json = acc.calls[n].json + 1 /\ acc.calls[n].json = sent - 1 /\ acc'.calls[n].call = n
          BY <1>6, <1>7, <4>1, <4>2, <5>1
        <5>3. acc'.calls[n].json = sent - 0
          BY <1>3, <5>2
        <5>4. QED
          BY <4>2, <5>2, <5>3
      <4>3. CASE i # n
        BY <1>6, <1>7, <4>1, <4>3
      <4>4. QED
        BY <4>2, <4>3
    <3>3. client = "responses" => acc'.pending[1].json = sent - 0
      <4>1. client = "responses" => acc'.pending[1].json = acc.pending[1].json + 1 /\ acc.pending[1].json = sent - 1
        BY <1>6, <1>7, Zenon
      <4>2. (sent - 1) + 1 = sent - 0
        BY <1>3
      <4>3. QED
        BY <4>1, <4>2, Zenon
    <3>4. QED
      BY <1>1, <1>6, <1>7, <3>1, <3>2, <3>3 DEF CallsHeard
  <2>6. QED
    BY <2>1, <2>2, <2>3, <2>4, <2>5 DEF StreamFollowed
<1>9. QED
  BY <1>8, LineKeeps

\* The call in hand goes behind the others.
LEMMA PendingJoins ==
  ASSUME NEW s \in Seq(CallState), NEW t \in Seq(CallState), Len(t) = 1
  PROVE  /\ s \o t \in Seq(CallState) /\ Len(s \o t) = Len(s) + 1
         /\ \A i \in 1 .. Len(s) : (s \o t)[i] = s[i]
         /\ (s \o t)[Len(s) + 1] = t[1]
<1>1. /\ s \o t \in Seq(CallState) /\ Len(s \o t) = Len(s) + Len(t)
      /\ \A i \in 1 .. Len(s) + Len(t) : (s \o t)[i] = IF i <= Len(s) THEN s[i] ELSE t[i - Len(s)]
  BY ConcatProperties, Zenon
<1>2. Len(s) \in Nat /\ (Len(s) + 1) - Len(s) = 1 /\ ~ (Len(s) + 1 <= Len(s)) /\ Len(s) + 1 \in 1 .. Len(s) + 1
  OBVIOUS
<1>3. (s \o t)[Len(s) + 1] = t[1]
  BY <1>1, <1>2
<1>4. \A i \in 1 .. Len(s) : (s \o t)[i] = s[i]
  BY <1>1, <1>2
<1>5. QED
  BY <1>1, <1>3, <1>4

LEMMA CloseLineKeeps ==
  ASSUME StreamInv, LineEnds, buffer.type = "close"
  PROVE  StreamInv'
<1> DEFINE n == Len(provided.calls)
<1>1. /\ StreamFollowed /\ client \in Clients
      /\ acc' = Processed(acc, buffer) /\ buffer'.type = "none" /\ buffer' \in [type : EventTypes, call : Nat]
      /\ shown' = shown
      /\ UNCHANGED <<client, provided>>
  BY LineStarts
<1>2. /\ StreamTypes /\ n \in Nat /\ n > 0 /\ ~acc.usage /\ ~provided.open
  BY <1>1 DEF StreamFollowed, SentInOrder, StreamTypes
<1>3. acc' = FinishCall(acc)
  BY <1>1, <1>2 DEF Processed, StopReasons
<1>4. /\ acc'.text = acc.text /\ acc'.reasoning = acc.reasoning /\ acc'.usage = acc.usage /\ DOMAIN acc' = DOMAIN acc
      /\ client = "responses" => acc'.calls = acc.calls \o acc.pending /\ acc'.pending = <<>>
      /\ client # "responses" => acc'.calls = acc.calls /\ acc'.pending = acc.pending
  BY <1>2, <1>3 DEF FinishCall, StreamTypes
<1>5. /\ acc.calls \in Seq(CallState) /\ acc.pending \in Seq(CallState)
      /\ \A i \in 1 .. Len(acc.calls) : acc.calls[i].call = i /\ acc.calls[i].json = provided.calls[i].sent - 0
      /\ client = "responses" =>
            /\ Len(acc.calls) = n - 1 /\ Len(acc.pending) = 1
            /\ acc.pending[1].call = n /\ acc.pending[1].json = provided.calls[n].sent - 0
      /\ client # "responses" => Len(acc.calls) = n - 0 /\ acc.pending = <<>>
  <2>1. (InHand <=> client = "responses") /\ Late("open") = 0 /\ Late("args") = 0
    BY DEF InHand, Late
  <2>2. acc.calls \in Seq(CallState) /\ acc.pending \in Seq(CallState)
    BY <1>2 DEF StreamTypes
  <2>3. QED
    BY <1>1, <2>1, <2>2 DEF StreamFollowed, CallsHeard
<1>6. /\ acc'.calls \in Seq(CallState) /\ acc'.pending = <<>> /\ Len(acc'.calls) = n
      /\ \A i \in 1 .. n : acc'.calls[i].call = i /\ acc'.calls[i].json = provided.calls[i].sent - 0
  <2>1. CASE client = "responses"
    <3>1. acc'.calls = acc.calls \o acc.pending /\ acc'.pending = <<>>
      BY <1>4, <2>1
    <3>2. /\ acc'.calls \in Seq(CallState) /\ Len(acc'.calls) = n
          /\ \A i \in 1 .. n - 1 : acc'.calls[i] = acc.calls[i]
          /\ acc'.calls[n] = acc.pending[1]
      <4>2. /\ acc'.calls \in Seq(CallState) /\ Len(acc'.calls) = Len(acc.calls) + 1
            /\ \A i \in 1 .. Len(acc.calls) : acc'.calls[i] = acc.calls[i]
            /\ acc'.calls[Len(acc.calls) + 1] = acc.pending[1]
        <5>1. /\ acc.calls \o acc.pending \in Seq(CallState)
              /\ Len(acc.calls \o acc.pending) = Len(acc.calls) + 1
              /\ \A i \in 1 .. Len(acc.calls) : (acc.calls \o acc.pending)[i] = acc.calls[i]
              /\ (acc.calls \o acc.pending)[Len(acc.calls) + 1] = acc.pending[1]
          BY <1>5, <2>1, PendingJoins
        <5>2. QED
          BY <3>1, <5>1, Zenon
      <4>3. Len(acc.calls) = n - 1 /\ (n - 1) + 1 = n
        BY <1>2, <1>5, <2>1
      <4>4. QED
        BY <4>2, <4>3
    <3>3. \A i \in 1 .. n : i = n \/ i \in 1 .. n - 1
      BY <1>2
    <3>4. QED
      BY <1>5, <2>1, <3>1, <3>2, <3>3
  <2>2. CASE client # "responses"
    BY <1>2, <1>4, <1>5, <2>2
  <2>3. QED
    BY <2>1, <2>2
<1>7. StreamFollowed'
  <2>1. StreamTypes'
    BY <1>1, <1>2, <1>4, <1>6 DEF StreamTypes
  <2>2. SentInOrder'
    BY <1>1, <1>4 DEF StreamFollowed, SentInOrder, StopReasons
  <2>3. TextHeard'
    BY <1>1, <1>2, <1>4 DEF StreamFollowed, TextHeard, Late
  <2>4. ThoughtHeard'
    BY <1>1, <1>4, ThoughtKept DEF StreamFollowed, Late, WholeLate
  <2>5. CallsHeard'
    <3>1. ~InHand' /\ Late("open")' = 0 /\ Late("args")' = 0
      BY <1>1, <1>2 DEF InHand, Late
    <3>2. n - 0 = n
      BY <1>2
    <3>3. QED
      BY <1>1, <1>6, <3>1, <3>2 DEF CallsHeard
  <2>6. QED
    BY <2>1, <2>2, <2>3, <2>4, <2>5 DEF StreamFollowed
<1>8. QED
  BY <1>7, LineKeeps

\* What is settled stays as it is.
LEMMA SettledKeeps ==
  ASSUME StreamInv, UNCHANGED streamVars
  PROVE  StreamInv'
<1>1. UNCHANGED <<client, streamed, provided, buffer, acc, shown, reader, reply>>
  BY DEF streamVars
<1>2. StreamHeard'
  BY <1>1 DEF StreamInv, StreamHeard, StreamTypeOK, HeardIsWhole, CutCallsMarked, ShownIsAnswer, ReasoningTold,
     Replied, Current
<1>3. StreamFollowed => StreamFollowed'
  <2>1. StreamTypes => StreamTypes'
    BY <1>1 DEF StreamTypes
  <2>2. SentInOrder => SentInOrder'
    BY <1>1 DEF SentInOrder
  <2>3. TextHeard => TextHeard'
    BY <1>1 DEF TextHeard, Late
  <2>4. ThoughtHeard => ThoughtHeard'
    BY <1>1 DEF ThoughtHeard, HeardOf, Tellings, WholeLate, Late
  <2>5. CallsHeard => CallsHeard'
    BY <1>1 DEF CallsHeard, Late, InHand
  <2>6. QED
    BY <2>1, <2>2, <2>3, <2>4, <2>5, Zenon DEF StreamFollowed
<1>4. QED
  BY <1>1, <1>2, <1>3 DEF StreamInv, StreamInit

LEMMA StartKeeps ==
  ASSUME StreamInv, NEW c \in Clients, StartStream(c)
  PROVE  StreamInv'
<1>1. StreamInit
  BY DEF StreamInv, StartStream
<1>2. /\ provided' = NothingProvided /\ buffer' = NoEvent /\ acc' = EmptyState /\ shown' = 0
      /\ client' = c /\ streamed' = TRUE /\ c # "blank"
      /\ \/ reader' = "locked" /\ reply' = NoReply
         \/ reader' = "none" /\ reply' = Thrown
  BY <1>1 DEF StreamInit, StartStream, Clients
<1>3. StreamFollowed'
  <2>1. Unsent'
    BY <1>2 DEF Unsent, NothingProvided, NoEvent, EmptyState
  <2>2. QED
    BY <2>1, StartFollowed, PTL
<1>4. StreamTypeOK'
  <2>1. streamed' \in BOOLEAN
    BY <1>2, Zenon
  <2>2. QED
    BY <1>2, <2>1 DEF StreamTypeOK, NothingProvided, EmptyState, NoReply, Thrown
<1>5. StreamHeard'
  BY <1>2, <1>4 DEF NoReply, Thrown, StreamHeard, HeardIsWhole, CutCallsMarked, ShownIsAnswer, ReasoningTold, Replied
<1>6. QED
  BY <1>2, <1>3, <1>5 DEF StreamInv

LEMMA SeqOfTyped ==
  ASSUME NEW S, NEW n \in Nat, NEW s \in SeqOf(S, n)
  PROVE  \A i \in 1 .. Len(s) : s[i] \in S
BY DEF SeqOf

LEMMA WholeKeeps ==
  ASSUME StreamInv, NEW c \in Clients, CompleteWhole(c)
  PROVE  StreamInv'
<1>1. StreamInit
  BY DEF StreamInv, CompleteWhole
<1>2. /\ buffer' = NoEvent /\ acc' = EmptyState /\ shown' = 0 /\ reader' = "none"
      /\ client' = c /\ streamed' = FALSE /\ c # "blank"
  BY <1>1 DEF StreamInit, CompleteWhole, Clients
<1>3. streamed' \in BOOLEAN
  BY <1>2, Zenon
<1>4. CASE reply' = Thrown /\ provided' = provided
  <2>1. StreamTypeOK'
    BY <1>1, <1>2, <1>3, <1>4 DEF StreamInit, StreamTypeOK, NothingProvided, EmptyState, Thrown
  <2>2. StreamHeard'
    BY <1>4, <2>1 DEF Thrown, StreamHeard, HeardIsWhole, CutCallsMarked, ShownIsAnswer, ReasoningTold, Replied
  <2>3. QED
    BY <1>2, <2>2 DEF StreamInv
<1>5. ASSUME NEW text \in 0 .. MaxText, NEW args \in SeqOf(0 .. MaxFragments, MaxCalls), NEW stop \in StopReasons,
             provided' = [NothingProvided EXCEPT !.text = text, !.stop = stop,
               !.calls = [i \in 1 .. Len(args) |-> [sent |-> args[i], total |-> args[i]]]],
             reply' = [kind |-> "response", text |-> text, reasoning |-> <<>>, usage |-> TRUE,
                       calls |-> [i \in 1 .. Len(args) |-> [call |-> i, input |->
                         IF c = "anthropic" THEN "parsed" ELSE Input(args[i], args[i])]],
                       stop |-> IF c = "responses" THEN "none" ELSE stop]
      PROVE  StreamInv'
  <2>1. /\ provided'.text = text /\ provided'.stop = stop /\ ~provided'.open
        /\ DOMAIN provided'.calls = 1 .. Len(args) /\ \A i \in 1 .. Len(args) : provided'.calls[i].sent = args[i] /\ provided'.calls[i].total = args[i]
    BY <1>5 DEF NothingProvided
  <2>2. /\ reply'.kind = "response" /\ reply'.text = text /\ reply'.reasoning = <<>>
        /\ DOMAIN reply'.calls = 1 .. Len(args)
        /\ \A i \in 1 .. Len(args) :
              /\ reply'.calls[i].call = i
              /\ args[i] > 0 => reply'.calls[i].input = "parsed"
    BY <1>5 DEF Input
  <2>3. StreamTypeOK'
    BY <1>2, <1>3, <2>1, <2>2 DEF StreamTypeOK, EmptyState
  <2>4. HeardIsWhole'
    BY <2>1, <2>2 DEF HeardIsWhole
  <2>5. CutCallsMarked'
    <3>1. \A i \in 1 .. Len(args) : args[i] \in Nat
      BY <1>5, StreamAssumption, SeqOfTyped
    <3>2. \A i \in 1 .. Len(args) : ~ (args[i] < args[i])
      BY <3>1
    <3>3. QED
      BY <2>1, <2>2, <3>2 DEF CutCallsMarked
  <2>6. QED
    BY <1>2, <2>1, <2>2, <2>3, <2>4, <2>5 DEF StreamInv, StreamHeard, ShownIsAnswer, ReasoningTold
<1>6. QED
  BY <1>4, <1>5 DEF CompleteWhole

LEMMA GivenUpKeeps ==
  ASSUME StreamInv, StreamBreaks \/ ErrorEvent
  PROVE  StreamInv'
<1>1. /\ reader = "locked" /\ reader' = "released" /\ reply' = Thrown
      /\ UNCHANGED <<client, streamed, provided, acc, shown>>
  BY DEF StreamBreaks, ErrorEvent, Release
<1>2. StreamTypeOK /\ client # "blank"
  BY <1>1 DEF StreamInv, StreamHeard
<1>3. StreamTypeOK'
  BY <1>1, <1>2 DEF StreamTypeOK, Thrown
<1>4. StreamHeard'
  BY <1>1, <1>3 DEF Thrown, StreamHeard, HeardIsWhole, CutCallsMarked, ShownIsAnswer, ReasoningTold, Replied
<1>5. QED
  BY <1>1, <1>2, <1>4 DEF StreamInv

\* What a client makes of an answer that ends, wherever it ends.
LEMMA EndKeeps ==
  ASSUME StreamInv, StreamEnds
  PROVE  StreamInv'
<1> DEFINE n == Len(provided.calls)
<1>1. /\ reader = "locked" /\ reader' = "released" /\ reply' = ResponseOf(acc)
      /\ UNCHANGED <<client, streamed, provided, acc, shown, buffer>>
  BY DEF StreamEnds, Release
<1>2. StreamTypeOK /\ client # "blank" /\ StreamFollowed
  BY <1>1 DEF StreamInv, StreamHeard
<1>3. StreamTypes /\ SentInOrder /\ TextHeard /\ ThoughtHeard /\ CallsHeard /\ n \in Nat
  BY <1>2 DEF StreamFollowed, StreamTypes
<1>4. /\ reply'.kind = "response" /\ reply'.text = acc.text /\ reply'.usage = acc.usage
      /\ reply'.calls = AnswerCalls(acc.calls) /\ reply'.reasoning = Returned(acc.calls, acc.reasoning)
  BY <1>1 DEF ResponseOf
<1>5. /\ DOMAIN reply'.calls = 1 .. Len(acc.calls)
      /\ \A i \in 1 .. Len(acc.calls) :
            /\ reply'.calls[i].call = i
            /\ reply'.calls[i].input = Input(acc.calls[i].json, provided.calls[i].total)
  <2>1. \A i \in 1 .. Len(acc.calls) : acc.calls[i].call = i
    BY <1>3, Zenon DEF CallsHeard
  <2>2. reply'.calls = [i \in 1 .. Len(acc.calls) |-> [call |-> acc.calls[i].call,
                          input |-> Input(acc.calls[i].json, provided.calls[acc.calls[i].call].total)]]
    BY <1>4, Zenon DEF AnswerCalls
  <2>3. DOMAIN reply'.calls = 1 .. Len(acc.calls)
    BY <2>2, Zenon
  <2>4. ASSUME NEW i \in 1 .. Len(acc.calls)
        PROVE  /\ reply'.calls[i].call = i
               /\ reply'.calls[i].input = Input(acc.calls[i].json, provided.calls[i].total)
    <3>1. reply'.calls[i] = [call |-> i, input |-> Input(acc.calls[i].json, provided.calls[i].total)]
      BY <2>1, <2>2, Zenon
    <3>2. QED
      BY <3>1
  <2>5. QED
    BY <2>3, <2>4
<1>6. StreamTypeOK'
  BY <1>1, <1>2, <1>4 DEF StreamTypeOK
<1>7. \A i \in 1 .. Len(acc.calls) :
        /\ i \in 1 .. n /\ provided.calls[i].sent \in Nat /\ provided.calls[i].total \in Nat
        /\ acc.calls[i].json = provided.calls[i].sent - (IF i = n THEN Late("args") ELSE 0)
  <2> SUFFICES ASSUME NEW i \in 1 .. Len(acc.calls)
               PROVE  /\ i \in 1 .. n /\ provided.calls[i].sent \in Nat /\ provided.calls[i].total \in Nat
                      /\ acc.calls[i].json = provided.calls[i].sent - (IF i = n THEN Late("args") ELSE 0)
    OBVIOUS
  <2>1. Len(acc.calls) <= n /\ Len(acc.calls) \in Nat
    BY <1>3 DEF CallsHeard, StreamTypes, Late
  <2>2. i \in 1 .. n
    BY <1>3, <2>1
  <2>3. provided.calls[i] \in SentCall
    BY <1>3, <2>2 DEF StreamTypes
  <2>4. QED
    BY <1>3, <2>2, <2>3 DEF CallsHeard, SentCall
<1>8. HeardIsWhole'
  <2> SUFFICES ASSUME acc.usage
               PROVE  /\ reply'.text = provided.text
                      /\ DOMAIN reply'.calls = DOMAIN provided.calls
                      /\ \A i \in DOMAIN reply'.calls :
                            /\ reply'.calls[i].call = i
                            /\ provided.calls[i].sent = provided.calls[i].total /\ provided.calls[i].total > 0
                                 => reply'.calls[i].input = "parsed"
    BY <1>1, <1>4 DEF HeardIsWhole
  <2>1. buffer.type = "none" /\ (client = "responses" => ~provided.open)
    BY <1>3 DEF SentInOrder
  <2>2. ~InHand /\ Late("open") = 0 /\ Late("args") = 0 /\ Late("text") = 0
    BY <2>1 DEF InHand, Late
  <2>3. Len(acc.calls) = n /\ \A i \in 1 .. n : acc.calls[i].json = provided.calls[i].sent
    <3>1. Len(acc.calls) = n
      BY <1>3, <2>2 DEF CallsHeard
    <3>2. \A i \in 1 .. n : acc.calls[i].json = provided.calls[i].sent
      BY <1>7, <2>2, <3>1
    <3>3. QED
      BY <3>1, <3>2
  <2>5. reply'.text = provided.text
    BY <1>3, <1>4, <2>2 DEF TextHeard, StreamTypes
  <2>6. DOMAIN provided.calls = 1 .. n
    BY <1>3 DEF StreamTypes
  <2>7. QED
    BY <1>5, <2>3, <2>5, <2>6 DEF Input
<1>12. CutCallsMarked'
  <2> SUFFICES ASSUME NEW i \in 1 .. Len(acc.calls)
               PROVE  /\ provided.calls[i].sent < provided.calls[i].total => reply'.calls[i].input = "raw"
                      /\ provided.open /\ client = "responses" => i # n
    BY <1>1, <1>3, <1>5 DEF CutCallsMarked, Current
  <2>1. ASSUME provided.open, client = "responses"
        PROVE  i # n
    <3>1. CASE buffer.type = "open"
      <4>1. ~InHand /\ Late("open") = 1
        BY <3>1 DEF InHand, Late
      <4>2. Len(acc.calls) = n - 1
        BY <1>3, <4>1 DEF CallsHeard
      <4>3. QED
        BY <1>3, <4>2
    <3>2. CASE buffer.type # "open"
      <4>1. InHand
        BY <2>1, <3>2 DEF InHand
      <4>2. Len(acc.calls) = n - 1
        BY <1>3, <4>1 DEF CallsHeard
      <4>3. QED
        BY <1>3, <4>2
    <3>3. QED
      BY <3>1, <3>2
  <2>2. ASSUME provided.calls[i].sent < provided.calls[i].total
        PROVE  reply'.calls[i].input = "raw"
    <3>1. Late("args") \in {0, 1}
      BY DEF Late
    <3>2. acc.calls[i].json # provided.calls[i].total
      BY <1>7, <2>2, <3>1
    <3>3. QED
      BY <1>5, <3>2 DEF Input
  <2>3. QED
    BY <2>1, <2>2
<1>9. ShownIsAnswer'
  BY <1>1, <1>3, <1>4 DEF TextHeard, ShownIsAnswer
<1>10. ReasoningTold'
  <2> DEFINE N == provided.reasoning
  <2> SUFFICES ASSUME reply'.reasoning # <<>>
               PROVE  \E x \in 1 .. N :
                        \/ reply'.reasoning = Counted(x)
                        \/ /\ client = "responses" /\ provided.told = 3
                           /\ reply'.reasoning = Counted(x) \o Counted(x) \o Counted(x)
    BY <1>1 DEF ReasoningTold
  <2>1. PICK m \in Nat, k \in Nat : HeardOf(m, k)
    BY <1>3 DEF ThoughtHeard
  <2>2. Late("reasoning") \in {0, 1} /\ WholeLate \in {0, 1} /\ N \in Nat /\ provided.told \in Nat
    BY <1>3 DEF Late, WholeLate, StreamTypes
  <2>3. Tellings <= 3 /\ Tellings \in Nat
    BY DEF Tellings
  <2>4. /\ acc.reasoning = Tale(m, k, N) /\ provided.told <= 3
        /\ m > 0 => m <= N /\ provided.told = (k + WholeLate) + 1 /\ (k > 0 => m = N)
        /\ m = 0 => provided.told >= k
        /\ k > 0 => client = "responses" /\ N > 0
    <3>1. m > 0 => m + Late("reasoning") > 0 /\ (k > 0 => k + WholeLate > 0)
      BY <2>2
    <3>2. k > 0 => k + WholeLate > 0 /\ provided.told # 0
      BY <2>1, <2>2 DEF HeardOf
    <3>3. PICK l : l = Late("reasoning")
      OBVIOUS
    <3>4. PICK w : w = WholeLate
      OBVIOUS
    <3>5. PICK u : u = Tellings
      OBVIOUS
    <3>6. /\ acc.reasoning = Tale(m, k, N) /\ provided.told <= u
          /\ m + l > 0 => N = m + l /\ provided.told = (k + w) + 1 /\ (k + w > 0 => l = 0)
          /\ m + l = 0 => provided.told = k + w
          /\ (provided.reasoning = 0 <=> provided.told = 0) /\ (k + w > 0 => client = "responses")
      BY <2>1, <3>3, <3>4, <3>5, Zenon DEF HeardOf
    <3>7. l \in {0, 1} /\ w \in {0, 1} /\ u <= 3 /\ u \in Nat
      BY <2>2, <2>3, <3>3, <3>4, <3>5, Zenon
    <3>8. QED
      BY <2>2, <3>1, <3>2, <3>3, <3>4, <3>6, <3>7
  <2>5. reply'.reasoning = JoinUnique(Tale(m, k, N))
    BY <1>4, <2>4 DEF Returned
  <2> HIDE DEF N
  <2>6. /\ k <= 3 /\ (m > 0 => k <= 2) /\ (k = 3 \/ (m > 0 /\ k = 2) => provided.told = 3)
    BY <2>2, <2>4
  <2>7. \/ m > 0 /\ reply'.reasoning = Counted(m)
        \/ k > 0 /\ reply'.reasoning = Counted(N)
        \/ /\ k = 3 \/ (m > 0 /\ k = 2)
           /\ reply'.reasoning = Counted(N) \o Counted(N) \o Counted(N)
    BY <2>2, <2>4, <2>5, <2>6, ReasoningJoined
  <2>8. (m > 0 => m \in 1 .. N) /\ (k > 0 => N \in 1 .. N)
    BY <2>2, <2>4
  <2>9. k = 3 \/ (m > 0 /\ k = 2) => N \in 1 .. N /\ client = "responses" /\ provided.told = 3
    BY <2>4, <2>6, <2>8
  <2>10. QED
    BY <2>7, <2>8, <2>9
<1>11. QED
  BY <1>1, <1>2, <1>6, <1>8, <1>12, <1>9, <1>10 DEF StreamInv, StreamHeard

LEMMA StreamStepHolds == StreamInv /\ [StreamNext]_streamVars => StreamInv'
<1> SUFFICES ASSUME StreamInv, [StreamNext]_streamVars PROVE StreamInv'
  OBVIOUS
<1>1. ASSUME NEW c \in Clients, StartStream(c) \/ CompleteWhole(c)
      PROVE  StreamInv'
  BY <1>1, StartKeeps, WholeKeeps
<1>2. CASE Provider
  BY <1>2, SendTextKeeps, SendReasoningKeeps, SendItemKeeps, SendOpenKeeps, SendArgumentsKeeps, SendCloseKeeps,
     SendStopKeeps, SendLengthKeeps, SendErrorKeeps DEF Provider, SendFinal
<1>3. CASE LineEnds
  <2>1. buffer.type \in EventTypes
    <3>1. StreamTypes
      BY <1>3, LineStarts DEF StreamFollowed
    <3>2. QED
      BY <3>1 DEF StreamTypes
  <2>2. QED
    BY <1>3, <2>1, TextLineKeeps, ReasoningLineKeeps, IdleLineKeeps, ItemLineKeeps, FinalLineKeeps, OpenLineKeeps,
       ArgsLineKeeps, CloseLineKeeps DEF EventTypes, StopReasons
<1>4. QED
  BY <1>1, <1>2, <1>3, EndKeeps, GivenUpKeeps, SettledKeeps DEF StreamNext, Reading

\* Whatever a provider sends and wherever its stream is cut, broken or ended, the
\* clients of src/models hear what was sent, and of a call that is cut never half
\* its arguments as all of them.
THEOREM StreamIsHeard == StreamSpec => []StreamHeard
<1>1. StreamInv => StreamHeard
  BY DEF StreamInv
<1>2. QED
  BY <1>1, StreamInitHolds, StreamStepHolds, PTL DEF StreamSpec

----------------------------------------
(* Positions of a session.                                                 *)

\* A set of positions is finite, and so are its parts.
LEMMA PositionsFinite ==
  ASSUME NEW n \in Nat, NEW S \in SUBSET (1 .. n)
  PROVE  IsFiniteSet(S) /\ Cardinality(S) \in Nat /\ Cardinality(S) <= n
<1>1. IsFiniteSet(1 .. n) /\ Cardinality(1 .. n) = n
  BY FS_Interval
<1>2. IsFiniteSet(S) /\ Cardinality(S) <= Cardinality(1 .. n)
  BY <1>1, FS_Subset
<1>3. QED
  BY <1>1, <1>2, FS_CardinalityType

\* Newest finds the newest of some positions.
LEMMA NewestIsGreatest ==
  ASSUME NEW n \in Nat, NEW S \in SUBSET (1 .. n), S # {}
  PROVE  Newest(S) \in S /\ \A j \in S : j <= Newest(S)
BY GreatestExists DEF Newest

\* What is left of a set of positions from one of them on shrinks as that
\* position grows.
LEMMA RestShrinks ==
  ASSUME NEW n \in Nat, NEW S \in SUBSET (1 .. n), NEW i \in S, NEW k \in S, i < k
  PROVE  Cardinality({j \in S : j >= k}) < Cardinality({j \in S : j >= i})
<1> DEFINE A == {j \in S : j >= i}
           B == {j \in S : j >= k}
<1>0. \A x \in S : x \in 1 .. n /\ x \in Nat
  OBVIOUS
<1>1. A \in SUBSET (1 .. n) /\ B \in SUBSET A /\ i \in A /\ i \notin B
  <2>1. A \in SUBSET (1 .. n)
    BY Zenon
  <2>4. i \in A /\ i \notin B
    <3>1. i >= i /\ ~ (i >= k)
      BY <1>0
    <3>2. QED
      BY <3>1
  <2>2. \A j \in S : j >= k => j >= i
    BY <1>0
  <2>3. QED
    BY <2>1, <2>2, <2>4, Zenon
<1> HIDE DEF A, B
<1>2. IsFiniteSet(A)
  BY <1>1, PositionsFinite
<1>3. Cardinality(B) <= Cardinality(A) /\ Cardinality(B) # Cardinality(A)
  BY <1>1, <1>2, FS_Subset
<1>4. Cardinality(A) \in Nat /\ Cardinality(B) \in Nat
  BY <1>1, <1>2, FS_Subset, FS_CardinalityType
<1>5. Cardinality(B) < Cardinality(A)
  BY <1>3, <1>4
<1>6. QED
  BY <1>5 DEF A, B

\* Counting from the last one finds each of some positions.
LEMMA FromLastExists ==
  ASSUME NEW n \in Nat, NEW S \in SUBSET (1 .. n), NEW k \in 1 .. Cardinality(S)
  PROVE  FromLast(S, k) \in S /\ Cardinality({j \in S : j >= FromLast(S, k)}) = k
<1> DEFINE Rest(i) == {j \in S : j >= i}
           Found(m) == \E i \in S : Cardinality(Rest(i)) = m
           Missed == {m \in 1 .. Cardinality(S) : ~Found(m)}
<1>0. \A x \in S : x \in 1 .. n /\ x \in Nat
  OBVIOUS
<1>1. Cardinality(S) \in Nat /\ IsFiniteSet(S)
  BY PositionsFinite
<1>2. Missed = {}
  <2> SUFFICES ASSUME Missed # {} PROVE FALSE
    OBVIOUS
  <2>1. PICK m \in Missed : \A x \in Missed : m <= x
    <3>1. Missed \in SUBSET Nat
      BY <1>1
    <3> HIDE DEF Missed
    <3>2. QED
      BY <3>1, LeastExists
  <2>2. m \in 1 .. Cardinality(S) /\ ~Found(m)
    BY <2>1
  <2>3. CASE m = 1
    <3>1. S # {}
      BY <1>1, <2>2, FS_EmptySet
    <3>2. PICK i \in S : \A j \in S : j <= i
      BY <3>1, GreatestExists
    <3>3. Rest(i) = {i}
      <4>1. \A j \in S : j >= i <=> j = i
        BY <1>0, <3>2
      <4>2. QED
        BY <4>1, Zenon
    <3>4. Cardinality(Rest(i)) = 1
      BY <3>3, FS_Singleton
    <3>5. QED
      BY <2>2, <2>3, <3>4
  <2>4. CASE m # 1
    <3>1. m - 1 \in 1 .. Cardinality(S)
      BY <1>1, <2>2, <2>4
    <3>2. m - 1 \notin Missed
      <4> HIDE DEF Missed
      <4>1. ~ (m <= m - 1)
        BY <1>1, <2>2
      <4>2. QED
        BY <2>1, <4>1
    <3>3. PICK i \in S : Cardinality(Rest(i)) = m - 1
      BY <3>1, <3>2
    <3> DEFINE Smaller == {j \in S : j < i}
    <3>4. Smaller # {}
      <4> SUFFICES ASSUME Smaller = {} PROVE FALSE
        OBVIOUS
      <4>1. \A j \in S : j >= i
        BY <1>0
      <4>2. Rest(i) = S
        BY <4>1, Zenon
      <4> HIDE DEF Rest
      <4>3. QED
        BY <1>1, <2>2, <3>3, <4>2
    <3>5. Smaller \in SUBSET (1 .. n)
      OBVIOUS
    <3>6. PICK b \in Smaller : \A j \in Smaller : j <= b
      <4> HIDE DEF Smaller
      <4>1. QED
        BY <3>4, <3>5, GreatestExists
    <3>7. b \in S /\ b \notin Rest(i) /\ Rest(b) = Rest(i) \cup {b}
      <4>1. b \in S /\ b < i /\ \A j \in S : j < i => j <= b
        BY <3>6
      <4>2. b \notin Rest(i)
        BY <1>0, <4>1
      <4>3. \A j \in S : j >= b <=> (j >= i \/ j = b)
        BY <1>0, <4>1
      <4>4. QED
        BY <4>1, <4>2, <4>3, Zenon
    <3>8. IsFiniteSet(Rest(i))
      BY <1>1, FS_Subset
    <3> HIDE DEF Rest
    <3>9. Cardinality(Rest(i) \cup {b}) = Cardinality(Rest(i)) + 1
      BY <3>7, <3>8, FS_AddElement
    <3>10. Cardinality(Rest(b)) = m
      BY <1>1, <2>2, <3>3, <3>7, <3>9
    <3>11. QED
      BY <2>2, <3>7, <3>10
  <2>5. QED
    BY <2>3, <2>4
<1>3. Found(k)
  BY <1>2
<1>4. QED
  BY <1>3 DEF FromLast

\* ... and only that one.
LEMMA FromLastUnique ==
  ASSUME NEW n \in Nat, NEW S \in SUBSET (1 .. n), NEW i \in S
  PROVE  /\ Cardinality({j \in S : j >= i}) \in 1 .. Cardinality(S)
         /\ FromLast(S, Cardinality({j \in S : j >= i})) = i
<1> DEFINE R == {j \in S : j >= i}
           k == Cardinality(R)
           f == FromLast(S, k)
<1>1. R \in SUBSET S /\ i \in R
  OBVIOUS
<1>2. IsFiniteSet(S) /\ Cardinality(S) \in Nat
  BY PositionsFinite
<1>3. k \in 1 .. Cardinality(S)
  <2> HIDE DEF R
  <2>1. k \in Nat /\ k <= Cardinality(S) /\ IsFiniteSet(R)
    BY <1>1, <1>2, FS_Subset, FS_CardinalityType
  <2>2. k # 0
    BY <1>1, <2>1, FS_EmptySet
  <2>3. QED
    BY <1>2, <2>1, <2>2
<1>4. f \in S /\ Cardinality({j \in S : j >= f}) = k
  <2> HIDE DEF k
  <2>1. QED
    BY <1>3, FromLastExists
<1>5. f = i
  <2> HIDE DEF f, k
  <2>1. f \in Nat /\ i \in Nat
    <3>1. \A x \in S : x \in Nat
      OBVIOUS
    <3>2. QED
      BY <1>4, <3>1
  <2>2. CASE f < i
    <3>1. Cardinality({j \in S : j >= i}) < Cardinality({j \in S : j >= f})
      BY <1>4, <2>2, RestShrinks
    <3>2. k < k
      BY <1>4, <3>1, Zenon DEF k
    <3>3. QED
      BY <1>2, <1>3, <3>2
  <2>3. CASE i < f
    <3>1. Cardinality({j \in S : j >= f}) < Cardinality({j \in S : j >= i})
      BY <1>4, <2>3, RestShrinks
    <3>2. k < k
      BY <1>4, <3>1, Zenon DEF k
    <3>3. QED
      BY <1>2, <1>3, <3>2
  <2>4. QED
    BY <2>1, <2>2, <2>3
<1>6. QED
  BY <1>3, <1>5
----------------------------------------
(* The passes over old results.                                            *)

\* The only element of a set of one.
LEMMA OnlyOne == \A x : Only({x}) = x
BY DEF Only

\* m is l with markers for the contents of some results.
Remarked(l, m) ==
  /\ m \in Seq(LogEntry) /\ Len(m) = Len(l)
  /\ \A i \in 1 .. Len(l) :
       /\ m[i].kind = l[i].kind /\ m[i].calls = l[i].calls
       /\ m[i].source = l[i].source /\ m[i].failed = l[i].failed
       /\ m[i].text = "content" => l[i].text = "content"

LEMMA RemarkedReflexive ==
  ASSUME NEW l \in Seq(LogEntry)
  PROVE  Remarked(l, l)
BY DEF Remarked

LEMMA RemarkedTransitive ==
  ASSUME NEW l, NEW m, NEW o, l \in Seq(LogEntry), Remarked(l, m), Remarked(m, o)
  PROVE  Remarked(l, o)
BY DEF Remarked

\* Putting markers into some results leaves everything else as it was.
LEMMA WithMarkerRemarks ==
  ASSUME NEW l \in Seq(LogEntry), NEW S, NEW marker \in Texts, marker # "content"
  PROVE  /\ Remarked(l, WithMarker(l, S, marker))
         /\ \A i \in DOMAIN l : i \notin S => WithMarker(l, S, marker)[i] = l[i]
<1> DEFINE m == WithMarker(l, S, marker)
<1>1. Len(l) \in Nat /\ DOMAIN l = 1 .. Len(l) /\ \A i \in 1 .. Len(l) : l[i] \in LogEntry
  OBVIOUS
<1>2. m = [i \in 1 .. Len(l) |-> IF i \in S THEN [l[i] EXCEPT !.text = marker] ELSE l[i]]
  BY <1>1, Zenon DEF WithMarker
<1> HIDE DEF m
<1>3. ASSUME NEW i \in 1 .. Len(l)
      PROVE  /\ m[i] \in LogEntry
             /\ m[i].kind = l[i].kind /\ m[i].calls = l[i].calls
             /\ m[i].source = l[i].source /\ m[i].failed = l[i].failed
             /\ m[i].text = "content" => l[i].text = "content"
             /\ i \notin S => m[i] = l[i]
  <2>1. CASE i \notin S
    <3>1. m[i] = l[i] /\ l[i] \in LogEntry
      BY <1>1, <1>2, <2>1, Zenon
    <3>2. QED
      BY <3>1, Zenon
  <2>2. CASE i \in S
    <3> DEFINE e == l[i]
    <3>1. m[i] = [e EXCEPT !.text = marker] /\ e \in LogEntry
      BY <1>1, <1>2, <2>2, Zenon
    <3> HIDE DEF e
    <3>2. m[i] \in LogEntry
      BY <3>1 DEF LogEntry
    <3>3. /\ m[i].kind = e.kind /\ m[i].calls = e.calls
          /\ m[i].source = e.source /\ m[i].failed = e.failed /\ m[i].text = marker
      BY <3>1 DEF LogEntry
    <3>4. QED
      BY <2>2, <3>2, <3>3 DEF e
  <2>3. QED
    BY <2>1, <2>2
<1>4. DOMAIN m = 1 .. Len(l)
  BY <1>2
<1>5. m \in Seq(LogEntry) /\ Len(m) = Len(l)
  <2>1. m \in [1 .. Len(l) -> LogEntry]
    BY <1>2, <1>3, Zenon
  <2>2. QED
    BY <1>1, <2>1
<1>6. Remarked(l, m) /\ \A i \in DOMAIN l : i \notin S => m[i] = l[i]
  BY <1>1, <1>3, <1>5, Zenon DEF Remarked
<1>7. QED
  BY <1>6 DEF m

\* Markers change neither the kinds nor the calls, so not what is computed of
\* them.
LEMMA RemarkedKeeps ==
  ASSUME NEW l, NEW m, l \in Seq(LogEntry), Remarked(l, m)
  PROVE  /\ DOMAIN m = DOMAIN l
         /\ \A sort : OfLog(m, sort) = OfLog(l, sort)
         /\ \A S : S \subseteq DOMAIN l => CallsOf(m, S) = CallsOf(l, S)
         /\ \A i \in DOMAIN l : ResultCall(m, i) = ResultCall(l, i)
         /\ Made(m) = Made(l)
         /\ Compactables(m) = Compactables(l)
<1>1. DOMAIN m = DOMAIN l /\ DOMAIN l = 1 .. Len(l)
  BY DEF Remarked
<1>2. ASSUME NEW i \in DOMAIN l
      PROVE  m[i].kind = l[i].kind /\ m[i].calls = l[i].calls
  BY <1>1 DEF Remarked
<1>3. \A sort : OfLog(m, sort) = OfLog(l, sort)
  BY <1>1, <1>2, Zenon DEF OfLog
<1>4. ASSUME NEW S, S \subseteq DOMAIN l
      PROVE  CallsOf(m, S) = CallsOf(l, S)
  <2>1. {m[i].calls : i \in S} = {l[i].calls : i \in S}
    BY <1>2, <1>4
  <2>2. QED
    BY <2>1, Zenon DEF CallsOf
<1>5. \A i \in DOMAIN l : ResultCall(m, i) = ResultCall(l, i)
  BY <1>2, Zenon DEF ResultCall
<1>6. CallsOf(m, OfLog(m, "assistant")) = CallsOf(l, OfLog(l, "assistant"))
  <2>1. OfLog(l, "assistant") \subseteq DOMAIN l
    BY Zenon DEF OfLog
  <2>2. QED
    BY <1>3, <1>4, <2>1, Zenon
<1>7. Made(m) = Made(l) /\ Compactables(m) = Compactables(l)
  BY <1>6, Zenon DEF Made, Compactables
<1>8. QED
  BY <1>1, <1>3, <1>4, <1>5, <1>7, Zenon

\* The calls of a session are numbered as they are made, by one answer after the
\* other, and every result is that of a call made before it.
Numbered(l) ==
  LET answers == OfLog(l, "assistant")
  IN /\ IsFiniteSet(CallsOf(l, answers))
     /\ \A a \in answers : \A c \in l[a].calls : c.id \in 1 .. Made(l)
     /\ \A a, b \in answers : \A c \in l[a].calls, d \in l[b].calls :
          /\ a < b => c.id < d.id
          /\ c.id = d.id => c = d
     /\ \A i \in OfLog(l, "tool_result") :
          \E a \in answers : a < i /\ \E c \in l[a].calls : l[i].calls = {c}

LEMMA RemarkedNumbered ==
  ASSUME NEW l, NEW m, l \in Seq(LogEntry), Remarked(l, m), Numbered(l)
  PROVE  Numbered(m)
<1>0. OfLog(l, "assistant") \subseteq DOMAIN l /\ OfLog(l, "tool_result") \subseteq DOMAIN l
  BY Zenon DEF OfLog
<1>1. /\ OfLog(m, "assistant") = OfLog(l, "assistant")
      /\ OfLog(m, "tool_result") = OfLog(l, "tool_result")
      /\ Made(m) = Made(l)
      /\ CallsOf(m, OfLog(l, "assistant")) = CallsOf(l, OfLog(l, "assistant"))
  BY <1>0, RemarkedKeeps
<1>2. IsFiniteSet(CallsOf(m, OfLog(m, "assistant")))
  BY <1>1, Zenon DEF Numbered
<1>3. \A i \in DOMAIN l : m[i].calls = l[i].calls
  BY DEF Remarked
<1>4. \A a \in OfLog(l, "assistant") : m[a].calls = l[a].calls
  BY <1>0, <1>3, Zenon
<1>5. \A i \in OfLog(l, "tool_result") : m[i].calls = l[i].calls
  BY <1>0, <1>3, Zenon
<1>6. \A a \in OfLog(m, "assistant") : \A c \in m[a].calls : c.id \in 1 .. Made(m)
  BY <1>1, <1>4, Zenon DEF Numbered
<1>7. ASSUME NEW a \in OfLog(m, "assistant"), NEW b \in OfLog(m, "assistant"),
             NEW c \in m[a].calls, NEW d \in m[b].calls
      PROVE  (a < b => c.id < d.id) /\ (c.id = d.id => c = d)
  <2>1. a \in OfLog(l, "assistant") /\ b \in OfLog(l, "assistant")
    BY <1>1, Zenon
  <2>2. c \in l[a].calls /\ d \in l[b].calls
    BY <1>4, <2>1, Zenon
  <2>3. QED
    BY <2>1, <2>2 DEF Numbered
<1>8. ASSUME NEW i \in OfLog(m, "tool_result")
      PROVE  \E a \in OfLog(m, "assistant") : a < i /\ \E c \in m[a].calls : m[i].calls = {c}
  <2>1. i \in OfLog(l, "tool_result")
    BY <1>1, Zenon
  <2>2. PICK a \in OfLog(l, "assistant") : a < i /\ \E c \in l[a].calls : l[i].calls = {c}
    BY <2>1, Zenon DEF Numbered
  <2>3. QED
    BY <1>1, <1>4, <1>5, <2>1, <2>2, Zenon
<1>9. QED
  BY <1>2, <1>6, <1>7, <1>8, Zenon DEF Numbered

\* A call belongs to one answer.
LEMMA OneAnswer ==
  ASSUME NEW l \in Seq(LogEntry), Numbered(l),
         NEW a \in OfLog(l, "assistant"), NEW c \in l[a].calls
  PROVE  {b \in OfLog(l, "assistant") : c \in l[b].calls} = {a}
<1>1. ASSUME NEW b \in OfLog(l, "assistant"), c \in l[b].calls
      PROVE  b = a
  <2>1. a \in Nat /\ b \in Nat
    BY DEF OfLog
  <2>2. c.id \in Nat
    <3>1. c.id \in 1 .. Made(l)
      BY Zenon DEF Numbered
    <3>2. QED
      BY <3>1
  <2>3. ~ (a < b) /\ ~ (b < a)
    <3>1. ~ (c.id < c.id)
      BY <2>2
    <3>2. QED
      BY <1>1, <3>1, Zenon DEF Numbered
  <2>4. QED
    BY <2>1, <2>3
<1>2. QED
  BY <1>1, Zenon
\* The collapse replaces nothing behind the last question.
LEMMA CollapseSpares ==
  ASSUME NEW l \in Seq(LogEntry), passConfig \in Config
  PROVE  /\ Remarked(l, Collapse(l))
         /\ \A i \in DOMAIN l : (\A u \in OfLog(l, "user") : u < i) => Collapse(l)[i] = l[i]
<1> DEFINE keep   == passConfig.collapse
           turns  == OfLog(l, "user")
           cutoff == FromLast(turns, keep)
           old    == {i \in OfLog(l, "assistant") : i < cutoff}
           ids    == {c.id : c \in {c \in CallsOf(l, old) : c.tool \in CollapsedTools}}
           S      == {i \in OfLog(l, "tool_result") : i < cutoff /\ ResultCall(l, i).id \in ids}
<1>1. CASE keep <= 0 \/ Cardinality(turns) <= keep
  <2>1. Collapse(l) = l
    BY <1>1, Zenon DEF Collapse
  <2>2. QED
    BY <2>1, RemarkedReflexive
<1>2. CASE ~ (keep <= 0 \/ Cardinality(turns) <= keep)
  <2>1. Collapse(l) = WithMarker(l, S, "collapsed")
    BY <1>2, Zenon DEF Collapse
  <2>2. Len(l) \in Nat /\ turns \in SUBSET (1 .. Len(l))
    BY DEF OfLog
  <2>3. keep \in Int
    BY DEF Config
  <2>4. cutoff \in turns
    <3> HIDE DEF keep, turns
    <3>1. Cardinality(turns) \in Nat
      BY <2>2, PositionsFinite
    <3>2. keep \in 1 .. Cardinality(turns)
      BY <1>2, <2>3, <3>1
    <3>3. QED
      BY <2>2, <3>2, FromLastExists
  <2>5. "collapsed" \in Texts /\ "collapsed" # "content"
    BY DEF Texts
  <2> HIDE DEF ids
  <2>6. ASSUME NEW i \in DOMAIN l, \A u \in turns : u < i
        PROVE  i \notin S
    <3>1. i \in Nat /\ cutoff \in Nat /\ cutoff < i
      <4> HIDE DEF turns, cutoff
      <4>1. QED
        BY <2>2, <2>4, <2>6
    <3> HIDE DEF cutoff
    <3>2. ~ (i < cutoff)
      BY <3>1
    <3>3. QED
      BY <3>2, Zenon
  <2> HIDE DEF S, keep
  <2>7. Remarked(l, Collapse(l)) /\ \A i \in DOMAIN l : i \notin S => Collapse(l)[i] = l[i]
    BY <2>1, <2>5, WithMarkerRemarks
  <2>8. QED
    BY <2>6, <2>7, Zenon
<1>3. QED
  BY <1>1, <1>2

\* Clearing by age keeps the results of the last answer.
LEMMA TimeBasedSpares ==
  ASSUME NEW l \in Seq(LogEntry), passConfig \in Config, passConfig.timed # Off
  PROVE  /\ Remarked(l, TimeBased(l))
         /\ \A a \in OfLog(l, "assistant"), i \in DOMAIN l :
              (\A b \in OfLog(l, "assistant") : b <= a) /\ ResultCall(l, i) \in l[a].calls
              => TimeBased(l)[i] = l[i]
<1> DEFINE recent == {c.id : c \in CallsOf(l, RecentAnswers(l))}
           S == {i \in DOMAIN l : /\ Clearable(l, i)
                                  /\ ResultCall(l, i).tool \in ClearedTools
                                  /\ ResultCall(l, i).id \notin recent}
<1>1. TimeBased(l) = WithMarker(l, S, "cleared")
  BY Zenon DEF TimeBased
<1>2. "cleared" \in Texts /\ "cleared" # "content"
  BY DEF Texts
<1>3. ASSUME NEW a \in OfLog(l, "assistant"), \A b \in OfLog(l, "assistant") : b <= a,
             NEW i \in DOMAIN l, ResultCall(l, i) \in l[a].calls
      PROVE  i \notin S
  <2>1. OfLog(l, "assistant") \subseteq Nat
    BY DEF OfLog
  <2>2. {b \in OfLog(l, "assistant") : b > a} = {}
    <3>1. \A b \in OfLog(l, "assistant") : ~ (b > a)
      BY <1>3, <2>1
    <3>2. QED
      BY <3>1, Zenon
  <2>3. Cardinality({b \in OfLog(l, "assistant") : b > a}) = 0
    BY <2>2, FS_EmptySet
  <2>4. passConfig.timed = 0 \/ 0 < passConfig.timed
    BY DEF Config, Off
  <2>5. a \in RecentAnswers(l)
    BY <1>3, <2>3, <2>4, Zenon DEF RecentAnswers
  <2>6. ResultCall(l, i) \in CallsOf(l, RecentAnswers(l))
    BY <1>3, <2>5, Zenon DEF CallsOf
  <2>7. ResultCall(l, i).id \in recent
    BY <2>6, Zenon
  <2> HIDE DEF recent
  <2>8. QED
    BY <2>7, Zenon
<1> HIDE DEF S
<1>4. Remarked(l, TimeBased(l)) /\ \A i \in DOMAIN l : i \notin S => TimeBased(l)[i] = l[i]
  BY <1>1, <1>2, WithMarkerRemarks
<1>5. QED
  BY <1>3, <1>4, Zenon

\* Clearing by size reaches a result of the last answer only if that answer made
\* more calls than are kept.
LEMMA MicroSpares ==
  ASSUME NEW l \in Seq(LogEntry), passConfig \in Config, passConfig.micro # Off, Numbered(l)
  PROVE  /\ Remarked(l, MicroCompact(l))
         /\ \A a \in OfLog(l, "assistant"), i \in DOMAIN l :
              /\ \A b \in OfLog(l, "assistant") : b <= a
              /\ ResultCall(l, i) \in l[a].calls
              /\ MicroCompact(l)[i] # l[i]
              => Cardinality({d \in l[a].calls : d.tool \in CompactableTools}) > passConfig.micro
<1> DEFINE S == {i \in DOMAIN l : /\ Clearable(l, i)
                                  /\ ResultCall(l, i) \in Compactables(l) \ KeptCalls(l)}
<1>1. MicroCompact(l) = WithMarker(l, S, "cleared")
  BY Zenon DEF MicroCompact
<1>2. "cleared" \in Texts /\ "cleared" # "content"
  BY DEF Texts
<1>3. Remarked(l, MicroCompact(l)) /\ \A i \in DOMAIN l : i \notin S => MicroCompact(l)[i] = l[i]
  <2> HIDE DEF S
  <2>1. QED
    BY <1>1, <1>2, WithMarkerRemarks
<1>4. ASSUME NEW a \in OfLog(l, "assistant"), \A b \in OfLog(l, "assistant") : b <= a,
             NEW i \in DOMAIN l, ResultCall(l, i) \in l[a].calls, MicroCompact(l)[i] # l[i]
      PROVE  Cardinality({d \in l[a].calls : d.tool \in CompactableTools}) > passConfig.micro
  <2> DEFINE c     == ResultCall(l, i)
             Later == {d \in Compactables(l) : d.id > c.id}
             Own   == {d \in l[a].calls : d.tool \in CompactableTools}
  <2>1. c \in Compactables(l) /\ c \notin KeptCalls(l)
    BY <1>3, <1>4, Zenon
  <2>2. ~ (Cardinality(Later) < passConfig.micro)
    BY <2>1, Zenon DEF KeptCalls
  <2>3. c \in Own
    BY <1>4, <2>1, Zenon DEF Compactables
  <2>4. c.id \in Nat
    <3>1. c.id \in 1 .. Made(l)
      BY <1>4, Zenon DEF Numbered
    <3>2. QED
      BY <3>1
  <2>5. c \notin Later
    <3> HIDE DEF c
    <3>1. ~ (c.id > c.id)
      BY <2>4
    <3>2. QED
      BY <3>1, Zenon
  <2>6. ASSUME NEW d \in Later PROVE d \in Own
    <3>1. d.id > c.id /\ d \in CallsOf(l, OfLog(l, "assistant")) /\ d.tool \in CompactableTools
      BY <2>6, Zenon DEF Compactables
    <3>2. PICK b \in OfLog(l, "assistant") : d \in l[b].calls
      BY <3>1, Zenon DEF CallsOf
    <3>3. c \in l[a].calls /\ a \in OfLog(l, "assistant") /\ b <= a
      BY <1>4, <3>2, Zenon
    <3> HIDE DEF c, Own, Later
    <3>4. ~ (b < a)
      <4>1. SUFFICES ASSUME b < a PROVE FALSE
        OBVIOUS
      <4>2. d.id < c.id
        BY <3>2, <3>3, <4>1 DEF Numbered
      <4>3. d.id \in Nat
        <5>1. d.id \in 1 .. Made(l)
          BY <3>2, Zenon DEF Numbered
        <5>2. QED
          BY <5>1
      <4>4. QED
        BY <2>4, <3>1, <4>2, <4>3
    <3>5. a \in Nat /\ b \in Nat
      BY <3>2, <3>3 DEF OfLog
    <3>6. a = b
      BY <3>3, <3>4, <3>5
    <3>7. QED
      BY <3>1, <3>2, <3>6, Zenon DEF Own
  <2>7. IsFiniteSet(Own)
    <3>1. Own \subseteq CallsOf(l, OfLog(l, "assistant"))
      BY <1>4, Zenon DEF CallsOf
    <3>2. IsFiniteSet(CallsOf(l, OfLog(l, "assistant")))
      BY Zenon DEF Numbered
    <3>3. QED
      BY <3>1, <3>2, FS_Subset
  <2> HIDE DEF Own, Later, c
  <2>8. Cardinality(Later) < Cardinality(Own)
    <3>1. Later \in SUBSET Own /\ Later # Own
      BY <2>3, <2>5, <2>6, Zenon
    <3>2. IsFiniteSet(Later) /\ Cardinality(Later) <= Cardinality(Own) /\ Cardinality(Later) # Cardinality(Own)
      BY <2>7, <3>1, FS_Subset
    <3>3. Cardinality(Later) \in Nat /\ Cardinality(Own) \in Nat
      BY <2>7, <3>2, FS_CardinalityType
    <3>4. QED
      BY <3>2, <3>3
  <2>9. passConfig.micro \in Int /\ Cardinality(Later) \in Nat /\ Cardinality(Own) \in Nat
    <3>1. passConfig.micro \in Int
      BY DEF Config, Off
    <3>2. IsFiniteSet(Later)
      BY <2>6, <2>7, FS_Subset
    <3>3. QED
      BY <2>7, <3>1, <3>2, FS_CardinalityType
  <2>10. Cardinality(Own) > passConfig.micro
    BY <2>2, <2>8, <2>9
  <2>11. QED
    BY <2>10 DEF Own
<1>5. QED
  BY <1>3, <1>4, Zenon
\* A request's passes spare the results of the last answer to the question asked
\* last, unless it made more calls than are kept.
LEMMA PassedSpares ==
  ASSUME NEW l \in Seq(LogEntry), passConfig \in Config, Numbered(l),
         NEW paused \in BOOLEAN, NEW large \in BOOLEAN
  PROVE  /\ Remarked(l, Passed(l, paused, large))
         /\ \A a \in OfLog(l, "assistant"), i \in DOMAIN l :
              /\ \A u \in OfLog(l, "user") : u < i
              /\ \A b \in OfLog(l, "assistant") : b <= a
              /\ ResultCall(l, i) \in l[a].calls
              /\ Passed(l, paused, large)[i] # l[i]
              => /\ passConfig.micro # Off
                 /\ Cardinality({d \in l[a].calls : d.tool \in CompactableTools}) > passConfig.micro
<1> DEFINE m1 == IF passConfig.collapse = Off THEN l ELSE Collapse(l)
           m2 == IF passConfig.timed = Off \/ ~paused THEN m1 ELSE TimeBased(m1)
           m3 == IF passConfig.micro = Off \/ ~large THEN m2 ELSE MicroCompact(m2)
<1>1. Passed(l, paused, large) = m3
  BY Zenon DEF Passed
<1> HIDE DEF m3
<1>2. Remarked(l, m1) /\ \A i \in DOMAIN l : (\A u \in OfLog(l, "user") : u < i) => m1[i] = l[i]
  <2>1. CASE passConfig.collapse = Off
    BY <2>1, RemarkedReflexive
  <2>2. CASE passConfig.collapse # Off
    <3>1. m1 = Collapse(l)
      BY <2>2
    <3> HIDE DEF m1
    <3>2. QED
      BY <3>1, CollapseSpares, Zenon
  <2>3. QED
    BY <2>1, <2>2
<1> HIDE DEF m1
<1>3. m1 \in Seq(LogEntry) /\ Numbered(m1)
  BY <1>2, RemarkedNumbered DEF Remarked
<1>4. /\ Remarked(m1, m2)
      /\ \A a \in OfLog(m1, "assistant"), i \in DOMAIN m1 :
           (\A b \in OfLog(m1, "assistant") : b <= a) /\ ResultCall(m1, i) \in m1[a].calls
           => m2[i] = m1[i]
  <2>1. CASE passConfig.timed = Off \/ ~paused
    BY <1>3, <2>1, RemarkedReflexive
  <2>2. CASE ~ (passConfig.timed = Off \/ ~paused)
    <3>1. m2 = TimeBased(m1) /\ passConfig.timed # Off
      BY <2>2, Zenon
    <3> HIDE DEF m2
    <3>2. QED
      BY <1>3, <3>1, TimeBasedSpares, Zenon
  <2>3. QED
    BY <2>1, <2>2
<1> HIDE DEF m2
<1>5. m2 \in Seq(LogEntry) /\ Numbered(m2)
  BY <1>3, <1>4, RemarkedNumbered DEF Remarked
<1>6. /\ Remarked(m2, m3)
      /\ \A a \in OfLog(m2, "assistant"), i \in DOMAIN m2 :
           /\ \A b \in OfLog(m2, "assistant") : b <= a
           /\ ResultCall(m2, i) \in m2[a].calls
           /\ m3[i] # m2[i]
           => /\ passConfig.micro # Off
              /\ Cardinality({d \in m2[a].calls : d.tool \in CompactableTools}) > passConfig.micro
  <2>1. CASE passConfig.micro = Off \/ ~large
    <3>1. m3 = m2
      BY <2>1, Zenon DEF m3
    <3>2. QED
      BY <1>5, <3>1, RemarkedReflexive
  <2>2. CASE ~ (passConfig.micro = Off \/ ~large)
    <3>1. m3 = MicroCompact(m2) /\ passConfig.micro # Off
      BY <2>2, Zenon DEF m3
    <3>2. QED
      BY <1>5, <3>1, MicroSpares, Zenon
  <2>3. QED
    BY <2>1, <2>2
<1>7. Remarked(l, m2) /\ Remarked(l, m3)
  BY <1>2, <1>3, <1>4, <1>5, <1>6, RemarkedTransitive
<1>8. ASSUME NEW a \in OfLog(l, "assistant"), NEW i \in DOMAIN l,
             \A u \in OfLog(l, "user") : u < i,
             \A b \in OfLog(l, "assistant") : b <= a,
             ResultCall(l, i) \in l[a].calls, m3[i] # l[i]
      PROVE  /\ passConfig.micro # Off
             /\ Cardinality({d \in l[a].calls : d.tool \in CompactableTools}) > passConfig.micro
  <2>1. m1[i] = l[i]
    BY <1>2, <1>8, Zenon
  <2>2. /\ OfLog(m1, "assistant") = OfLog(l, "assistant") /\ DOMAIN m1 = DOMAIN l
        /\ ResultCall(m1, i) = ResultCall(l, i)
    BY <1>2, RemarkedKeeps
  <2>3. /\ OfLog(m2, "assistant") = OfLog(l, "assistant") /\ DOMAIN m2 = DOMAIN l
        /\ ResultCall(m2, i) = ResultCall(l, i)
    BY <1>7, RemarkedKeeps
  <2>4. a \in 1 .. Len(l)
    BY <1>8 DEF OfLog
  <2>5. m1[a].calls = l[a].calls /\ m2[a].calls = l[a].calls
    BY <1>2, <1>7, <2>4 DEF Remarked
  <2>6. m2[i] = m1[i]
    BY <1>4, <1>8, <2>2, <2>5, Zenon
  <2>7. m3[i] # m2[i]
    BY <1>8, <2>1, <2>6, Zenon
  <2>8. QED
    BY <1>6, <1>8, <2>3, <2>5, <2>7, Zenon
<1>9. QED
  BY <1>1, <1>7, <1>8, Zenon

----------------------------------------
(* What a restore gives back.                                              *)

\* The last result of every file, of those found.
LastOfFile(l, found) ==
  {j \in found : ~ \E k \in found : k > j /\ SameFile(l, k, j)}

\* The results found so far, up to the n-th entry.
LastUpTo(l, found, n) ==
  {j \in found : j <= n /\ ~ \E k \in found : k > j /\ k <= n /\ SameFile(l, k, j)}

\* kept goes through the entries as deduplicateByPath does.
IsKept(l, found, kept) ==
  kept = [n \in 0 .. Len(l) |->
            IF n = 0 THEN {}
            ELSE IF n \in found THEN {j \in kept[n - 1] : ~SameFile(l, n, j)} \cup {n}
            ELSE kept[n - 1]]

\* ... and what the n-th entry makes of them.
MakesRoom(l, found, n, before, after) ==
  /\ n \in found => after = {j \in before : ~SameFile(l, n, j)} \cup {n}
  /\ n \notin found => after = before

LEMMA LastUpToGrows ==
  ASSUME NEW l, Len(l) \in Nat, NEW found \in SUBSET (1 .. Len(l)), NEW n \in 1 .. Len(l)
  PROVE  MakesRoom(l, found, n, LastUpTo(l, found, n - 1), LastUpTo(l, found, n))
<1>1. \A j \in found : j \in Nat /\ (j <= n <=> j <= n - 1 \/ j = n) /\ ~ (j > n /\ j <= n)
  OBVIOUS
<1>2. \A j \in found : j <= n - 1 => n > j
  BY <1>1
<1>3. CASE n \notin found
  <2>1. \A j \in found : j <= n <=> j <= n - 1
    BY <1>1, <1>3
  <2>2. LastUpTo(l, found, n) = LastUpTo(l, found, n - 1)
    BY <2>1, Zenon DEF LastUpTo
  <2>3. QED
    BY <1>3, <2>2, Zenon DEF MakesRoom
<1>4. CASE n \in found
  <2>1. ASSUME NEW j \in found
        PROVE  (j <= n /\ ~ \E k \in found : k > j /\ k <= n /\ SameFile(l, k, j))
               <=> \/ j = n
                   \/ /\ j <= n - 1 /\ ~SameFile(l, n, j)
                      /\ ~ \E k \in found : k > j /\ k <= n - 1 /\ SameFile(l, k, j)
    <3>1. CASE j = n
      BY <1>1, <3>1
    <3>2. CASE j # n
      <4>1. j <= n <=> j <= n - 1
        BY <1>1, <3>2
      <4>2. CASE ~ (j <= n)
        BY <3>2, <4>1, <4>2, Zenon
      <4>3. CASE j <= n
        <5>1. (\E k \in found : k > j /\ k <= n /\ SameFile(l, k, j))
              <=> SameFile(l, n, j) \/ \E k \in found : k > j /\ k <= n - 1 /\ SameFile(l, k, j)
          BY <1>1, <1>2, <1>4, <4>1, <4>3, Zenon
        <5>2. QED
          BY <3>2, <4>1, <4>3, <5>1, Zenon
      <4>4. QED
        BY <4>2, <4>3, Zenon
    <3>3. QED
      BY <3>1, <3>2, Zenon
  <2>2. LastUpTo(l, found, n) = {j \in LastUpTo(l, found, n - 1) : ~SameFile(l, n, j)} \cup {n}
    BY <1>4, <2>1, Zenon DEF LastUpTo
  <2>3. QED
    BY <1>4, <2>2, Zenon DEF MakesRoom
<1>5. QED
  BY <1>3, <1>4

LEMMA KeptExists ==
  ASSUME NEW l, Len(l) \in Nat, NEW found \in SUBSET (1 .. Len(l))
  PROVE  \E kept : IsKept(l, found, kept)
<1> DEFINE kept == [n \in 0 .. Len(l) |-> LastUpTo(l, found, n)]
           Next(n) == IF n = 0 THEN {}
                      ELSE IF n \in found THEN {j \in kept[n - 1] : ~SameFile(l, n, j)} \cup {n}
                      ELSE kept[n - 1]
<1>1. ASSUME NEW n \in 0 .. Len(l)
      PROVE  kept[n] = Next(n)
  <2>1. CASE n = 0
    <3>1. \A j \in found : ~ (j <= 0)
      OBVIOUS
    <3>2. LastUpTo(l, found, 0) = {}
      BY <3>1, Zenon DEF LastUpTo
    <3>3. QED
      BY <2>1, <3>2
  <2>2. CASE n # 0
    <3>1. n \in 1 .. Len(l) /\ n - 1 \in 0 .. Len(l)
      BY <2>2
    <3>2. kept[n] = LastUpTo(l, found, n) /\ kept[n - 1] = LastUpTo(l, found, n - 1)
      BY <3>1
    <3> HIDE DEF kept
    <3>3. MakesRoom(l, found, n, LastUpTo(l, found, n - 1), LastUpTo(l, found, n))
      BY <3>1, LastUpToGrows
    <3>4. QED
      BY <2>2, <3>2, <3>3, Zenon DEF MakesRoom
  <2>3. QED
    BY <2>1, <2>2
<1>2. kept = [n \in 0 .. Len(l) |-> kept[n]]
  OBVIOUS
<1> HIDE DEF kept
<1>3. kept = [n \in 0 .. Len(l) |-> Next(n)]
  BY <1>1, <1>2, Zenon
<1>4. IsKept(l, found, kept)
  BY <1>3, Zenon DEF IsKept
<1>5. QED
  BY <1>4, Zenon

\* Entry after entry, the earlier results of a file make room for the latest.
LEMMA DeduplicateKeepsLast ==
  ASSUME NEW l, Len(l) \in Nat, NEW found \in SUBSET (1 .. Len(l))
  PROVE  Deduplicate(l, found) = LastOfFile(l, found)
<1> DEFINE kept == CHOOSE kept : IsKept(l, found, kept)
<1>1. IsKept(l, found, kept)
  BY KeptExists, Zenon
<1>2. Deduplicate(l, found) = kept[Len(l)]
  BY Zenon DEF Deduplicate, IsKept
<1> HIDE DEF kept
<1>3. \A n \in 0 .. Len(l) : kept[n] =
        IF n = 0 THEN {}
        ELSE IF n \in found THEN {j \in kept[n - 1] : ~SameFile(l, n, j)} \cup {n}
        ELSE kept[n - 1]
  BY <1>1, Zenon DEF IsKept
<1> DEFINE Wrong == {n \in 0 .. Len(l) : kept[n] # LastUpTo(l, found, n)}
<1>4. Wrong = {}
  <2> SUFFICES ASSUME Wrong # {} PROVE FALSE
    OBVIOUS
  <2>1. PICK n \in Wrong : \A m \in Wrong : n <= m
    <3>1. Wrong \in SUBSET Nat
      OBVIOUS
    <3> HIDE DEF Wrong
    <3>2. QED
      BY <3>1, LeastExists
  <2>2. n \in 0 .. Len(l) /\ kept[n] # LastUpTo(l, found, n)
    BY <2>1
  <2>3. CASE n = 0
    <3>1. \A j \in found : ~ (j <= 0)
      OBVIOUS
    <3>2. LastUpTo(l, found, 0) = {}
      BY <3>1, Zenon DEF LastUpTo
    <3>3. QED
      BY <1>3, <2>2, <2>3, <3>2
  <2>4. CASE n # 0
    <3>1. n \in 1 .. Len(l) /\ n - 1 \in 0 .. Len(l) /\ ~ (n <= n - 1)
      BY <2>2, <2>4
    <3>2. kept[n - 1] = LastUpTo(l, found, n - 1)
      BY <2>1, <3>1, Zenon
    <3> HIDE DEF Wrong
    <3>4. MakesRoom(l, found, n, LastUpTo(l, found, n - 1), LastUpTo(l, found, n))
      BY <3>1, LastUpToGrows
    <3>3. kept[n] = LastUpTo(l, found, n)
      BY <1>3, <2>2, <2>4, <3>2, <3>4, Zenon DEF MakesRoom
    <3>5. QED
      BY <2>2, <3>3
  <2>5. QED
    BY <2>3, <2>4
<1>5. kept[Len(l)] = LastUpTo(l, found, Len(l))
  <2>1. Len(l) \in 0 .. Len(l)
    OBVIOUS
  <2>2. QED
    BY <1>4, <2>1, Zenon
<1>6. \A j \in found : j <= Len(l)
  OBVIOUS
<1>7. LastUpTo(l, found, Len(l)) = LastOfFile(l, found)
  BY <1>6, Zenon DEF LastUpTo, LastOfFile
<1>8. QED
  BY <1>2, <1>5, <1>7, Zenon
\* What RestoresLatest says of a restore of r, when l has been compacted.
GivesLatest(l, source, r) ==
  \A n \in DOMAIN r :
    /\ r[n].at \in source
    /\ \A i \in source :
         /\ i > r[n].at /\ l[i].kind = "tool_result"
         /\ ResultCall(l, i).tool \in RestorableTools
         => /\ ~SameFile(l, i, r[n].at)
            /\ \E j \in {r[m].at : m \in 1 .. n} : j >= i /\ SameFile(l, i, j)

\* The least of three numbers.
LEMMA LeastOfThree ==
  ASSUME NEW x \in Int, NEW y \in Int, NEW z \in Int
  PROVE  Min({x, y, z}) \in Int /\ Min({x, y, z}) <= x
<1>1. \E m \in {x, y, z} : \A k \in {x, y, z} : m <= k
  OBVIOUS
<1>2. Min({x, y, z}) \in {x, y, z} /\ \A k \in {x, y, z} : Min({x, y, z}) <= k
  BY <1>1, Zenon DEF Min
<1>3. QED
  BY <1>2

\* A restore gives the newest results of their files, newest first, as many as
\* fit.
LEMMA RestoredGivesLatest ==
  ASSUME NEW l \in Seq(LogEntry), NEW source \in SUBSET (1 .. Len(l))
  PROVE  /\ Restored(l, source) \in Seq([at : 1 .. Len(l), text : Texts])
         /\ GivesLatest(l, source, Restored(l, source))
<1> DEFINE found  == Restorables(l, source)
           latest == LastOfFile(l, found)
           fit    == Min({Cardinality(latest), MaxFiles, MaxRestored - Anchors(l, source)})
           r      == [n \in 1 .. fit |-> [at |-> FromLast(latest, n), text |-> l[FromLast(latest, n)].text]]
<1>1. Len(l) \in Nat /\ found \in SUBSET (1 .. Len(l)) /\ found \in SUBSET source
  <2>1. Len(l) \in Nat
    OBVIOUS
  <2>2. found \in SUBSET source
    BY Zenon DEF Restorables
  <2> HIDE DEF found
  <2>3. QED
    BY <2>1, <2>2
<1>2. Restored(l, source) = r
  <2>1. Deduplicate(l, found) = latest
    BY <1>1, DeduplicateKeepsLast
  <2>2. QED
    BY <2>1, Zenon DEF Restored
<1>3. latest \in SUBSET found /\ latest \in SUBSET (1 .. Len(l))
  BY <1>1, Zenon DEF LastOfFile
<1> HIDE DEF found
<1>4. Cardinality(latest) \in Nat
  BY <1>1, <1>3, PositionsFinite
<1>5. fit \in Int /\ fit <= Cardinality(latest)
  <2>1. MaxFiles \in Int /\ MaxRestored \in Int
    BY PassAssumption
  <2>2. Anchors(l, source) \in Int
    <3> DEFINE K == {sort \in {"user", "assistant"} : \E i \in source : l[i].kind = sort}
    <3>1. IsFiniteSet({"user", "assistant"})
      <4>1. IsFiniteSet({"user"} \cup {"assistant"})
        BY FS_Singleton, FS_Union
      <4>2. {"user"} \cup {"assistant"} = {"user", "assistant"}
        OBVIOUS
      <4>3. QED
        BY <4>1, <4>2, Zenon
    <3>2. K \in SUBSET {"user", "assistant"}
      BY Zenon
    <3> HIDE DEF K
    <3>3. IsFiniteSet(K)
      BY <3>1, <3>2, FS_Subset
    <3>4. Cardinality(K) \in Nat
      BY <3>3, FS_CardinalityType
    <3>5. QED
      BY <3>4 DEF Anchors, K
  <2>3. MaxRestored - Anchors(l, source) \in Int
    BY <2>1, <2>2
  <2> HIDE DEF latest
  <2>4. QED
    BY <1>4, <2>1, <2>3, LeastOfThree
<1> HIDE DEF fit
<1>6. ASSUME NEW n \in 1 .. fit
      PROVE  /\ FromLast(latest, n) \in latest
             /\ Cardinality({j \in latest : j >= FromLast(latest, n)}) = n
  <2> HIDE DEF latest
  <2>1. n \in 1 .. Cardinality(latest)
    BY <1>4, <1>5
  <2>2. QED
    BY <1>1, <1>3, <2>1, FromLastExists
<1>7. \A n \in 1 .. fit : r[n].at = FromLast(latest, n)
  <2> HIDE DEF latest
  <2>1. QED
    OBVIOUS
<1>8. DOMAIN r = 1 .. fit
  OBVIOUS
<1>9. r \in Seq([at : 1 .. Len(l), text : Texts])
  <2> HIDE DEF latest
  <2>1. ASSUME NEW n \in 1 .. fit
        PROVE  r[n] \in [at : 1 .. Len(l), text : Texts]
    <3> DEFINE i == FromLast(latest, n)
    <3>1. i \in 1 .. Len(l)
      BY <1>3, <1>6, Zenon
    <3> HIDE DEF i
    <3>2. l[i] \in LogEntry
      BY <3>1
    <3>3. l[i].text \in Texts
      BY <3>2 DEF LogEntry
    <3>4. r[n] = [at |-> i, text |-> l[i].text]
      BY DEF i
    <3> HIDE DEF r
    <3>5. QED
      BY <3>1, <3>3, <3>4
  <2>2. CASE fit \in Nat
    <3>1. r \in [1 .. fit -> [at : 1 .. Len(l), text : Texts]]
      BY <1>8, <2>1
    <3> HIDE DEF r
    <3>2. \A T : \A f \in [1 .. fit -> T] : f \in Seq(T)
      BY <2>2
    <3>3. QED
      BY <3>1, <3>2, Zenon
  <2>3. CASE fit \notin Nat
    <3>1. 1 .. fit = {}
      BY <1>5, <2>3
    <3>2. DOMAIN r = {} /\ r = [n \in DOMAIN r |-> r[n]]
      BY <1>8, <3>1
    <3> HIDE DEF r
    <3>3. r = <<>>
      BY <3>2
    <3>4. QED
      BY <3>3
  <2>4. QED
    BY <2>2, <2>3
<1> HIDE DEF r
<1>10. ASSUME NEW n \in 1 .. fit, NEW i \in source, i > r[n].at, l[i].kind = "tool_result",
              ResultCall(l, i).tool \in RestorableTools
       PROVE  /\ ~SameFile(l, i, r[n].at)
              /\ \E j \in {r[m].at : m \in 1 .. n} : j >= i /\ SameFile(l, i, j)
  <2> DEFINE at == FromLast(latest, n)
  <2>1. i \in found
    BY <1>10, Zenon DEF found, Restorables
  <2>2. i > at /\ at \in latest /\ r[n].at = at
    BY <1>6, <1>7, <1>10, Zenon
  <2> HIDE DEF at
  <2>3. ~SameFile(l, i, at)
    BY <2>1, <2>2, Zenon DEF LastOfFile
  <2> DEFINE Same == {k \in found : SameFile(l, k, i)}
  <2>4. i \in Same /\ Same \in SUBSET (1 .. Len(l))
    BY <1>1, <2>1, Zenon DEF SameFile
  <2>5. PICK j \in Same : \A k \in Same : k <= j
    <3> HIDE DEF Same
    <3>1. Same # {}
      BY <2>4
    <3>2. QED
      BY <1>1, <2>4, <3>1, GreatestExists
  <2>6. j \in found /\ SameFile(l, i, j) /\ i <= j
    BY <2>4, <2>5, Zenon DEF SameFile
  <2>7. j \in latest
    <3>1. ASSUME NEW k \in found, k > j, SameFile(l, k, j)
          PROVE  FALSE
      <4>1. k \in Same
        BY <2>6, <3>1, Zenon DEF SameFile
      <4>2. k <= j
        BY <2>5, <4>1
      <4>3. k \in Nat /\ j \in Nat
        BY <1>1, <2>6, <3>1
      <4>4. QED
        BY <3>1, <4>2, <4>3
    <3>2. QED
      BY <2>6, <3>1, Zenon DEF LastOfFile
  <2> HIDE DEF latest, Same
  <2>8. i \in Nat /\ j \in Nat /\ at \in Nat
    <3>1. \A x \in 1 .. Len(l) : x \in Nat
      OBVIOUS
    <3>2. QED
      BY <1>1, <1>3, <2>1, <2>2, <2>6, <3>1
  <2>9. at < j
    BY <2>2, <2>6, <2>8
  <2> DEFINE m == Cardinality({k \in latest : k >= j})
  <2>10. m \in 1 .. Cardinality(latest) /\ FromLast(latest, m) = j
    BY <1>1, <1>3, <2>7, FromLastUnique
  <2>11. m < n
    <3>1. m < Cardinality({k \in latest : k >= at})
      BY <1>1, <1>3, <2>2, <2>7, <2>9, RestShrinks
    <3>2. Cardinality({k \in latest : k >= at}) = n
      BY <1>6, Zenon DEF at
    <3> HIDE DEF m
    <3>3. QED
      BY <3>1, <3>2
  <2> HIDE DEF m
  <2>12. m \in 1 .. n /\ m \in 1 .. fit
    BY <1>4, <1>5, <2>10, <2>11
  <2>13. r[m].at = j
    BY <1>7, <2>10, <2>12
  <2>14. QED
    BY <2>2, <2>3, <2>6, <2>8, <2>12, <2>13
<1>11. \A n \in 1 .. fit : r[n].at \in source
  <2> HIDE DEF latest
  <2>1. QED
    BY <1>1, <1>3, <1>6, <1>7, Zenon
<1>12. GivesLatest(l, source, r)
  BY <1>8, <1>10, <1>11, Zenon DEF GivesLatest
<1>13. QED
  BY <1>2, <1>9, <1>12, Zenon
----------------------------------------
(* The passes spare what the model has not read.                           *)

\* A compaction summarises something, and nothing from the last question on.
Summarised(l) ==
  \A i \in OfLog(l, "compaction") :
    l[i].source # {} /\ \E u \in OfLog(l, "user") : l[i].source \subseteq 1 .. u - 1

\* The last entry makes the last calls.
LastCalls(l) ==
  LET calls == l[Len(l)].calls
  IN /\ Len(l) > 0 /\ l[Len(l)].kind = "assistant"
     /\ {c.id : c \in calls} = Made(l) - Cardinality(calls) + 1 .. Made(l)

\* The contents behind the last question have been shown, but for those of the
\* answer before a request that is due.
Shown ==
  /\ OfLog(passLog, "user") # {}
  /\ \A i \in OfLog(passLog, "tool_result") :
       /\ \A u \in OfLog(passLog, "user") : u < i
       /\ passLog[i].text = "content"
       /\ ResultCall(passLog, i).id \notin passSeen
       => /\ passStage = "due"
          /\ \E a \in OfLog(passLog, "assistant") :
               /\ \A b \in OfLog(passLog, "assistant") : b <= a
               /\ ResultCall(passLog, i) \in passLog[a].calls

\* How the passes get to spare what they spare.
PassInv ==
  /\ PassTypeOK
  /\ Numbered(passLog) /\ Made(passLog) <= MaxPassCalls
  /\ Summarised(passLog)
  /\ passStage \in {"due", "calls"} => Len(passLog) <= MaxLog
  /\ passStage = "calls" => LastCalls(passLog)
  /\ passStage # "asked" => passRestored = <<>>
  /\ passStage \in {"due", "asked", "calls"} => Shown
  /\ RestoresLatest
\* m is l with more entries.
Continues(l, m) ==
  /\ m \in Seq(LogEntry) /\ Len(m) >= Len(l)
  /\ \A i \in 1 .. Len(l) : m[i] = l[i]

\* An entry that is appended continues a session.
LEMMA AppendContinues ==
  ASSUME NEW l \in Seq(LogEntry), NEW e \in LogEntry
  PROVE  /\ Continues(l, Append(l, e)) /\ Len(Append(l, e)) = Len(l) + 1
         /\ Append(l, e)[Len(l) + 1] = e
BY DEF Continues

\* What a continued session keeps of the one it continues.
LEMMA ContinuedPositions ==
  ASSUME NEW l \in Seq(LogEntry), NEW m, Continues(l, m)
  PROVE  /\ Len(l) \in Nat /\ Len(m) \in Nat
         /\ DOMAIN l = 1 .. Len(l) /\ DOMAIN m = 1 .. Len(m) /\ DOMAIN l \subseteq DOMAIN m
         /\ \A i \in DOMAIN l : m[i] = l[i]
         /\ \A sort : OfLog(l, sort) = {i \in OfLog(m, sort) : i <= Len(l)}
         /\ \A i \in DOMAIN l : ResultCall(m, i) = ResultCall(l, i)
<1>1. /\ Len(l) \in Nat /\ Len(m) \in Nat
      /\ DOMAIN l = 1 .. Len(l) /\ DOMAIN m = 1 .. Len(m)
  BY DEF Continues
<1>2. \A i : i \in DOMAIN l <=> i \in DOMAIN m /\ i <= Len(l)
  BY <1>1 DEF Continues
<1>3. \A i \in DOMAIN l : m[i] = l[i]
  BY <1>1 DEF Continues
<1>4. \A sort : OfLog(l, sort) = {i \in OfLog(m, sort) : i <= Len(l)}
  BY <1>2, <1>3, Zenon DEF OfLog
<1>5. \A i \in DOMAIN l : ResultCall(m, i) = ResultCall(l, i)
  BY <1>3, Zenon DEF ResultCall
<1>6. QED
  BY <1>1, <1>2, <1>3, <1>4, <1>5, Zenon

\* Without another answer the calls stay those made so far.
LEMMA ContinuedCalls ==
  ASSUME NEW l \in Seq(LogEntry), NEW m, Continues(l, m),
         \A i \in DOMAIN m : i > Len(l) => m[i].kind # "assistant"
  PROVE  /\ OfLog(m, "assistant") = OfLog(l, "assistant")
         /\ CallsOf(m, OfLog(m, "assistant")) = CallsOf(l, OfLog(l, "assistant"))
         /\ Made(m) = Made(l)
<1>1. /\ \A i \in DOMAIN l : m[i] = l[i]
      /\ OfLog(l, "assistant") = {i \in OfLog(m, "assistant") : i <= Len(l)}
      /\ Len(l) \in Nat /\ DOMAIN m = 1 .. Len(m) /\ Len(m) \in Nat
  BY ContinuedPositions
<1>2. \A i \in DOMAIN m : i <= Len(l) \/ i > Len(l)
  BY <1>1
<1>3. \A i \in OfLog(m, "assistant") : i <= Len(l)
  BY <1>2, Zenon DEF OfLog
<1>4. OfLog(m, "assistant") = OfLog(l, "assistant")
  BY <1>1, <1>3, Zenon
<1>5. \A i \in OfLog(l, "assistant") : m[i].calls = l[i].calls
  BY <1>1, Zenon DEF OfLog
<1>6. {m[i].calls : i \in OfLog(l, "assistant")} = {l[i].calls : i \in OfLog(l, "assistant")}
  BY <1>5
<1>7. CallsOf(m, OfLog(m, "assistant")) = CallsOf(l, OfLog(l, "assistant"))
  BY <1>4, <1>6, Zenon DEF CallsOf
<1>8. Made(m) = Made(l)
  BY <1>7, Zenon DEF Made
<1>9. QED
  BY <1>4, <1>7, <1>8, Zenon

\* ... and numbered, if every new result is that of a call made so far.
LEMMA ContinuedNumbered ==
  ASSUME NEW l \in Seq(LogEntry), NEW m, Continues(l, m), Numbered(l),
         \A i \in DOMAIN m : i > Len(l) =>
           /\ m[i].kind # "assistant"
           /\ m[i].kind = "tool_result" =>
                \E a \in OfLog(l, "assistant") : \E c \in l[a].calls : m[i].calls = {c}
  PROVE  Numbered(m)
<1>1. /\ OfLog(m, "assistant") = OfLog(l, "assistant")
      /\ CallsOf(m, OfLog(m, "assistant")) = CallsOf(l, OfLog(l, "assistant"))
      /\ Made(m) = Made(l)
  BY ContinuedCalls
<1>2. /\ \A i \in DOMAIN l : m[i] = l[i]
      /\ OfLog(l, "tool_result") = {i \in OfLog(m, "tool_result") : i <= Len(l)}
      /\ Len(l) \in Nat /\ DOMAIN m = 1 .. Len(m) /\ Len(m) \in Nat /\ DOMAIN l = 1 .. Len(l)
  BY ContinuedPositions
<1>3. \A a \in OfLog(l, "assistant") : m[a].calls = l[a].calls /\ a \in 1 .. Len(l)
  BY <1>2, Zenon DEF OfLog
<1>4. IsFiniteSet(CallsOf(m, OfLog(m, "assistant")))
  BY <1>1, Zenon DEF Numbered
<1>5. \A a \in OfLog(m, "assistant") : \A c \in m[a].calls : c.id \in 1 .. Made(m)
  BY <1>1, <1>3, Zenon DEF Numbered
<1>6. ASSUME NEW a \in OfLog(m, "assistant"), NEW b \in OfLog(m, "assistant"),
             NEW c \in m[a].calls, NEW d \in m[b].calls
      PROVE  (a < b => c.id < d.id) /\ (c.id = d.id => c = d)
  <2>1. a \in OfLog(l, "assistant") /\ b \in OfLog(l, "assistant")
    BY <1>1, Zenon
  <2>2. c \in l[a].calls /\ d \in l[b].calls
    BY <1>3, <2>1, Zenon
  <2>3. QED
    BY <2>1, <2>2 DEF Numbered
<1>7. ASSUME NEW i \in OfLog(m, "tool_result")
      PROVE  \E a \in OfLog(m, "assistant") : a < i /\ \E c \in m[a].calls : m[i].calls = {c}
  <2>1. i \in DOMAIN m /\ m[i].kind = "tool_result"
    BY Zenon DEF OfLog
  <2>2. CASE i <= Len(l)
    <3>1. i \in OfLog(l, "tool_result") /\ i \in DOMAIN l
      BY <1>2, <2>1, <2>2
    <3>2. PICK a \in OfLog(l, "assistant") : a < i /\ \E c \in l[a].calls : l[i].calls = {c}
      BY <3>1, Zenon DEF Numbered
    <3>3. QED
      BY <1>1, <1>2, <1>3, <3>1, <3>2, Zenon
  <2>3. CASE i > Len(l)
    <3>1. PICK a \in OfLog(l, "assistant") : \E c \in l[a].calls : m[i].calls = {c}
      BY <2>1, <2>3, Zenon
    <3>2. a < i
      BY <1>2, <1>3, <2>1, <2>3, <3>1
    <3>3. QED
      BY <1>1, <1>3, <3>1, <3>2, Zenon
  <2>4. i <= Len(l) \/ i > Len(l)
    BY <1>2, <2>1
  <2>5. QED
    BY <2>2, <2>3, <2>4
<1>8. QED
  BY <1>4, <1>5, <1>6, <1>7, Zenon DEF Numbered

\* The compactions of a continued session.
LEMMA ContinuedSummarised ==
  ASSUME NEW l \in Seq(LogEntry), NEW m, Continues(l, m), Summarised(l),
         \A i \in DOMAIN m : i > Len(l) /\ m[i].kind = "compaction" =>
           m[i].source # {} /\ \E u \in OfLog(l, "user") : m[i].source \subseteq 1 .. u - 1
  PROVE  Summarised(m)
<1>1. /\ \A i \in DOMAIN l : m[i] = l[i]
      /\ \A sort : OfLog(l, sort) = {i \in OfLog(m, sort) : i <= Len(l)}
      /\ Len(l) \in Nat /\ DOMAIN m = 1 .. Len(m) /\ Len(m) \in Nat /\ DOMAIN l = 1 .. Len(l)
  BY ContinuedPositions
<1>2. OfLog(l, "user") \subseteq OfLog(m, "user")
  BY <1>1, Zenon
<1>3. ASSUME NEW i \in OfLog(m, "compaction")
      PROVE  m[i].source # {} /\ \E u \in OfLog(l, "user") : m[i].source \subseteq 1 .. u - 1
  <2>1. i \in DOMAIN m /\ m[i].kind = "compaction"
    BY Zenon DEF OfLog
  <2>2. CASE i <= Len(l)
    <3>1. i \in OfLog(l, "compaction") /\ m[i] = l[i]
      BY <1>1, <2>1, <2>2
    <3>2. QED
      BY <3>1, Zenon DEF Summarised
  <2>3. CASE i > Len(l)
    BY <2>1, <2>3, Zenon
  <2>4. i <= Len(l) \/ i > Len(l)
    BY <1>1, <2>1
  <2>5. QED
    BY <2>2, <2>3, <2>4
<1>4. QED
  BY <1>2, <1>3, Zenon DEF Summarised

\* Markers change nothing of a session's compactions.
LEMMA RemarkedSummarised ==
  ASSUME NEW l, NEW m, l \in Seq(LogEntry), Remarked(l, m), Summarised(l)
  PROVE  Summarised(m)
<1>1. OfLog(m, "compaction") = OfLog(l, "compaction") /\ OfLog(m, "user") = OfLog(l, "user")
  BY RemarkedKeeps
<1>2. \A i \in DOMAIN l : m[i].source = l[i].source
  BY DEF Remarked
<1>3. \A i \in OfLog(l, "compaction") : m[i].source = l[i].source
  BY <1>2, Zenon DEF OfLog
<1>4. QED
  BY <1>1, <1>3, Zenon DEF Summarised

\* A view shows everything behind the last question but compactions.
LEMMA HiddenBehind ==
  ASSUME NEW l \in Seq(LogEntry), Summarised(l), NEW i \in DOMAIN l, l[i].kind # "compaction",
         \A u \in OfLog(l, "user") : u < i
  PROVE  i \notin Hidden(l)
<1> DEFINE compactions == OfLog(l, "compaction")
<1>1. i \notin compactions
  BY Zenon DEF OfLog
<1>2. CASE compactions = {}
  <2>1. Hidden(l) = {}
    BY <1>2, Zenon DEF Hidden
  <2>2. QED
    BY <2>1
<1>3. CASE compactions # {}
  <2> DEFINE newest == Newest(compactions)
             source == l[newest].source
  <2>1. Len(l) \in Nat /\ compactions \in SUBSET (1 .. Len(l))
    BY DEF OfLog
  <2>2. newest \in compactions
    <3> HIDE DEF compactions
    <3>1. QED
      BY <1>3, <2>1, NewestIsGreatest
  <2>3. PICK u \in OfLog(l, "user") : source \subseteq 1 .. u - 1
    BY <2>2, Zenon DEF Summarised
  <2>4. source # {}
    BY <2>2, Zenon DEF Summarised
  <2>5. u \in Nat /\ u - 1 \in Nat /\ u < i /\ i \in Nat
    <3>1. u \in 1 .. Len(l) /\ i \in 1 .. Len(l)
      BY DEF OfLog
    <3>2. QED
      BY <3>1
  <2>6. Hidden(l) = compactions \cup (1 .. Newest(source))
    BY <1>3, Zenon DEF Hidden
  <2> HIDE DEF source, compactions, newest
  <2>7. Newest(source) \in source
    BY <2>3, <2>4, <2>5, NewestIsGreatest
  <2>8. Newest(source) \in 1 .. u - 1
    BY <2>3, <2>7, Zenon
  <2>9. i \notin 1 .. Newest(source)
    BY <2>5, <2>8
  <2>10. QED
    BY <1>1, <2>6, <2>9 DEF compactions
<1>4. QED
  BY <1>2, <1>3
\* The entries a session gets.
LEMMA FreshTyped ==
  ASSUME NEW sort \in {"user", "assistant", "tool_result", "compaction"}
  PROVE  Fresh(sort) \in LogEntry /\ Fresh(sort).kind = sort
BY DEF Fresh, LogEntry, Texts

LEMMA AnswerTyped ==
  ASSUME NEW calls \in SUBSET PassCall, NEW e, e = [Fresh("assistant") EXCEPT !.calls = calls]
  PROVE  e \in LogEntry /\ e.kind = "assistant" /\ e.calls = calls
BY DEF Fresh, LogEntry, Texts

ResultOf(calls, failed) == [Fresh("tool_result") EXCEPT !.calls = calls, !.failed = failed]

LEMMA ResultTyped ==
  ASSUME NEW calls \in SUBSET PassCall, NEW failed \in BOOLEAN
  PROVE  /\ ResultOf(calls, failed) \in LogEntry /\ ResultOf(calls, failed).kind = "tool_result"
         /\ ResultOf(calls, failed).calls = calls
BY DEF ResultOf, Fresh, LogEntry, Texts

LEMMA CompactionTyped ==
  ASSUME NEW source \in SUBSET Nat, NEW e, e = [Fresh("compaction") EXCEPT !.source = source]
  PROVE  e \in LogEntry /\ e.kind = "compaction" /\ e.source = source
BY DEF Fresh, LogEntry, Texts

\* Where nothing has been restored there is nothing to say of it.
LEMMA NothingRestored ==
  /\ passRestored = <<>> => RestoresLatest
  /\ passRestored' = <<>> => RestoresLatest'
<1>1. DOMAIN <<>> = {}
  OBVIOUS
<1>2. QED
  BY <1>1, Zenon DEF RestoresLatest

\* What the invariant gives of the types.
LEMMA PassTypes ==
  ASSUME PassInv
  PROVE  /\ passConfig \in Config /\ passLog \in Seq(LogEntry)
         /\ Len(passLog) \in Nat /\ DOMAIN passLog = 1 .. Len(passLog)
         /\ MaxLog \in Nat /\ MaxPassCalls \in Nat /\ Made(passLog) \in Nat
<1>1. passConfig \in Config /\ passLog \in Seq(LogEntry)
  BY PassAssumption DEF PassInv, PassTypeOK
<1>2. MaxLog \in Nat /\ MaxPassCalls \in Nat
  BY PassAssumption
<1>3. IsFiniteSet(CallsOf(passLog, OfLog(passLog, "assistant")))
  BY Zenon DEF PassInv, Numbered
<1>4. Made(passLog) \in Nat
  BY <1>3, FS_CardinalityType DEF Made
<1>5. QED
  BY <1>1, <1>2, <1>4

LEMMA PassInitHolds == PassBlank => PassInv
<1> SUFFICES ASSUME PassBlank PROVE PassInv
  OBVIOUS
<1>1. /\ passStage = "blank" /\ passConfig = Only(PassConfigs) /\ passLog = <<>>
      /\ passSeen = {} /\ passRestored = <<>>
  BY DEF PassBlank
<1>2. passConfig \in PassConfigs
  BY <1>1, PassAssumption DEF Only
<1>3. \A sort : OfLog(<<>>, sort) = {}
  BY DEF OfLog
<1>4. CallsOf(<<>>, {}) = {}
  BY DEF CallsOf
<1>5. Made(<<>>) = 0 /\ IsFiniteSet({})
  BY <1>3, <1>4, FS_EmptySet DEF Made
<1>6. Numbered(<<>>) /\ Summarised(<<>>)
  BY <1>3, <1>4, <1>5, Zenon DEF Numbered, Summarised
<1>7. MaxLog \in Nat /\ MaxPassCalls \in Nat
  BY PassAssumption
<1>8. Made(passLog) <= MaxPassCalls
  BY <1>1, <1>5, <1>7
<1>9. PassTypeOK
  <2>1. passLog \in Seq(LogEntry) /\ Len(passLog) <= MaxLog + 1
    BY <1>1, <1>7
  <2>2. passRestored \in Seq([at : DOMAIN passLog, text : Texts])
    BY <1>1
  <2>3. QED
    BY <1>1, <1>2, <2>1, <2>2 DEF PassTypeOK
<1>10. RestoresLatest
  BY <1>1, NothingRestored
<1>11. Numbered(passLog) /\ Summarised(passLog)
  BY <1>1, <1>6, Zenon
<1>12. QED
  BY <1>1, <1>8, <1>9, <1>10, <1>11 DEF PassInv

LEMMA StartKeepsPasses == PassInv /\ StartPasses => PassInv'
<1> SUFFICES ASSUME PassInv, StartPasses PROVE PassInv'
  OBVIOUS
<1>1. /\ passStage = "blank" /\ passStage' = "user" /\ passConfig' \in PassConfigs
      /\ passLog' = passLog /\ passSeen' = passSeen /\ passRestored' = passRestored
  BY DEF StartPasses
<1>2. passRestored = <<>>
  BY <1>1 DEF PassInv
<1>3. PassTypeOK'
  BY <1>1 DEF PassInv, PassTypeOK
<1>4. RestoresLatest'
  BY <1>1, <1>2, NothingRestored
<1>5. Numbered(passLog') /\ Made(passLog') <= MaxPassCalls /\ Summarised(passLog')
  BY <1>1, Zenon DEF PassInv
<1>6. QED
  BY <1>1, <1>2, <1>3, <1>4, <1>5 DEF PassInv

LEMMA GiveUpKeepsPasses == PassInv /\ GiveUp => PassInv'
<1> SUFFICES ASSUME PassInv, GiveUp PROVE PassInv'
  OBVIOUS
<1>1. /\ passStage' = "user" /\ passConfig' = passConfig
      /\ passLog' = passLog /\ passSeen' = passSeen /\ passRestored' = <<>>
  BY DEF GiveUp
<1>2. PassTypeOK'
  <2>1. passRestored' \in Seq([at : DOMAIN passLog', text : Texts])
    BY <1>1
  <2>2. QED
    BY <1>1, <2>1 DEF PassInv, PassTypeOK
<1>3. RestoresLatest'
  BY <1>1, NothingRestored
<1>4. Numbered(passLog') /\ Made(passLog') <= MaxPassCalls /\ Summarised(passLog')
  BY <1>1, Zenon DEF PassInv
<1>5. QED
  BY <1>1, <1>2, <1>3, <1>4 DEF PassInv

\* A question has no results behind it.
LEMMA SpeakKeepsPasses == PassInv /\ Speak => PassInv' /\ Continues(passLog, passLog')
<1> SUFFICES ASSUME PassInv, Speak PROVE PassInv' /\ Continues(passLog, passLog')
  OBVIOUS
<1>1. /\ passStage = "user" /\ passStage' = "due" /\ Len(passLog) < MaxLog
      /\ passLog' = Append(passLog, Fresh("user"))
      /\ passConfig' = passConfig /\ passSeen' = passSeen /\ passRestored' = passRestored
  BY DEF Speak
<1>2. passRestored = <<>>
  BY <1>1 DEF PassInv
<1>3. Fresh("user") \in LogEntry /\ Fresh("user").kind = "user"
  BY FreshTyped
<1>4. /\ passLog \in Seq(LogEntry) /\ Len(passLog) \in Nat /\ MaxLog \in Nat
      /\ DOMAIN passLog = 1 .. Len(passLog)
  BY PassTypes
<1>5. /\ Continues(passLog, passLog') /\ Len(passLog') = Len(passLog) + 1
      /\ passLog'[Len(passLog) + 1] = Fresh("user")
  BY <1>1, <1>3, <1>4, AppendContinues
<1>6. passLog' \in Seq(LogEntry) /\ DOMAIN passLog' = 1 .. Len(passLog) + 1
  BY <1>5 DEF Continues
<1>7. ASSUME NEW i \in DOMAIN passLog', i > Len(passLog)
      PROVE  i = Len(passLog) + 1 /\ passLog'[i].kind = "user"
  BY <1>3, <1>4, <1>5, <1>6, <1>7
<1>8. Numbered(passLog')
  <2>1. Numbered(passLog)
    BY DEF PassInv
  <2>2. QED
    BY <1>4, <1>5, <1>7, <2>1, ContinuedNumbered
<1>9. Made(passLog') = Made(passLog)
  BY <1>4, <1>5, <1>7, ContinuedCalls
<1>10. Summarised(passLog')
  <2>1. Summarised(passLog)
    BY DEF PassInv
  <2>2. QED
    BY <1>4, <1>5, <1>7, <2>1, ContinuedSummarised
<1>11. PassTypeOK'
  <2>1. Len(passLog') <= MaxLog + 1
    BY <1>1, <1>4, <1>5
  <2>2. passRestored' \in Seq([at : DOMAIN passLog', text : Texts])
    BY <1>1, <1>2
  <2>3. QED
    BY <1>1, <1>6, <2>1, <2>2 DEF PassInv, PassTypeOK
<1>12. Len(passLog') <= MaxLog
  BY <1>1, <1>4, <1>5
<1>13. Shown'
  <2> DEFINE u == Len(passLog) + 1
  <2>1. u \in OfLog(passLog', "user")
    <3>1. u \in DOMAIN passLog'
      BY <1>4, <1>6
    <3>2. passLog'[u].kind = "user"
      BY <1>3, <1>5
    <3> HIDE DEF u
    <3>3. QED
      BY <3>1, <3>2, Zenon DEF OfLog
  <2>2. \A i \in OfLog(passLog', "tool_result") : ~ (u < i)
    <3>1. \A i \in DOMAIN passLog' : ~ (u < i)
      BY <1>4, <1>6
    <3>2. QED
      BY <3>1, Zenon DEF OfLog
  <2>3. QED
    BY <2>1, <2>2, Zenon DEF Shown
<1>14. RestoresLatest'
  BY <1>1, <1>2, NothingRestored
<1>15. Made(passLog') <= MaxPassCalls
  BY <1>9 DEF PassInv
<1>16. passStage' = "due" /\ passRestored' = <<>>
  BY <1>1, <1>2
<1>17. QED
  BY <1>5, <1>8, <1>10, <1>11, <1>12, <1>13, <1>14, <1>15, <1>16 DEF PassInv

\* The calls of an answer have the next numbers.
NextCalls(made, n, named) ==
  {[id |-> made + k, tool |-> named[k][1], path |-> named[k][2]] : k \in 1 .. n}

LEMMA NextNumbers ==
  ASSUME NEW made \in Nat, NEW n \in Nat, NEW named \in [1 .. n -> PassTools \X Paths]
  PROVE  LET new == NextCalls(made, n, named)
         IN /\ new \in SUBSET PassCall /\ IsFiniteSet(new) /\ Cardinality(new) = n
            /\ {c.id : c \in new} = made + 1 .. made + n
            /\ \A c, d \in new : c.id = d.id => c = d
<1> DEFINE call(k) == [id |-> made + k, tool |-> named[k][1], path |-> named[k][2]]
           new     == {call(k) : k \in 1 .. n}
           f       == [k \in 1 .. n |-> call(k)]
<1>1. \A k \in 1 .. n : call(k) \in PassCall
  <2> SUFFICES ASSUME NEW k \in 1 .. n PROVE call(k) \in PassCall
    OBVIOUS
  <2>1. named[k] \in PassTools \X Paths
    OBVIOUS
  <2>2. named[k][1] \in PassTools /\ named[k][2] \in Paths /\ made + k \in Nat
    BY <2>1
  <2>3. QED
    BY <2>2 DEF PassCall
<1>2. \A k \in 1 .. n : call(k).id = made + k
  OBVIOUS
<1> HIDE DEF call
<1>3. \A k, m \in 1 .. n : call(k).id = call(m).id => k = m
  BY <1>2
<1>4. f \in Surjection(1 .. n, new) /\ f \in Injection(1 .. n, new)
  <2>1. f \in [1 .. n -> new]
    OBVIOUS
  <2>2. \A x \in new : \E k \in 1 .. n : f[k] = x
    OBVIOUS
  <2>3. \A k, m \in 1 .. n : f[k] = f[m] => k = m
    BY <1>3
  <2> HIDE DEF f, new
  <2>4. QED
    BY <2>1, <2>2, <2>3 DEF Surjection, Injection, IsInjective
<1>5. IsFiniteSet(1 .. n) /\ Cardinality(1 .. n) = n
  BY FS_Interval
<1>6. IsFiniteSet(new) /\ Cardinality(new) = n
  <2> HIDE DEF f, new
  <2>1. QED
    BY <1>4, <1>5, FS_Surjection
<1>7. {c.id : c \in new} = made + 1 .. made + n
  <2>1. \A c \in new : c.id \in made + 1 .. made + n
    BY <1>2
  <2>2. \A x \in made + 1 .. made + n : \E c \in new : c.id = x
    <3> SUFFICES ASSUME NEW x \in made + 1 .. made + n PROVE \E c \in new : c.id = x
      OBVIOUS
    <3>1. x - made \in 1 .. n /\ made + (x - made) = x
      OBVIOUS
    <3>2. call(x - made) \in new /\ call(x - made).id = x
      BY <1>2, <3>1
    <3>3. QED
      BY <3>2
  <2> HIDE DEF new
  <2>3. QED
    BY <2>1, <2>2
<1>8. \A c, d \in new : c.id = d.id => c = d
  BY <1>3
<1>9. new \in SUBSET PassCall
  BY <1>1
<1>10. QED
  BY <1>6, <1>7, <1>8, <1>9, Zenon DEF call, NextCalls
\* An answer's calls follow all others, and what is not shown stays what it was.
LEMMA ModelRepliesKeepsPasses == PassInv /\ ModelReplies => PassInv' /\ Continues(passLog, passLog')
<1> SUFFICES ASSUME PassInv, ModelReplies PROVE PassInv' /\ Continues(passLog, passLog')
  OBVIOUS
<1>1. /\ passStage = "asked" /\ Len(passLog) < MaxLog
      /\ passRestored' = <<>> /\ passConfig' = passConfig /\ passSeen' = passSeen
  BY DEF ModelReplies
<1>0. PICK n \in 0 .. 2 :
        /\ Made(passLog) + n <= MaxPassCalls
        /\ \E named \in [1 .. n -> PassTools \X Paths] :
             passLog' = Append(passLog, [Fresh("assistant") EXCEPT !.calls = NextCalls(Made(passLog), n, named)])
        /\ passStage' = IF n = 0 THEN "user" ELSE "calls"
  BY Zenon DEF ModelReplies, NextCalls
<1>2. PICK named \in [1 .. n -> PassTools \X Paths] :
        passLog' = Append(passLog, [Fresh("assistant") EXCEPT !.calls = NextCalls(Made(passLog), n, named)])
  BY <1>0, Zenon
<1> DEFINE new  == NextCalls(Made(passLog), n, named)
           made == Made(passLog)
           len  == Len(passLog)
           e    == [Fresh("assistant") EXCEPT !.calls = new]
<1>3. /\ passLog \in Seq(LogEntry) /\ len \in Nat /\ MaxLog \in Nat /\ made \in Nat
      /\ DOMAIN passLog = 1 .. len /\ MaxPassCalls \in Nat
  BY PassTypes
<1>4. n \in Nat
  BY <1>0
<1>5. /\ new \in SUBSET PassCall /\ IsFiniteSet(new) /\ Cardinality(new) = n
      /\ {c.id : c \in new} = made + 1 .. made + n
      /\ \A c, d \in new : c.id = d.id => c = d
  <2> HIDE DEF made
  <2>1. QED
    BY <1>2, <1>3, <1>4, NextNumbers DEF made
<1> HIDE DEF new
<1>6. e \in LogEntry /\ e.kind = "assistant" /\ e.calls = new
  <2> HIDE DEF e
  <2>1. QED
    BY <1>5, AnswerTyped DEF e
<1>7. /\ Continues(passLog, passLog') /\ Len(passLog') = len + 1 /\ passLog'[len + 1] = e
  <2> HIDE DEF e
  <2>1. passLog' = Append(passLog, e)
    BY <1>2 DEF e, new
  <2>2. QED
    BY <1>3, <1>6, <2>1, AppendContinues
<1> HIDE DEF e
<1>8. passLog' \in Seq(LogEntry) /\ DOMAIN passLog' = 1 .. len + 1
  BY <1>7 DEF Continues
<1>9. \A i \in DOMAIN passLog : passLog'[i] = passLog[i] /\ i \in DOMAIN passLog' /\ i # len + 1
  BY <1>3, <1>7, <1>8 DEF Continues
<1>10. \A i \in DOMAIN passLog' : i \in DOMAIN passLog \/ i = len + 1
  BY <1>3, <1>8
<1>11. /\ OfLog(passLog', "assistant") = OfLog(passLog, "assistant") \cup {len + 1}
       /\ OfLog(passLog', "tool_result") = OfLog(passLog, "tool_result")
       /\ OfLog(passLog', "user") = OfLog(passLog, "user")
       /\ len + 1 \in DOMAIN passLog'
  <2>1. len + 1 \in DOMAIN passLog'
    BY <1>3, <1>8
  <2>2. passLog'[len + 1].kind = "assistant"
    BY <1>6, <1>7
  <2>3. passLog'[len + 1].kind # "tool_result" /\ passLog'[len + 1].kind # "user"
    BY <2>2
  <2>4. QED
    BY <1>9, <1>10, <2>1, <2>2, <2>3, Zenon DEF OfLog
<1>12. \A a \in OfLog(passLog, "assistant") : passLog'[a].calls = passLog[a].calls
  BY <1>9, Zenon DEF OfLog
<1>13. passLog'[len + 1].calls = new
  BY <1>6, <1>7
<1> DEFINE old == CallsOf(passLog, OfLog(passLog, "assistant"))
<1>14. CallsOf(passLog', OfLog(passLog', "assistant")) = old \cup new
  <2>1. ASSUME NEW c
        PROVE  c \in CallsOf(passLog', OfLog(passLog', "assistant"))
               <=> \E a \in OfLog(passLog', "assistant") : c \in passLog'[a].calls
    BY Zenon DEF CallsOf
  <2>2. ASSUME NEW c
        PROVE  c \in old <=> \E a \in OfLog(passLog, "assistant") : c \in passLog[a].calls
    BY Zenon DEF CallsOf
  <2> HIDE DEF old, len
  <2>3. ASSUME NEW c
        PROVE  (\E a \in OfLog(passLog', "assistant") : c \in passLog'[a].calls)
               <=> (\E a \in OfLog(passLog, "assistant") : c \in passLog[a].calls) \/ c \in new
    BY <1>11, <1>12, <1>13, Zenon
  <2>4. \A c : c \in CallsOf(passLog', OfLog(passLog', "assistant")) <=> c \in old \/ c \in new
    BY <2>1, <2>2, <2>3, Zenon
  <2>5. QED
    BY <2>4, Zenon
<1>15. IsFiniteSet(old) /\ made = Cardinality(old)
  BY Zenon DEF PassInv, Numbered, Made
<1>16. /\ \A c \in old : c.id \in 1 .. made
       /\ \A c \in new : c.id \in made + 1 .. made + n
  <2>1. ASSUME NEW c \in old PROVE c.id \in 1 .. made
    <3>1. PICK a \in OfLog(passLog, "assistant") : c \in passLog[a].calls
      BY Zenon DEF CallsOf
    <3>2. Numbered(passLog)
      BY DEF PassInv
    <3>3. QED
      BY <3>1, <3>2, Zenon DEF Numbered
  <2>2. \A c \in new : c.id \in {d.id : d \in new}
    BY Zenon
  <2>3. QED
    BY <1>5, <2>1, <2>2, Zenon
<1> HIDE DEF old
<1>17. old \cap new = {}
  <2>1. ASSUME NEW c \in old, c \in new PROVE FALSE
    <3>1. c.id \in 1 .. made /\ c.id \in made + 1 .. made + n
      BY <1>16, <2>1, Zenon
    <3> HIDE DEF made
    <3>2. QED
      BY <1>3, <3>1
  <2>2. QED
    BY <2>1
<1>18. /\ IsFiniteSet(CallsOf(passLog', OfLog(passLog', "assistant")))
       /\ Made(passLog') = made + n
  <2>3. /\ IsFiniteSet(old \cup new)
        /\ Cardinality(old \cup new) = Cardinality(old) + Cardinality(new) - Cardinality(old \cap new)
    BY <1>5, <1>15, FS_Union
  <2>1. /\ IsFiniteSet(old \cup new)
        /\ Cardinality(old \cup new) = Cardinality(old) + Cardinality(new) - Cardinality({})
    BY <1>17, <2>3, Zenon
  <2>2. Cardinality(old \cup new) = made + n
    BY <1>3, <1>4, <1>5, <1>15, <2>1, FS_EmptySet
  <2> HIDE DEF made
  <2>4. QED
    BY <1>14, <2>1, <2>2, Zenon DEF Made
<1>19. Numbered(passLog')
  <2> HIDE DEF made
  <2>1. ASSUME NEW a \in OfLog(passLog', "assistant"), NEW c \in passLog'[a].calls
        PROVE  c.id \in 1 .. made + n
    <3>1. CASE a \in OfLog(passLog, "assistant")
      <4>1. c \in old
        BY <1>12, <2>1, <3>1, Zenon DEF old, CallsOf
      <4>2. c.id \in 1 .. made
        BY <1>16, <4>1
      <4>3. QED
        BY <1>3, <1>4, <4>2
    <3>2. CASE a = len + 1
      <4>1. c.id \in made + 1 .. made + n
        BY <1>13, <1>16, <2>1, <3>2, Zenon
      <4>2. QED
        BY <1>3, <1>4, <4>1
    <3>3. QED
      BY <1>11, <2>1, <3>1, <3>2, Zenon
  <2>2. ASSUME NEW a \in OfLog(passLog', "assistant"), NEW b \in OfLog(passLog', "assistant"),
               NEW c \in passLog'[a].calls, NEW d \in passLog'[b].calls
        PROVE  (a < b => c.id < d.id) /\ (c.id = d.id => c = d)
    <3>1. a \in OfLog(passLog, "assistant") => a \in 1 .. len /\ c \in passLog[a].calls /\ c.id \in 1 .. made
      <4>1. SUFFICES ASSUME a \in OfLog(passLog, "assistant")
                     PROVE  a \in 1 .. len /\ c \in passLog[a].calls /\ c.id \in 1 .. made
        OBVIOUS
      <4>2. c \in passLog[a].calls
        BY <1>12, <2>2, <4>1, Zenon
      <4>3. c \in old
        BY <4>1, <4>2, Zenon DEF old, CallsOf
      <4>4. a \in 1 .. len
        BY <1>3, <4>1, Zenon DEF OfLog
      <4>5. QED
        BY <1>16, <4>2, <4>3, <4>4, Zenon
    <3>2. b \in OfLog(passLog, "assistant") => b \in 1 .. len /\ d \in passLog[b].calls /\ d.id \in 1 .. made
      <4>1. SUFFICES ASSUME b \in OfLog(passLog, "assistant")
                     PROVE  b \in 1 .. len /\ d \in passLog[b].calls /\ d.id \in 1 .. made
        OBVIOUS
      <4>2. d \in passLog[b].calls
        BY <1>12, <2>2, <4>1, Zenon
      <4>3. d \in old
        BY <4>1, <4>2, Zenon DEF old, CallsOf
      <4>4. b \in 1 .. len
        BY <1>3, <4>1, Zenon DEF OfLog
      <4>5. QED
        BY <1>16, <4>2, <4>3, <4>4, Zenon
    <3>3. a = len + 1 => c \in new /\ c.id \in made + 1 .. made + n
      BY <1>13, <1>16, <2>2, Zenon
    <3>4. b = len + 1 => d \in new /\ d.id \in made + 1 .. made + n
      BY <1>13, <1>16, <2>2, Zenon
    <3>5. a \in OfLog(passLog, "assistant") \/ a = len + 1
      BY <1>11, <2>2, Zenon
    <3>6. b \in OfLog(passLog, "assistant") \/ b = len + 1
      BY <1>11, <2>2, Zenon
    <3> HIDE DEF len
    <3>7. CASE a \in OfLog(passLog, "assistant") /\ b \in OfLog(passLog, "assistant")
      <4>1. Numbered(passLog)
        BY DEF PassInv
      <4>2. QED
        BY <3>1, <3>2, <3>7, <4>1 DEF Numbered
    <3>8. CASE a \in OfLog(passLog, "assistant") /\ b = len + 1
      BY <1>3, <1>4, <3>1, <3>4, <3>8
    <3>9. CASE a = len + 1 /\ b \in OfLog(passLog, "assistant")
      BY <1>3, <1>4, <3>2, <3>3, <3>9
    <3>10. CASE a = len + 1 /\ b = len + 1
      <4>1. ~ (a < b)
        BY <1>3, <3>10
      <4>2. c = d \/ c.id # d.id
        BY <1>5, <3>3, <3>4, <3>10, Zenon
      <4>3. QED
        BY <4>1, <4>2, Zenon
    <3>11. QED
      BY <3>5, <3>6, <3>7, <3>8, <3>9, <3>10, Zenon
  <2>3. ASSUME NEW i \in OfLog(passLog', "tool_result")
        PROVE  \E a \in OfLog(passLog', "assistant") :
                 a < i /\ \E c \in passLog'[a].calls : passLog'[i].calls = {c}
    <3>1. i \in OfLog(passLog, "tool_result") /\ i \in DOMAIN passLog
      BY <1>11, <2>3, Zenon DEF OfLog
    <3>2. PICK a \in OfLog(passLog, "assistant") : a < i /\ \E c \in passLog[a].calls : passLog[i].calls = {c}
      BY <3>1, Zenon DEF PassInv, Numbered
    <3>3. passLog'[i].calls = passLog[i].calls
      BY <1>9, <3>1, Zenon
    <3>4. QED
      BY <1>11, <1>12, <3>2, <3>3, Zenon
  <2>4. \A a \in OfLog(passLog', "assistant") : \A c \in passLog'[a].calls : c.id \in 1 .. Made(passLog')
    BY <1>18, <2>1
  <2>5. QED
    BY <1>18, <2>2, <2>3, <2>4, Zenon DEF Numbered
<1>20. Summarised(passLog')
  <2>1. Summarised(passLog)
    BY DEF PassInv
  <2>2. \A i \in DOMAIN passLog' : i > len => passLog'[i].kind = "assistant"
    BY <1>3, <1>6, <1>7, <1>8
  <2>3. \A i \in DOMAIN passLog' : ~ (i > len /\ passLog'[i].kind = "compaction")
    BY <2>2
  <2> HIDE DEF len
  <2>4. QED
    BY <1>3, <1>7, <2>1, <2>3, ContinuedSummarised DEF len
<1>21. PassTypeOK'
  <2>1. Len(passLog') <= MaxLog + 1
    BY <1>1, <1>3, <1>7
  <2>2. passRestored' \in Seq([at : DOMAIN passLog', text : Texts])
    BY <1>1
  <2>3. passStage' \in {"user", "calls"}
    BY <1>0
  <2>4. QED
    BY <1>1, <1>8, <2>1, <2>2, <2>3 DEF PassInv, PassTypeOK
<1>22. Len(passLog') <= MaxLog
  BY <1>1, <1>3, <1>7
<1>23. LastCalls(passLog')
  <2>1. Len(passLog') > 0 /\ passLog'[Len(passLog')].kind = "assistant" /\ passLog'[Len(passLog')].calls = new
    BY <1>3, <1>6, <1>7
  <2>2. Made(passLog') - Cardinality(new) + 1 = made + 1 /\ Made(passLog') = made + n
    BY <1>3, <1>4, <1>5, <1>18
  <2>3. QED
    BY <1>5, <2>1, <2>2 DEF LastCalls
<1>24. Shown'
  <2>1. Shown
    BY <1>1 DEF PassInv
  <2>2. \A i \in OfLog(passLog, "tool_result") :
          /\ passLog'[i].text = passLog[i].text
          /\ ResultCall(passLog', i) = ResultCall(passLog, i)
    BY <1>9, Zenon DEF OfLog, ResultCall
  <2>3. passStage # "due"
    BY <1>1
  <2>4. QED
    BY <1>1, <1>11, <2>1, <2>2, <2>3, Zenon DEF Shown
<1>25. RestoresLatest'
  BY <1>1, NothingRestored
<1>26. Made(passLog') <= MaxPassCalls
  BY <1>0, <1>18
<1>27. QED
  BY <1>1, <1>7, <1>19, <1>20, <1>21, <1>22, <1>23, <1>24, <1>25, <1>26 DEF PassInv
\* So do the entries of another.
LEMMA ConcatContinues ==
  ASSUME NEW l \in Seq(LogEntry), NEW s \in Seq(LogEntry)
  PROVE  /\ Continues(l, l \o s) /\ Len(l \o s) = Len(l) + Len(s)
         /\ \A k \in 1 .. Len(s) : (l \o s)[Len(l) + k] = s[k]
BY DEF Continues

\* The batch's results are those of the last answer.
LEMMA ReportKeepsPasses == PassInv /\ Report => PassInv' /\ Continues(passLog, passLog')
<1> SUFFICES ASSUME PassInv, Report PROVE PassInv' /\ Continues(passLog, passLog')
  OBVIOUS
<1> DEFINE calls == passLog[Len(passLog)].calls
           n     == Cardinality(calls)
           len   == Len(passLog)
           made  == Made(passLog)
           CallAt(k) == {c \in calls : c.id = made - n + k}
<1>1. /\ passStage = "calls" /\ passStage' = "due" /\ len + n <= MaxLog
      /\ passConfig' = passConfig /\ passSeen' = passSeen /\ passRestored' = passRestored
  BY DEF Report
<1>2. PICK failed \in [1 .. n -> BOOLEAN] :
        passLog' = passLog \o [k \in 1 .. n |-> ResultOf(CallAt(k), failed[k])]
  BY Zenon DEF Report, ResultOf
<1> DEFINE added == [k \in 1 .. n |-> ResultOf(CallAt(k), failed[k])]
<1>3. /\ passLog \in Seq(LogEntry) /\ len \in Nat /\ MaxLog \in Nat /\ made \in Nat
      /\ DOMAIN passLog = 1 .. len
  BY PassTypes
<1>4. /\ len > 0 /\ passLog[len].kind = "assistant"
      /\ {c.id : c \in calls} = made - n + 1 .. made
  BY <1>1, Zenon DEF PassInv, LastCalls
<1>5. len \in OfLog(passLog, "assistant")
  <2>1. len \in DOMAIN passLog
    BY <1>3, <1>4
  <2>2. QED
    BY <1>4, <2>1, Zenon DEF OfLog
<1>6. Numbered(passLog)
  BY DEF PassInv
<1>7. IsFiniteSet(calls) /\ n \in Nat
  <2>1. calls \subseteq CallsOf(passLog, OfLog(passLog, "assistant"))
    BY <1>5, Zenon DEF CallsOf
  <2> HIDE DEF calls
  <2>2. IsFiniteSet(CallsOf(passLog, OfLog(passLog, "assistant")))
    BY <1>6, Zenon DEF Numbered
  <2>3. QED
    BY <2>1, <2>2, FS_Subset, FS_CardinalityType
<1>8. calls \in SUBSET PassCall
  <2>1. passLog[len] \in LogEntry
    BY <1>3, <1>4
  <2>2. QED
    BY <2>1 DEF LogEntry
<1>9. ASSUME NEW k \in 1 .. n
      PROVE  \E c \in calls : CallAt(k) = {c}
  <2> HIDE DEF n, made
  <2>1. made - n + k \in made - n + 1 .. made
    BY <1>3, <1>7
  <2>2. PICK c \in calls : c.id = made - n + k
    <3> HIDE DEF calls
    <3>1. made - n + k \in {c.id : c \in calls}
      BY <1>4, <2>1, Zenon
    <3>2. QED
      BY <3>1, Zenon
  <2>3. ASSUME NEW d \in calls, d.id = made - n + k
        PROVE  d = c
    <3>1. d.id = c.id
      BY <2>2, <2>3, Zenon
    <3>2. \A x, y \in calls : x.id = y.id => x = y
      <4>1. \A a, b \in OfLog(passLog, "assistant") :
              \A x \in passLog[a].calls, y \in passLog[b].calls : x.id = y.id => x = y
        BY <1>6 DEF Numbered
      <4>2. QED
        BY <1>5, <4>1, Zenon
    <3>3. QED
      BY <2>2, <2>3, <3>1, <3>2, Zenon
  <2> HIDE DEF calls
  <2>4. QED
    BY <2>2, <2>3, Zenon
<1>10. ASSUME NEW k \in 1 .. n
       PROVE  /\ added[k] \in LogEntry /\ added[k].kind = "tool_result"
              /\ \E c \in calls : added[k].calls = {c}
  <2>1. CallAt(k) \in SUBSET PassCall
    BY <1>8
  <2> HIDE DEF CallAt
  <2>2. added[k] = ResultOf(CallAt(k), failed[k])
    OBVIOUS
  <2>3. failed[k] \in BOOLEAN
    OBVIOUS
  <2> HIDE DEF added
  <2>4. added[k] \in LogEntry /\ added[k].kind = "tool_result" /\ added[k].calls = CallAt(k)
    BY <2>1, <2>2, <2>3, ResultTyped
  <2>5. QED
    BY <1>9, <2>4, Zenon DEF CallAt
<1>11. passLog' = passLog \o added /\ DOMAIN added = 1 .. n
  BY <1>2
<1> HIDE DEF added, CallAt, n, made
<1>12. added \in Seq(LogEntry) /\ Len(added) = n
  <2>1. added \in [1 .. n -> LogEntry]
    <3>1. added = [k \in 1 .. n |-> added[k]]
      BY <1>11 DEF added
    <3>2. QED
      BY <1>10, <3>1, Zenon
  <2>2. QED
    BY <1>7, <2>1
<1>13. /\ Continues(passLog, passLog') /\ Len(passLog') = len + n
       /\ \A k \in 1 .. n : passLog'[len + k] = added[k]
  BY <1>3, <1>11, <1>12, ConcatContinues
<1>14. passLog' \in Seq(LogEntry) /\ DOMAIN passLog' = 1 .. len + n
  <2>1. passLog' \in Seq(LogEntry)
    BY <1>13 DEF Continues
  <2>2. DOMAIN passLog' = 1 .. Len(passLog')
    BY <2>1
  <2>3. QED
    BY <1>13, <2>1, <2>2, Zenon
<1>15. ASSUME NEW i \in DOMAIN passLog', i > len
       PROVE  passLog'[i].kind = "tool_result" /\ \E c \in calls : passLog'[i].calls = {c}
  <2>1. i - len \in 1 .. n /\ len + (i - len) = i
    <3>1. i \in 1 .. len + n /\ len \in Nat /\ n \in Nat /\ i > len
      BY <1>3, <1>7, <1>14, <1>15, Zenon
    <3> HIDE DEF len, calls
    <3>2. QED
      BY <3>1
  <2>2. passLog'[i] = added[i - len]
    BY <1>13, <2>1
  <2>3. QED
    BY <1>10, <2>1, <2>2, Zenon
<1>16. ASSUME NEW i \in DOMAIN passLog', i > len
       PROVE  /\ passLog'[i].kind = "tool_result" /\ passLog'[i].kind # "assistant"
              /\ passLog'[i].kind # "compaction" /\ passLog'[i].kind # "user"
              /\ \E a \in OfLog(passLog, "assistant") : \E c \in passLog[a].calls : passLog'[i].calls = {c}
  <2>1. passLog'[i].kind = "tool_result" /\ \E c \in calls : passLog'[i].calls = {c}
    BY <1>15, <1>16
  <2>2. \E a \in OfLog(passLog, "assistant") : \E c \in passLog[a].calls : passLog'[i].calls = {c}
    BY <1>5, <2>1, Zenon
  <2>3. QED
    BY <2>1, <2>2
<1>17. Numbered(passLog')
  BY <1>3, <1>6, <1>13, <1>16, ContinuedNumbered
<1>18. /\ OfLog(passLog', "assistant") = OfLog(passLog, "assistant")
       /\ Made(passLog') = Made(passLog)
  BY <1>3, <1>13, <1>16, ContinuedCalls
<1>19. Summarised(passLog')
  <2>1. Summarised(passLog)
    BY DEF PassInv
  <2>2. \A i \in DOMAIN passLog' : ~ (i > Len(passLog) /\ passLog'[i].kind = "compaction")
    BY <1>16
  <2>3. QED
    BY <1>3, <1>13, <2>1, <2>2, ContinuedSummarised
<1>20. passRestored = <<>>
  BY <1>1 DEF PassInv
<1>21. Len(passLog') <= MaxLog /\ Len(passLog') <= MaxLog + 1
  BY <1>1, <1>3, <1>7, <1>13
<1>22. PassTypeOK'
  <2>1. passRestored' \in Seq([at : DOMAIN passLog', text : Texts])
    BY <1>1, <1>20
  <2>2. QED
    BY <1>1, <1>14, <1>21, <2>1 DEF PassInv, PassTypeOK
<1>23. Shown'
  <2>1. Shown
    BY <1>1 DEF PassInv
  <2>2. /\ \A i \in DOMAIN passLog : passLog'[i] = passLog[i] /\ ResultCall(passLog', i) = ResultCall(passLog, i)
        /\ OfLog(passLog, "user") = {i \in OfLog(passLog', "user") : i <= Len(passLog)}
        /\ OfLog(passLog, "tool_result") = {i \in OfLog(passLog', "tool_result") : i <= Len(passLog)}
    BY <1>3, <1>13, ContinuedPositions
  <2>3. \A i \in DOMAIN passLog' : i <= len \/ i > len
    BY <1>3, <1>7, <1>14
  <2>4. OfLog(passLog', "user") = OfLog(passLog, "user")
    <3>1. \A i \in OfLog(passLog', "user") : i <= len
      BY <1>16, <2>3, Zenon DEF OfLog
    <3>2. QED
      BY <2>2, <3>1, Zenon
  <2>5. ASSUME NEW i \in OfLog(passLog', "tool_result"),
               \A u \in OfLog(passLog', "user") : u < i,
               passLog'[i].text = "content", ResultCall(passLog', i).id \notin passSeen'
        PROVE  \E a \in OfLog(passLog', "assistant") :
                 /\ \A b \in OfLog(passLog', "assistant") : b <= a
                 /\ ResultCall(passLog', i) \in passLog'[a].calls
    <3>1. i \in DOMAIN passLog'
      BY <2>5, Zenon DEF OfLog
    <3>2. i > len
      <4>1. SUFFICES ASSUME ~ (i > len) PROVE FALSE
        OBVIOUS
      <4>2. i \in OfLog(passLog, "tool_result") /\ i \in DOMAIN passLog
        BY <2>2, <2>3, <2>5, <3>1, <4>1, Zenon DEF OfLog
      <4>3. passLog'[i] = passLog[i] /\ ResultCall(passLog', i) = ResultCall(passLog, i)
        BY <2>2, <4>2, Zenon
      <4>4. passStage = "due"
        BY <1>1, <2>1, <2>4, <2>5, <4>2, <4>3, Zenon DEF Shown
      <4>5. QED
        BY <1>1, <4>4
    <3>3. PICK c \in calls : passLog'[i].calls = {c}
      BY <1>15, <3>1, <3>2
    <3>4. ResultCall(passLog', i) = c
      BY <3>3, OnlyOne, Zenon DEF ResultCall
    <3>5. \A b \in OfLog(passLog, "assistant") : b <= len
      <4>1. \A b \in DOMAIN passLog : b <= len
        BY <1>3
      <4>2. QED
        BY <4>1, Zenon DEF OfLog
    <3>6. len \in DOMAIN passLog
      BY <1>5, Zenon DEF OfLog
    <3>7. passLog'[len].calls = calls
      BY <2>2, <3>6, Zenon
    <3>8. ResultCall(passLog', i) \in passLog'[len].calls
      BY <3>3, <3>4, <3>7, Zenon
    <3>9. QED
      BY <1>5, <1>18, <3>5, <3>8, Zenon
  <2>6. OfLog(passLog', "user") # {}
    BY <2>1, <2>4, Zenon DEF Shown
  <2>7. QED
    BY <1>1, <2>5, <2>6, Zenon DEF Shown
<1>24. RestoresLatest'
  BY <1>1, <1>20, NothingRestored
<1>25. Made(passLog') <= MaxPassCalls
  BY <1>18 DEF PassInv
<1>26. passStage' = "due" /\ passRestored' = <<>>
  BY <1>1, <1>20
<1>27. QED
  BY <1>13, <1>17, <1>19, <1>21, <1>22, <1>23, <1>24, <1>25, <1>26 DEF PassInv
\* What a request does to the session: the passes, and it may compact.
LEMMA RequestAppends ==
  ASSUME PassInv, Request
  PROVE  \E paused, large \in BOOLEAN :
           LET l == Passed(passLog, paused, large)
           IN /\ Remarked(passLog, l)
              /\ \/ passLog' = l /\ passRestored' = <<>>
                 \/ \E source \in SUBSET (1 .. Len(l)), e \in LogEntry :
                      /\ e.kind = "compaction" /\ e.source = source /\ source # {}
                      /\ \E u \in OfLog(l, "user") : source \subseteq 1 .. u - 1
                      /\ passLog' = Append(l, e)
                      /\ passRestored' = Restored(l, source)
<1>1. PICK paused, large \in BOOLEAN :
        \E source \in CompactionSources(Passed(passLog, paused, large)) \cup {{}} :
          /\ passLog' = IF source = {} THEN Passed(passLog, paused, large)
                        ELSE Append(Passed(passLog, paused, large), [Fresh("compaction") EXCEPT !.source = source])
          /\ passRestored' = IF source = {} THEN <<>> ELSE Restored(Passed(passLog, paused, large), source)
  BY Zenon DEF Request
<1> DEFINE l == Passed(passLog, paused, large)
<1> HIDE DEF l
<1>2. PICK source \in CompactionSources(l) \cup {{}} :
        /\ passLog' = IF source = {} THEN l ELSE Append(l, [Fresh("compaction") EXCEPT !.source = source])
        /\ passRestored' = IF source = {} THEN <<>> ELSE Restored(l, source)
  BY <1>1, Zenon DEF l
<1>3. Remarked(passLog, l)
  <2>1. passLog \in Seq(LogEntry) /\ passConfig \in Config
    BY PassTypes
  <2>2. Numbered(passLog)
    BY DEF PassInv
  <2>3. QED
    BY <2>1, <2>2, PassedSpares, Zenon DEF l
<1>4. CASE source = {}
  <2>1. passLog' = l /\ passRestored' = <<>>
    BY <1>2, <1>4, Zenon
  <2>2. QED
    BY <1>3, <2>1, Zenon DEF l
<1>5. CASE source # {}
  <2>1. source \in CompactionSources(l)
    BY <1>2, <1>5
  <2>2. PICK u \in OfLog(l, "user") : source = {i \in 1 .. u - 1 : l[i].kind # "compaction"}
    BY <2>1, Zenon DEF CompactionSources
  <2>3. source \subseteq 1 .. u - 1
    BY <2>2, Zenon
  <2>4. u \in 1 .. Len(l) /\ Len(l) \in Nat
    BY <1>3 DEF Remarked, OfLog
  <2>5. source \in SUBSET (1 .. Len(l)) /\ source \in SUBSET Nat
    BY <2>3, <2>4
  <2> DEFINE e == [Fresh("compaction") EXCEPT !.source = source]
  <2>6. passLog' = Append(l, e) /\ passRestored' = Restored(l, source)
    BY <1>2, <1>5, Zenon
  <2>7. e \in LogEntry /\ e.kind = "compaction" /\ e.source = source
    <3> HIDE DEF e
    <3>1. QED
      BY <2>5, CompactionTyped DEF e
  <2> HIDE DEF e
  <2>8. QED
    BY <1>3, <1>5, <2>3, <2>5, <2>6, <2>7, Zenon DEF l
<1>6. QED
  BY <1>4, <1>5

\* A request shows every content behind the last question, and what it restores
\* is the newest.
LEMMA RequestKeepsPasses == PassInv /\ Request => PassInv'
<1> SUFFICES ASSUME PassInv, Request PROVE PassInv'
  OBVIOUS
<1>1. PICK paused, large \in BOOLEAN :
        /\ Remarked(passLog, Passed(passLog, paused, large))
        /\ \/ passLog' = Passed(passLog, paused, large) /\ passRestored' = <<>>
           \/ \E source \in SUBSET (1 .. Len(Passed(passLog, paused, large))), e \in LogEntry :
                /\ e.kind = "compaction" /\ e.source = source /\ source # {}
                /\ \E u \in OfLog(Passed(passLog, paused, large), "user") : source \subseteq 1 .. u - 1
                /\ passLog' = Append(Passed(passLog, paused, large), e)
                /\ passRestored' = Restored(Passed(passLog, paused, large), source)
  BY RequestAppends, Zenon
<1> DEFINE l == Passed(passLog, paused, large)
<1>2. /\ passStage = "due" /\ passStage' = "asked" /\ passConfig' = passConfig
      /\ passSeen' = passSeen \cup
           {ResultCall(passLog', i).id :
              i \in {i \in OfLog(passLog', "tool_result") \ Hidden(passLog') : passLog'[i].text = "content"}}
  BY Zenon DEF Request
<1>3. /\ passLog \in Seq(LogEntry) /\ Len(passLog) \in Nat /\ MaxLog \in Nat
      /\ MaxPassCalls \in Nat
  BY PassTypes
<1>4. Numbered(passLog) /\ Made(passLog) <= MaxPassCalls /\ Summarised(passLog) /\ Len(passLog) <= MaxLog
  BY <1>2 DEF PassInv
<1>5. l \in Seq(LogEntry) /\ Len(l) = Len(passLog) /\ Numbered(l) /\ Summarised(l)
  <2>1. Remarked(passLog, l)
    BY <1>1
  <2> HIDE DEF l
  <2>2. QED
    BY <1>3, <1>4, <2>1, RemarkedNumbered, RemarkedSummarised DEF Remarked
<1>6. Made(l) = Made(passLog) /\ OfLog(l, "user") = OfLog(passLog, "user")
  <2>1. Remarked(passLog, l)
    BY <1>1
  <2> HIDE DEF l
  <2>2. QED
    BY <1>3, <2>1, RemarkedKeeps
<1>7. (passLog' = l /\ passRestored' = <<>>)
      \/ \E source \in SUBSET (1 .. Len(l)), e \in LogEntry :
           /\ e.kind = "compaction" /\ e.source = source /\ source # {}
           /\ \E u \in OfLog(l, "user") : source \subseteq 1 .. u - 1
           /\ passLog' = Append(l, e)
           /\ passRestored' = Restored(l, source)
  BY <1>1, Zenon
<1> HIDE DEF l
<1>8. /\ Continues(l, passLog') /\ Len(passLog') <= Len(l) + 1
      /\ Numbered(passLog') /\ Summarised(passLog') /\ Made(passLog') = Made(passLog)
      /\ OfLog(passLog', "user") = OfLog(passLog, "user")
      /\ passRestored' \in Seq([at : DOMAIN passLog', text : Texts])
      /\ RestoresLatest'
  <2>1. CASE passLog' = l /\ passRestored' = <<>>
    <3>1. Continues(l, passLog') /\ Len(passLog') <= Len(l) + 1
      BY <1>5, <2>1 DEF Continues
    <3>2. passRestored' \in Seq([at : DOMAIN passLog', text : Texts])
      BY <2>1
    <3>3. RestoresLatest'
      BY <2>1, NothingRestored
    <3>4. Numbered(passLog') /\ Summarised(passLog')
      BY <1>5, <2>1, Zenon
    <3>5. Made(passLog') = Made(passLog) /\ OfLog(passLog', "user") = OfLog(passLog, "user")
      BY <1>6, <2>1, Zenon
    <3>6. QED
      BY <3>1, <3>2, <3>3, <3>4, <3>5
  <2>2. ASSUME NEW source \in SUBSET (1 .. Len(l)), NEW e \in LogEntry,
               e.kind = "compaction", e.source = source, source # {},
               \E u \in OfLog(l, "user") : source \subseteq 1 .. u - 1,
               passLog' = Append(l, e), passRestored' = Restored(l, source)
        PROVE  /\ Continues(l, passLog') /\ Len(passLog') <= Len(l) + 1
               /\ Numbered(passLog') /\ Summarised(passLog') /\ Made(passLog') = Made(passLog)
               /\ OfLog(passLog', "user") = OfLog(passLog, "user")
               /\ passRestored' \in Seq([at : DOMAIN passLog', text : Texts])
               /\ RestoresLatest'
    <3>1. /\ Continues(l, passLog') /\ Len(passLog') = Len(l) + 1
          /\ passLog'[Len(l) + 1] = e
      BY <1>5, <2>2, AppendContinues
    <3>2. /\ Len(l) \in Nat /\ DOMAIN l = 1 .. Len(l) /\ DOMAIN passLog' = 1 .. Len(passLog')
          /\ \A i \in DOMAIN l : passLog'[i] = l[i] /\ ResultCall(passLog', i) = ResultCall(l, i)
          /\ OfLog(l, "user") = {i \in OfLog(passLog', "user") : i <= Len(l)}
      BY <1>5, <3>1, ContinuedPositions
    <3>3. ASSUME NEW i \in DOMAIN passLog', i > Len(l)
          PROVE  i = Len(l) + 1 /\ passLog'[i] = e
      BY <3>1, <3>2, <3>3
    <3>4. ASSUME NEW i \in DOMAIN passLog', i > Len(l)
          PROVE  /\ passLog'[i].kind # "assistant" /\ passLog'[i].kind # "tool_result"
                 /\ passLog'[i].kind # "user"
                 /\ passLog'[i].source = source
    <4>1. passLog'[i] = e
      BY <3>3, <3>4
    <4>2. QED
      BY <2>2, <4>1
    <3>5. Numbered(passLog')
      BY <1>5, <3>1, <3>4, ContinuedNumbered
    <3>6. Made(passLog') = Made(passLog)
      BY <1>5, <1>6, <3>1, <3>4, ContinuedCalls
    <3>7. Summarised(passLog')
      <4>1. \A i \in DOMAIN passLog' : i > Len(l) /\ passLog'[i].kind = "compaction" =>
              passLog'[i].source # {} /\ \E u \in OfLog(l, "user") : passLog'[i].source \subseteq 1 .. u - 1
        BY <2>2, <3>4, Zenon
      <4>2. QED
        BY <1>5, <3>1, <4>1, ContinuedSummarised
    <3>8. OfLog(passLog', "user") = OfLog(passLog, "user")
      <4>1. \A i \in DOMAIN passLog' : i <= Len(l) \/ i > Len(l)
        BY <3>1, <3>2
      <4>2. \A i \in OfLog(passLog', "user") : i <= Len(l)
        BY <3>4, <4>1, Zenon DEF OfLog
      <4>3. QED
        BY <1>6, <3>2, <4>2, Zenon
    <3>9. /\ Restored(l, source) \in Seq([at : 1 .. Len(l), text : Texts])
          /\ GivesLatest(l, source, Restored(l, source))
      BY <1>5, <2>2, RestoredGivesLatest
    <3>10. passRestored' \in Seq([at : DOMAIN passLog', text : Texts])
      <4> DEFINE A == [at : 1 .. Len(l), text : Texts]
                 B == [at : DOMAIN passLog', text : Texts]
      <4>1. A \subseteq B
        <5>1. 1 .. Len(l) \subseteq DOMAIN passLog'
          BY <3>1, <3>2
        <5>2. QED
          BY <5>1
      <4>2. passRestored' \in Seq(A)
        BY <2>2, <3>9, Zenon
      <4> HIDE DEF A, B
      <4>3. Len(passRestored') \in Nat /\ passRestored' \in [1 .. Len(passRestored') -> A]
        BY <4>2
      <4>4. passRestored' \in [1 .. Len(passRestored') -> B]
        BY <4>1, <4>3
      <4>5. passRestored' \in Seq(B)
        BY <4>3, <4>4
      <4>6. QED
        BY <4>5 DEF B
    <3>11. RestoresLatest'
      <4> DEFINE r == Restored(l, source)
      <4>1. GivesLatest(l, source, r) /\ passRestored' = r
        BY <2>2, <3>9
      <4> HIDE DEF r
      <4>2. passLog'[Len(passLog')].source = source
        BY <2>2, <3>1
      <4>3. \A i \in source : passLog'[i] = l[i] /\ ResultCall(passLog', i) = ResultCall(l, i)
        BY <2>2, <3>2
      <4>4. \A i, j \in source : SameFile(passLog', i, j) <=> SameFile(l, i, j)
        BY <4>3, Zenon DEF SameFile
      <4>5. \A n \in DOMAIN r : r[n].at \in source
        BY <4>1, Zenon DEF GivesLatest
      <4>6. \A n \in DOMAIN r : \A m \in 1 .. n : m \in DOMAIN r
        <5>1. r \in Seq([at : 1 .. Len(l), text : Texts])
          BY <3>9 DEF r
        <5>2. QED
          BY <5>1
      <4>7. ASSUME NEW n \in DOMAIN r, NEW i \in source,
                   i > r[n].at, passLog'[i].kind = "tool_result",
                   ResultCall(passLog', i).tool \in RestorableTools
            PROVE  /\ ~SameFile(passLog', i, r[n].at)
                   /\ \E j \in {r[m].at : m \in 1 .. n} : j >= i /\ SameFile(passLog', i, j)
        <5>1. l[i].kind = "tool_result" /\ ResultCall(l, i).tool \in RestorableTools
          BY <4>3, <4>7, Zenon
        <5>2. ~SameFile(l, i, r[n].at) /\ \E j \in {r[m].at : m \in 1 .. n} : j >= i /\ SameFile(l, i, j)
          BY <4>1, <4>7, <5>1, Zenon DEF GivesLatest
        <5>3. PICK j \in {r[m].at : m \in 1 .. n} : j >= i /\ SameFile(l, i, j)
          BY <5>2, Zenon
        <5>4. j \in source /\ r[n].at \in source
          BY <4>5, <4>6, <5>3, Zenon
        <5>5. ~SameFile(passLog', i, r[n].at) /\ SameFile(passLog', i, j)
          BY <4>4, <5>2, <5>3, <5>4, Zenon
        <5>6. QED
          BY <5>3, <5>5, Zenon
      <4>8. QED
        BY <4>1, <4>2, <4>5, <4>7, Zenon DEF RestoresLatest
    <3>12. QED
      BY <3>1, <3>2, <3>5, <3>6, <3>7, <3>8, <3>10, <3>11
  <2>3. QED
    BY <1>7, <2>1, <2>2, Zenon
<1>9. passLog' \in Seq(LogEntry) /\ Len(passLog') <= MaxLog + 1
  BY <1>3, <1>4, <1>5, <1>8 DEF Continues
<1>10. ASSUME NEW i \in OfLog(passLog', "tool_result")
       PROVE  ResultCall(passLog', i).id \in 1 .. MaxPassCalls
  <2>1. PICK a \in OfLog(passLog', "assistant") : \E c \in passLog'[a].calls : passLog'[i].calls = {c}
    BY <1>8, Zenon DEF Numbered
  <2>2. PICK c \in passLog'[a].calls : passLog'[i].calls = {c}
    BY <2>1
  <2>3. ResultCall(passLog', i) = c
    BY <2>2, OnlyOne, Zenon DEF ResultCall
  <2>4. c.id \in 1 .. Made(passLog')
    BY <1>8, <2>2, Zenon DEF Numbered
  <2>5. Made(passLog') = Made(passLog) /\ Made(passLog) \in Nat
    BY <1>8, PassTypes
  <2>6. QED
    BY <1>3, <1>4, <2>3, <2>4, <2>5
<1>11. passSeen' \subseteq 1 .. MaxPassCalls
  <2>1. passSeen \subseteq 1 .. MaxPassCalls
    BY DEF PassInv, PassTypeOK
  <2>2. QED
    BY <1>2, <1>10, <2>1, Zenon
<1>12. PassTypeOK'
  <2>1. passConfig' \in PassConfigs
    BY <1>2 DEF PassInv, PassTypeOK
  <2>2. QED
    BY <1>2, <1>8, <1>9, <1>11, <2>1 DEF PassTypeOK
<1>13. Shown'
  <2>1. OfLog(passLog', "user") # {}
    <3>1. Shown
      BY <1>2 DEF PassInv
    <3>2. QED
      BY <1>8, <3>1, Zenon DEF Shown
  <2>2. ASSUME NEW i \in OfLog(passLog', "tool_result"),
               \A u \in OfLog(passLog', "user") : u < i, passLog'[i].text = "content"
        PROVE  ResultCall(passLog', i).id \in passSeen'
    <3>1. i \in DOMAIN passLog' /\ passLog'[i].kind = "tool_result"
      BY <2>2, Zenon DEF OfLog
    <3>2. passLog'[i].kind # "compaction"
      BY <3>1
    <3>3. i \notin Hidden(passLog')
      BY <1>8, <1>9, <2>2, <3>1, <3>2, HiddenBehind
    <3>4. QED
      BY <1>2, <2>2, <3>3, Zenon
  <2>3. QED
    BY <2>1, <2>2, Zenon DEF Shown
<1>14. Made(passLog') <= MaxPassCalls
  BY <1>4, <1>8
<1>15. QED
  BY <1>2, <1>8, <1>12, <1>13, <1>14 DEF PassInv

\* In every state the invariant holds.
LEMMA PassStepHolds == PassInv /\ [PassNext]_passVars => PassInv'
<1> SUFFICES ASSUME PassInv, [PassNext]_passVars PROVE PassInv'
  OBVIOUS
<1>1. CASE UNCHANGED passVars
  BY <1>1 DEF passVars, PassInv, PassTypeOK, Shown, RestoresLatest
<1>2. CASE PassNext
  BY <1>2, StartKeepsPasses, SpeakKeepsPasses, RequestKeepsPasses, ModelRepliesKeepsPasses,
     ReportKeepsPasses, GiveUpKeepsPasses DEF PassNext
<1>3. QED
  BY <1>1, <1>2
\* What stays as it was is spared.
LEMMA ContinuedSpared ==
  ASSUME PassInv, Continues(passLog, passLog')
  PROVE  SparesUnseen
<1>1. passLog \in Seq(LogEntry)
  BY PassTypes
<1>2. \A i \in DOMAIN passLog : passLog'[i] = passLog[i]
  BY <1>1, ContinuedPositions
<1>3. \A i \in OfLog(passLog, "tool_result") : passLog'[i] = passLog[i]
  BY <1>2, Zenon DEF OfLog
<1>4. QED
  BY <1>3, Zenon DEF SparesUnseen

\* A request spares what no request has shown.
LEMMA RequestSpares ==
  ASSUME PassInv, Request
  PROVE  SparesUnseen
<1>1. PICK paused, large \in BOOLEAN :
        /\ Remarked(passLog, Passed(passLog, paused, large))
        /\ \/ passLog' = Passed(passLog, paused, large)
           \/ \E e \in LogEntry : passLog' = Append(Passed(passLog, paused, large), e)
  BY RequestAppends, Zenon
<1> DEFINE l == Passed(passLog, paused, large)
           users   == OfLog(passLog, "user")
           answers == OfLog(passLog, "assistant")
<1>2. /\ passLog \in Seq(LogEntry) /\ passConfig \in Config
      /\ Len(passLog) \in Nat /\ DOMAIN passLog = 1 .. Len(passLog)
  BY PassTypes
<1>3. Numbered(passLog) /\ Shown
  <2>1. passStage = "due"
    BY DEF Request
  <2>2. QED
    BY <2>1 DEF PassInv
<1>4. \A i \in DOMAIN passLog : passLog'[i] = l[i]
  <2>1. l \in Seq(LogEntry) /\ DOMAIN l = DOMAIN passLog
    <3>1. Remarked(passLog, l)
      BY <1>1
    <3> HIDE DEF l
    <3>2. QED
      BY <1>2, <3>1, RemarkedKeeps DEF Remarked
  <2>2. passLog' = l \/ \E e \in LogEntry : passLog' = Append(l, e)
    BY <1>1
  <2> HIDE DEF l
  <2>3. QED
    BY <2>1, <2>2
<1>5. ASSUME NEW i \in OfLog(passLog, "tool_result"),
             passLog[i].text = "content", passLog'[i].text # "content",
             ResultCall(passLog, i).id \notin passSeen, ~ (i < Newest(users))
      PROVE  /\ passConfig.micro # Off
             /\ Cardinality({d \in passLog[Only({a \in answers : ResultCall(passLog, i) \in passLog[a].calls})].calls :
                               d.tool \in CompactableTools})
                  > passConfig.micro
  <2> DEFINE c == ResultCall(passLog, i)
  <2>1. i \in DOMAIN passLog /\ passLog[i].kind = "tool_result"
    BY <1>5, Zenon DEF OfLog
  <2>2. users # {} /\ users \in SUBSET (1 .. Len(passLog))
    BY <1>2, <1>3, Zenon DEF Shown, OfLog
  <2>3. Newest(users) \in users /\ \A u \in users : u <= Newest(users)
    <3> HIDE DEF users
    <3>1. QED
      BY <1>2, <2>2, NewestIsGreatest
  <2>4. i \notin users
    <3>1. passLog[i].kind # "user"
      BY <2>1
    <3>2. QED
      BY <3>1, Zenon DEF OfLog
  <2>5. \A u \in users : u < i
    <3> HIDE DEF users
    <3>1. i \in Nat /\ \A u \in users : u \in Nat
      BY <1>2, <2>1, <2>2
    <3>2. i # Newest(users)
      BY <2>3, <2>4
    <3>3. QED
      BY <1>5, <2>3, <3>1, <3>2
  <2>6. PICK a \in answers : (\A b \in answers : b <= a) /\ c \in passLog[a].calls
    BY <1>3, <1>5, <2>5, Zenon DEF Shown
  <2>7. Only({b \in answers : c \in passLog[b].calls}) = a
    <3>1. {b \in answers : c \in passLog[b].calls} = {a}
      BY <1>2, <1>3, <2>6, OneAnswer
    <3>2. QED
      BY <3>1, OnlyOne, Zenon
  <2>8. l[i] # passLog[i]
    BY <1>4, <1>5, <2>1, Zenon
  <2>9. /\ passConfig.micro # Off
        /\ Cardinality({d \in passLog[a].calls : d.tool \in CompactableTools}) > passConfig.micro
    BY <1>2, <1>3, <2>1, <2>5, <2>6, <2>8, PassedSpares, Zenon
  <2>10. QED
    BY <2>7, <2>9, Zenon
<1>6. QED
  BY <1>5, Zenon DEF SparesUnseen

\* No pass replaces a result that no request has shown yet, but of a run that was
\* given up or of an answer with more calls than are kept; and what a restore puts
\* in front of a request are the newest results of their files.
THEOREM PassesAreSparing == PassSpec => PassesSparing
<1>1. PassInv /\ [PassNext]_passVars => SparesUnseen
  <2> SUFFICES ASSUME PassInv, [PassNext]_passVars PROVE SparesUnseen
    OBVIOUS
  <2>1. ASSUME passLog' = passLog PROVE SparesUnseen
    <3>1. Continues(passLog, passLog)
      BY PassTypes DEF Continues
    <3>2. Continues(passLog, passLog')
      BY <2>1, <3>1, Zenon
    <3>3. QED
      BY <3>2, ContinuedSpared
  <2>2. CASE Request
    BY <2>2, RequestSpares
  <2>3. CASE Speak \/ ModelReplies \/ Report
    BY <2>3, SpeakKeepsPasses, ModelRepliesKeepsPasses, ReportKeepsPasses, ContinuedSpared
  <2>4. CASE StartPasses \/ GiveUp \/ UNCHANGED passVars
    BY <2>1, <2>4 DEF StartPasses, GiveUp, passVars
  <2>5. QED
    BY <2>2, <2>3, <2>4 DEF PassNext
<1>2. PassInv => PassTypeOK /\ RestoresLatest
  BY DEF PassInv
<1>3. PassInv /\ [PassNext]_passVars => PassTypeOK /\ SparesUnseen /\ RestoresLatest'
  BY <1>1, <1>2, PassStepHolds, PTL
<1>4. QED
  BY <1>3, PassInitHolds, PassStepHolds, PTL DEF PassSpec, PassesSparing

----------------------------------------
(* Sequences put together of sequences: what the clients make of messages,    *)
(* the items of a body and their parts, is put together part by part.         *)

\* A set that has each number whose predecessor it has.
LEMMA Upwards ==
  ASSUME NEW n \in Nat, NEW S, \A k \in 1 .. n : k = 1 \/ k - 1 \in S => k \in S
  PROVE  \A k \in 1 .. n : k \in S
<1> DEFINE Bad == {k \in 1 .. n : k \notin S}
<1>1. SUFFICES ASSUME Bad # {} PROVE FALSE
  OBVIOUS
<1>2. PICK k \in Bad : \A j \in Bad : k <= j
  <2>1. Bad \subseteq Nat
    OBVIOUS
  <2> HIDE DEF Bad
  <2>2. QED
    BY <1>1, <2>1, LeastExists
<1>3. k \in 1 .. n /\ k \notin S
  BY <1>2
<1>4. k # 1 /\ k - 1 \notin S
  BY <1>3
<1>5. k - 1 \in 1 .. n /\ ~ (k <= k - 1)
  BY <1>3, <1>4
<1>6. k - 1 \in Bad
  BY <1>4, <1>5
<1>7. QED
  BY <1>2, <1>5, <1>6

\* No parts are put together to themselves.
LEMMA FlattenNone ==
  ASSUME NEW parts, Len(parts) = 0
  PROVE  FlattenSeq(parts) = parts
BY DEF FlattenSeq

\* The steps in which parts are put together.
LEMMA FlattenSteps ==
  ASSUME NEW S, NEW parts \in Seq(Seq(S)), parts # <<>>
  PROVE  \E f \in [1 .. Len(parts) -> Seq(S)] :
           /\ \A k \in 1 .. Len(parts) : f[k] = IF k = 1 THEN parts[k] ELSE f[k - 1] \o parts[k]
           /\ FlattenSeq(parts) = f[Len(parts)]
<1>1. Len(parts) \in Nat /\ Len(parts) # 0 /\ \A k \in 1 .. Len(parts) : parts[k] \in Seq(S)
  OBVIOUS
<1>2. PICK f : IsJoin(f, parts) /\ FlattenSeq(parts) = f[Len(parts)]
  BY <1>1, FlattenJoins
<1>3. \A k \in 1 .. Len(parts) : f[k] = IF k = 1 THEN parts[k] ELSE f[k - 1] \o parts[k]
  BY <1>2 DEF IsJoin
<1>4. \A k \in 1 .. Len(parts) : f[k] \in Seq(S)
  <2> DEFINE T == {k \in 1 .. Len(parts) : f[k] \in Seq(S)}
  <2>1. ASSUME NEW k \in 1 .. Len(parts), k = 1 \/ k - 1 \in T PROVE k \in T
    <3>1. CASE k = 1
      <4>1. f[k] = parts[k]
        BY <1>3, <3>1
      <4>2. QED
        BY <1>1, <4>1
    <3>2. CASE k # 1
      <4>1. f[k] = f[k - 1] \o parts[k] /\ f[k - 1] \in Seq(S)
        BY <1>3, <2>1, <3>2
      <4>2. f[k] \in Seq(S)
        BY <1>1, <4>1
      <4>3. QED
        BY <4>2
    <3>3. QED
      BY <3>1, <3>2
  <2> HIDE DEF T
  <2>2. \A k \in 1 .. Len(parts) : k \in T
    BY <1>1, <2>1, Upwards
  <2>3. QED
    BY <2>2 DEF T
<1>5. f = [k \in 1 .. Len(parts) |-> f[k]]
  BY <1>2 DEF IsJoin
<1>6. f \in [1 .. Len(parts) -> Seq(S)]
  BY <1>4, <1>5
<1>7. QED
  BY <1>2, <1>3, <1>6

\* What is put together of sequences over a set is one over it.
LEMMA FlattenTyped ==
  ASSUME NEW S, NEW parts \in Seq(Seq(S))
  PROVE  FlattenSeq(parts) \in Seq(S)
<1>1. CASE parts = <<>>
  <2>1. FlattenSeq(parts) = parts
    BY <1>1, FlattenNone
  <2>2. <<>> \in Seq(S)
    OBVIOUS
  <2>3. QED
    BY <1>1, <2>1, <2>2, Zenon
<1>2. CASE parts # <<>>
  <2>1. PICK f \in [1 .. Len(parts) -> Seq(S)] : FlattenSeq(parts) = f[Len(parts)]
    BY <1>2, FlattenSteps
  <2>2. Len(parts) \in 1 .. Len(parts)
    BY <1>2
  <2>3. f[Len(parts)] \in Seq(S)
    <3> DEFINE n == Len(parts)
    <3> HIDE DEF n
    <3>1. f \in [1 .. n -> Seq(S)] /\ n \in 1 .. n
      BY <2>2, Zenon DEF n
    <3>2. f[n] \in Seq(S)
      BY <3>1
    <3>3. QED
      BY <3>2 DEF n
  <2>4. QED
    BY <2>1, <2>3
<1>3. QED
  BY <1>1, <1>2

\* Joining is associative, and the empty sequence is its unit.
LEMMA ConcatAssociates ==
  ASSUME NEW S, NEW a \in Seq(S), NEW b \in Seq(S), NEW c \in Seq(S)
  PROVE  (a \o b) \o c = a \o (b \o c)
BY ConcatAssociative

LEMMA ConcatEmptyKeeps ==
  ASSUME NEW S, NEW a \in Seq(S)
  PROVE  <<>> \o a = a /\ a \o <<>> = a
BY ConcatEmptySeq

\* One part is put together to itself.
LEMMA FlattenOne ==
  ASSUME NEW S, NEW part \in Seq(S)
  PROVE  FlattenSeq(<<part>>) = part
<1>1. <<part>> \in Seq(Seq(S)) /\ <<part>> # <<>> /\ Len(<<part>>) = 1 /\ <<part>>[1] = part
  OBVIOUS
<1>2. PICK f \in [1 .. Len(<<part>>) -> Seq(S)] :
        /\ \A k \in 1 .. Len(<<part>>) : f[k] = IF k = 1 THEN <<part>>[k] ELSE f[k - 1] \o <<part>>[k]
        /\ FlattenSeq(<<part>>) = f[Len(<<part>>)]
  BY <1>1, FlattenSteps
<1>3. QED
  BY <1>1, <1>2

\* Putting together commutes with joining.
LEMMA FlattenConcat ==
  ASSUME NEW S, NEW a \in Seq(Seq(S)), NEW b \in Seq(Seq(S))
  PROVE  FlattenSeq(a \o b) = FlattenSeq(a) \o FlattenSeq(b)
<1>1. FlattenSeq(a) \in Seq(S) /\ FlattenSeq(b) \in Seq(S)
  BY FlattenTyped
<1>2. CASE a = <<>>
  <2>1. a \o b = b /\ FlattenSeq(a) = <<>>
    BY <1>2, FlattenNone, ConcatEmptySeq
  <2>2. QED
    BY <1>1, <2>1, ConcatEmptyKeeps
<1>3. CASE b = <<>>
  <2>1. a \o b = a /\ FlattenSeq(b) = <<>>
    BY <1>3, FlattenNone, ConcatEmptySeq
  <2>2. QED
    BY <1>1, <2>1, ConcatEmptyKeeps
<1>4. CASE a # <<>> /\ b # <<>>
  <2> DEFINE m == Len(a)
             n == Len(b)
             c == a \o b
  <2>1. m \in Nat /\ n \in Nat /\ m > 0 /\ n > 0
    BY <1>4
  <2>2. /\ c \in Seq(Seq(S)) /\ c # <<>> /\ Len(c) = m + n
        /\ \A k \in 1 .. m : c[k] = a[k]
        /\ \A k \in 1 .. n : c[m + k] = b[k]
    BY <1>4, <2>1, ConcatProperties
  <2>3. PICK f \in [1 .. m -> Seq(S)] :
          /\ \A k \in 1 .. m : f[k] = IF k = 1 THEN a[k] ELSE f[k - 1] \o a[k]
          /\ FlattenSeq(a) = f[m]
    BY <1>4, FlattenSteps
  <2>4. PICK g \in [1 .. n -> Seq(S)] :
          /\ \A k \in 1 .. n : g[k] = IF k = 1 THEN b[k] ELSE g[k - 1] \o b[k]
          /\ FlattenSeq(b) = g[n]
    BY <1>4, FlattenSteps
  <2> HIDE DEF c
  <2>5. PICK h \in [1 .. m + n -> Seq(S)] :
          /\ \A k \in 1 .. m + n : h[k] = IF k = 1 THEN c[k] ELSE h[k - 1] \o c[k]
          /\ FlattenSeq(c) = h[m + n]
    <3>1. \E h \in [1 .. Len(c) -> Seq(S)] :
            /\ \A k \in 1 .. Len(c) : h[k] = IF k = 1 THEN c[k] ELSE h[k - 1] \o c[k]
            /\ FlattenSeq(c) = h[Len(c)]
      BY <2>2, FlattenSteps
    <3>2. QED
      BY <2>2, <3>1
  <2>6. \A k \in 1 .. n : b[k] \in Seq(S)
    OBVIOUS
  <2> HIDE DEF m, n
  <2>7. h[m] = f[m]
    <3>0. ASSUME NEW k \in 1 .. m, k = 1 \/ h[k - 1] = f[k - 1] PROVE h[k] = f[k]
      <4>1. k \in 1 .. m + n
        BY <2>1
      <4>2. c[k] = a[k]
        BY <2>2, Zenon
      <4>3. h[k] = IF k = 1 THEN c[k] ELSE h[k - 1] \o c[k]
        BY <2>5, <4>1, Zenon
      <4>4. f[k] = IF k = 1 THEN a[k] ELSE f[k - 1] \o a[k]
        BY <2>3, Zenon
      <4>5. QED
        BY <3>0, <4>2, <4>3, <4>4, Zenon
    <3> DEFINE T == {k \in 1 .. m : h[k] = f[k]}
    <3>1. ASSUME NEW k \in 1 .. m, k = 1 \/ k - 1 \in T PROVE k \in T
      BY <3>0, <3>1, Zenon
    <3> HIDE DEF T
    <3>2. \A k \in 1 .. m : k \in T
      BY <2>1, <3>1, Upwards
    <3>3. m \in 1 .. m
      BY <2>1
    <3>4. QED
      BY <3>2, <3>3 DEF T
  <2>8. h[m + n] = f[m] \o g[n]
    <3>0. f[m] \in Seq(S)
      BY <2>1, <2>3
    <3>1. ASSUME NEW k \in 1 .. n, k = 1 \/ h[m + (k - 1)] = f[m] \o g[k - 1]
          PROVE  h[m + k] = f[m] \o g[k]
      <4>1. m + k \in 1 .. m + n /\ m + k # 1 /\ (m + k) - 1 = m + (k - 1) /\ (k = 1 => m + (k - 1) = m)
        BY <2>1
      <4>2. c[m + k] = b[k]
        BY <2>2, Zenon
      <4>3. h[m + k] = h[m + (k - 1)] \o b[k]
        <5>1. h[m + k] = IF m + k = 1 THEN c[m + k] ELSE h[(m + k) - 1] \o c[m + k]
          BY <2>5, <4>1, Zenon
        <5>2. QED
          BY <4>1, <4>2, <5>1, Zenon
      <4>4. g[k] = IF k = 1 THEN b[k] ELSE g[k - 1] \o b[k]
        BY <2>4, Zenon
      <4>5. CASE k = 1
        BY <2>7, <4>1, <4>3, <4>4, <4>5, Zenon
      <4>6. CASE k # 1
        <5>1. k - 1 \in 1 .. n
          BY <2>1, <4>6
        <5>2. g[k - 1] \in Seq(S) /\ b[k] \in Seq(S)
          BY <2>4, <2>6, <5>1, Zenon
        <5>3. (f[m] \o g[k - 1]) \o b[k] = f[m] \o (g[k - 1] \o b[k])
          <6> DEFINE x == f[m]
                     y == g[k - 1]
                     z == b[k]
          <6>1. x \in Seq(S) /\ y \in Seq(S) /\ z \in Seq(S)
            BY <3>0, <5>2, Zenon
          <6> HIDE DEF x, y, z
          <6>2. (x \o y) \o z = x \o (y \o z)
            BY <6>1, ConcatAssociates, SMTT(20)
          <6>3. QED
            BY <6>2 DEF x, y, z
        <5>4. QED
          BY <3>1, <4>3, <4>4, <4>6, <5>3, Zenon
      <4>7. QED
        BY <4>5, <4>6
    <3> DEFINE T == {k \in 1 .. n : h[m + k] = f[m] \o g[k]}
    <3>4. ASSUME NEW k \in 1 .. n, k = 1 \/ k - 1 \in T PROVE k \in T
      BY <3>1, <3>4, Zenon
    <3> HIDE DEF T
    <3>2. \A k \in 1 .. n : k \in T
      BY <2>1, <3>4, Upwards
    <3>3. n \in 1 .. n
      BY <2>1
    <3>5. QED
      BY <3>2, <3>3 DEF T
  <2>9. QED
    BY <2>3, <2>4, <2>5, <2>8 DEF c
<1>5. QED
  BY <1>2, <1>3, <1>4

\* Where the elements of two sequences are in what they are joined to.
LEMMA JoinedAt ==
  ASSUME NEW T, NEW a \in Seq(T), NEW b \in Seq(T)
  PROVE  /\ a \o b \in Seq(T) /\ Len(a \o b) = Len(a) + Len(b)
         /\ \A i \in 1 .. Len(a) : (a \o b)[i] = a[i]
         /\ \A i \in 1 .. Len(b) : (a \o b)[Len(a) + i] = b[i]
<1> DEFINE m == Len(a)
           n == Len(b)
<1>1. m \in Nat /\ n \in Nat
  OBVIOUS
<1>2. a \o b \in Seq(T) /\ Len(a \o b) = m + n
  BY ConcatProperties
<1>3. \A i \in 1 .. m + n : (a \o b)[i] = IF i <= m THEN a[i] ELSE b[i - m]
  BY ConcatProperties
<1> HIDE DEF m, n
<1>4. \A i \in 1 .. m : (a \o b)[i] = a[i]
  <2>1. \A i \in 1 .. m : i \in 1 .. m + n /\ i <= m
    BY <1>1
  <2>2. QED
    BY <1>3, <2>1, Zenon
<1>5. \A i \in 1 .. n : (a \o b)[m + i] = b[i]
  <2>1. \A i \in 1 .. n : m + i \in 1 .. m + n /\ ~ (m + i <= m) /\ (m + i) - m = i
    BY <1>1
  <2>2. QED
    BY <1>3, <2>1, Zenon
<1>6. QED
  BY <1>2, <1>4, <1>5, Zenon DEF m, n

\* What a function makes of each element, put together.
Each(h, s) == [i \in DOMAIN s |-> h[s[i]]]
Through(h, s) == FlattenSeq(Each(h, s))

\* A function that makes a sequence of each element.
Maps(h, S, R) == h \in [S -> Seq(R)]

\* A sequence through a map: element by element, and put together.
LEMMA EachTyped ==
  ASSUME NEW S, NEW R, NEW h, Maps(h, S, R), NEW s \in Seq(S)
  PROVE  Each(h, s) \in Seq(Seq(R)) /\ Len(Each(h, s)) = Len(s)
<1>1. Len(s) \in Nat /\ DOMAIN s = 1 .. Len(s) /\ \A i \in 1 .. Len(s) : s[i] \in S
  OBVIOUS
<1>2. \A i \in 1 .. Len(s) : h[s[i]] \in Seq(R)
  <2>1. h \in [S -> Seq(R)]
    BY DEF Maps
  <2>2. QED
    BY <1>1, <2>1, Zenon
<1> DEFINE n == Len(s)
           T == Seq(R)
           f == [i \in 1 .. n |-> h[s[i]]]
<1>3. n \in Nat /\ f \in [1 .. n -> T]
  BY <1>1, <1>2, Zenon
<1>4. f = Each(h, s)
  BY <1>1, Zenon DEF Each
<1> HIDE DEF n, T, f
<1>5. f \in Seq(T) /\ Len(f) = n
  BY <1>3
<1>6. QED
  BY <1>4, <1>5 DEF n, T

LEMMA ThroughTyped ==
  ASSUME NEW S, NEW R, NEW h, Maps(h, S, R), NEW s \in Seq(S)
  PROVE  Through(h, s) \in Seq(R)
BY EachTyped, FlattenTyped, Zenon DEF Through

LEMMA ThroughNone ==
  ASSUME NEW h
  PROVE  Through(h, <<>>) = <<>>
<1>1. Each(h, <<>>) = <<>>
  BY DEF Each
<1>2. QED
  BY <1>1, FlattenNone DEF Through

LEMMA ThroughOne ==
  ASSUME NEW S, NEW R, NEW h, Maps(h, S, R), NEW x \in S
  PROVE  Through(h, <<x>>) = h[x]
<1>1. h[x] \in Seq(R)
  BY DEF Maps
<1>2. Each(h, <<x>>) = <<h[x]>>
  BY DEF Each
<1>3. QED
  BY <1>1, <1>2, FlattenOne, Zenon DEF Through

\* What goes through a map joined is joined of what goes through it.
LEMMA ThroughConcat ==
  ASSUME NEW S, NEW R, NEW h, Maps(h, S, R), NEW s \in Seq(S), NEW t \in Seq(S)
  PROVE  Through(h, s \o t) = Through(h, s) \o Through(h, t)
<1>0. /\ Each(h, s) \in Seq(Seq(R)) /\ Len(Each(h, s)) = Len(s)
      /\ Each(h, t) \in Seq(Seq(R)) /\ Len(Each(h, t)) = Len(t)
      /\ Each(h, s \o t) \in Seq(Seq(R)) /\ Len(Each(h, s \o t)) = Len(s \o t)
  <2>1. s \o t \in Seq(S)
    OBVIOUS
  <2>2. ASSUME NEW x \in Seq(S) PROVE Each(h, x) \in Seq(Seq(R)) /\ Len(Each(h, x)) = Len(x)
    <3>1. Each(h, x) \in Seq(Seq(R))
      BY EachTyped, Zenon
    <3>2. Len(Each(h, x)) = Len(x)
      BY EachTyped
    <3>3. QED
      BY <3>1, <3>2
  <2> DEFINE u == s \o t
  <2> HIDE DEF u
  <2>3. Each(h, u) \in Seq(Seq(R)) /\ Len(Each(h, u)) = Len(u)
    BY <2>1, <2>2, Zenon DEF u
  <2>4. QED
    BY <2>2, <2>3, Zenon DEF u
<1> DEFINE a == Each(h, s)
           b == Each(h, t)
           u == s \o t
           c == Each(h, u)
           m == Len(s)
           n == Len(t)
           T == Seq(R)
<1>1. /\ m \in Nat /\ n \in Nat /\ u \in Seq(S) /\ Len(u) = m + n
      /\ \A i \in 1 .. m : u[i] = s[i]
      /\ \A i \in 1 .. n : u[m + i] = t[i]
  BY ConcatProperties
<1>2. /\ a \in Seq(T) /\ Len(a) = m /\ \A i \in 1 .. m : a[i] = h[s[i]]
      /\ b \in Seq(T) /\ Len(b) = n /\ \A i \in 1 .. n : b[i] = h[t[i]]
  <2>1. DOMAIN s = 1 .. m /\ DOMAIN t = 1 .. n
    OBVIOUS
  <2>2. (\A i \in 1 .. m : a[i] = h[s[i]]) /\ (\A i \in 1 .. n : b[i] = h[t[i]])
    BY <2>1, Zenon DEF Each
  <2>3. QED
    BY <1>0, <2>2, Zenon
<1>3. c \in Seq(T) /\ Len(c) = m + n /\ \A i \in 1 .. m + n : c[i] = h[u[i]]
  <2>1. DOMAIN u = 1 .. m + n
    <3> HIDE DEF u
    <3>1. QED
      BY <1>1
  <2>2. \A i \in 1 .. m + n : c[i] = h[u[i]]
    BY <2>1, Zenon DEF Each
  <2>3. c \in Seq(T) /\ Len(c) = Len(u)
    BY <1>0, Zenon
  <2>4. QED
    BY <1>1, <2>2, <2>3, Zenon
<1> HIDE DEF a, b, c, u, m, n, T
<1>4. /\ a \o b \in Seq(T) /\ Len(a \o b) = m + n
      /\ \A i \in 1 .. m : (a \o b)[i] = a[i]
      /\ \A i \in 1 .. n : (a \o b)[m + i] = b[i]
  <2>1. a \in Seq(T) /\ b \in Seq(T) /\ Len(a) = m /\ Len(b) = n
    BY <1>2
  <2>2. /\ a \o b \in Seq(T) /\ Len(a \o b) = Len(a) + Len(b)
        /\ \A i \in 1 .. Len(a) : (a \o b)[i] = a[i]
        /\ \A i \in 1 .. Len(b) : (a \o b)[Len(a) + i] = b[i]
    <3>1. a \o b \in Seq(T) /\ Len(a \o b) = Len(a) + Len(b)
      BY <2>1, JoinedAt
    <3>2. \A i \in 1 .. Len(a) : (a \o b)[i] = a[i]
      BY <2>1, JoinedAt
    <3>3. \A i \in 1 .. Len(b) : (a \o b)[Len(a) + i] = b[i]
      BY <2>1, JoinedAt
    <3>4. QED
      BY <3>1, <3>2, <3>3
  <2>3. QED
    BY <2>1, <2>2, Zenon
<1>5. \A i \in 1 .. m + n : c[i] = (a \o b)[i]
  <2> SUFFICES ASSUME NEW i \in 1 .. m + n PROVE c[i] = (a \o b)[i]
    OBVIOUS
  <2>1. c[i] = h[u[i]]
    BY <1>3, Zenon
  <2>2. CASE i <= m
    <3>1. i \in 1 .. m
      BY <1>1, <2>2
    <3>2. QED
      BY <1>1, <1>2, <1>4, <2>1, <3>1, Zenon
  <2>3. CASE ~ (i <= m)
    <3>1. i - m \in 1 .. n /\ m + (i - m) = i
      BY <1>1, <2>3
    <3>2. u[i] = t[i - m] /\ (a \o b)[i] = b[i - m] /\ b[i - m] = h[t[i - m]]
      BY <1>1, <1>2, <1>4, <3>1, Zenon
    <3>3. QED
      BY <2>1, <3>2, Zenon
  <2>4. QED
    BY <2>2, <2>3
<1>6. c = a \o b
  <2> DEFINE d == a \o b
  <2> HIDE DEF d
  <2>1. d \in Seq(T) /\ Len(d) = m + n /\ \A i \in 1 .. m + n : c[i] = d[i]
    BY <1>4, <1>5, Zenon DEF d
  <2>2. c = d
    BY <1>1, <1>3, <2>1
  <2>3. QED
    BY <2>2 DEF d
<1>7. FlattenSeq(a \o b) = FlattenSeq(a) \o FlattenSeq(b)
  BY <1>2, FlattenConcat, Zenon DEF T
<1>8. QED
  BY <1>6, <1>7, Zenon DEF Through, a, b, c, u

ThroughEach(h, parts) == [i \in DOMAIN parts |-> Through(h, parts[i])]

\* What is made of a sequence put together is put together of what is made of
\* its parts.
LEMMA ThroughFlatten ==
  ASSUME NEW S, NEW R, NEW h, Maps(h, S, R), NEW parts \in Seq(Seq(S))
  PROVE  Through(h, FlattenSeq(parts)) = FlattenSeq(ThroughEach(h, parts))
<1> DEFINE n == Len(parts)
           made == ThroughEach(h, parts)
<1>1. n \in Nat /\ DOMAIN parts = 1 .. n /\ \A i \in 1 .. n : parts[i] \in Seq(S)
  OBVIOUS
<1>2. \A i \in 1 .. n : made[i] = Through(h, parts[i]) /\ made[i] \in Seq(R)
  BY <1>1, ThroughTyped, Zenon DEF ThroughEach
<1>3. made \in Seq(Seq(R)) /\ Len(made) = n
  <2> DEFINE T == Seq(R)
  <2>1. made = [i \in 1 .. n |-> Through(h, parts[i])]
    BY <1>1, Zenon DEF ThroughEach
  <2>2. made \in [1 .. n -> T]
    BY <1>2, <2>1, Zenon
  <2> HIDE DEF n, made, T
  <2>3. made \in Seq(T) /\ Len(made) = n
    BY <1>1, <2>2
  <2>4. QED
    BY <2>3 DEF T
<1>4. CASE parts = <<>>
  <2>1. Through(h, FlattenSeq(parts)) = <<>>
    <3>1. FlattenSeq(parts) = <<>>
      BY <1>4, FlattenNone
    <3>2. QED
      BY <3>1, ThroughNone
  <2>2. FlattenSeq(made) = <<>>
    <3>1. Len(made) = 0
      BY <1>3, <1>4
    <3>2. made = <<>>
      <4> HIDE DEF made
      <4>1. QED
        BY <1>3, <3>1
    <3>3. QED
      BY <3>1, <3>2, FlattenNone, Zenon
  <2>3. QED
    BY <2>1, <2>2
<1>5. CASE parts # <<>>
  <2>0. n > 0
    BY <1>5
  <2>1. PICK f \in [1 .. n -> Seq(S)] :
          /\ \A k \in 1 .. n : f[k] = IF k = 1 THEN parts[k] ELSE f[k - 1] \o parts[k]
          /\ FlattenSeq(parts) = f[n]
    BY <1>5, FlattenSteps, Zenon
  <2>2. made # <<>>
    <3> HIDE DEF made
    <3>1. QED
      BY <1>3, <2>0
  <2>3. PICK g \in [1 .. n -> Seq(R)] :
          /\ \A k \in 1 .. n : g[k] = IF k = 1 THEN made[k] ELSE g[k - 1] \o made[k]
          /\ FlattenSeq(made) = g[n]
    <3> HIDE DEF made
    <3>1. \E g \in [1 .. Len(made) -> Seq(R)] :
          /\ \A k \in 1 .. Len(made) : g[k] = IF k = 1 THEN made[k] ELSE g[k - 1] \o made[k]
          /\ FlattenSeq(made) = g[Len(made)]
      BY <1>3, <2>2, FlattenSteps, Zenon
    <3>2. QED
      BY <1>3, <3>1, Zenon
  <2> HIDE DEF n, made
  <2>4. ASSUME NEW k \in 1 .. n, k = 1 \/ Through(h, f[k - 1]) = g[k - 1]
        PROVE  Through(h, f[k]) = g[k]
    <3>1. /\ f[k] = IF k = 1 THEN parts[k] ELSE f[k - 1] \o parts[k]
          /\ g[k] = IF k = 1 THEN made[k] ELSE g[k - 1] \o made[k]
      BY <2>1, <2>3, Zenon
    <3>2. CASE k = 1
      BY <1>2, <3>1, <3>2, Zenon
    <3>3. CASE k # 1
      <4>1. k - 1 \in 1 .. n
        BY <1>1, <3>3
      <4>2. f[k - 1] \in Seq(S) /\ parts[k] \in Seq(S)
        BY <1>1, <2>1, <4>1, Zenon
      <4>3. Through(h, f[k - 1] \o parts[k]) = Through(h, f[k - 1]) \o Through(h, parts[k])
        <5> DEFINE x == f[k - 1]
                   y == parts[k]
        <5>1. x \in Seq(S) /\ y \in Seq(S)
          BY <4>2
        <5> HIDE DEF x, y
        <5>2. Through(h, x \o y) = Through(h, x) \o Through(h, y)
          BY <5>1, ThroughConcat
        <5>3. QED
          BY <5>2 DEF x, y
      <4>4. QED
        BY <1>2, <2>4, <3>1, <3>3, <4>3, Zenon
    <3>4. QED
      BY <3>2, <3>3
  <2>5. Through(h, f[n]) = g[n]
    <3> DEFINE T == {k \in 1 .. n : Through(h, f[k]) = g[k]}
    <3>1. ASSUME NEW k \in 1 .. n, k = 1 \/ k - 1 \in T PROVE k \in T
      BY <2>4, <3>1, Zenon
    <3> HIDE DEF T
    <3>2. \A k \in 1 .. n : k \in T
      BY <1>1, <3>1, Upwards, Zenon
    <3>3. n \in 1 .. n
      BY <1>1, <2>0
    <3>4. n \in T
      BY <3>2, <3>3, Zenon
    <3>5. QED
      BY <3>4, Zenon DEF T
  <2>6. QED
    BY <2>1, <2>3, <2>5, Zenon DEF made
<1>6. QED
  BY <1>4, <1>5

\* Parts of one element each are put together to their elements.
LEMMA FlattenSingles ==
  ASSUME NEW S, NEW s \in Seq(S), NEW parts \in Seq(Seq(S)), Len(parts) = Len(s),
         \A i \in 1 .. Len(s) : parts[i] = <<s[i]>>
  PROVE  FlattenSeq(parts) = s
<1> DEFINE n == Len(s)
<1>1. n \in Nat /\ s \in [1 .. n -> S] /\ \A i \in 1 .. n : s[i] \in S
  OBVIOUS
<1>2. CASE parts = <<>>
  <2>1. s = <<>> /\ FlattenSeq(parts) = parts
    BY <1>2, FlattenNone
  <2>2. QED
    BY <1>2, <2>1, Zenon
<1>3. CASE parts # <<>>
  <2>1. PICK f \in [1 .. Len(parts) -> Seq(S)] :
          /\ \A k \in 1 .. Len(parts) : f[k] = IF k = 1 THEN parts[k] ELSE f[k - 1] \o parts[k]
          /\ FlattenSeq(parts) = f[Len(parts)]
    BY <1>3, FlattenSteps, Zenon
  <2>2. /\ f \in [1 .. n -> Seq(S)] /\ FlattenSeq(parts) = f[n]
        /\ \A k \in 1 .. n : f[k] = IF k = 1 THEN <<s[k]>> ELSE f[k - 1] \o <<s[k]>>
    BY <2>1, Zenon
  <2>3. n > 0
    BY <1>1, <1>3
  <2> HIDE DEF n
  <2>4. ASSUME NEW k \in 1 .. n,
               k = 1 \/ (Len(f[k - 1]) = k - 1 /\ \A i \in 1 .. k - 1 : f[k - 1][i] = s[i])
        PROVE  Len(f[k]) = k /\ \A i \in 1 .. k : f[k][i] = s[i]
    <3>1. f[k] = IF k = 1 THEN <<s[k]>> ELSE f[k - 1] \o <<s[k]>>
      BY <2>2, Zenon
    <3>2. s[k] \in S
      BY <1>1
    <3>3. CASE k = 1
      BY <3>1, <3>2, <3>3
    <3>4. CASE k # 1
      <4> DEFINE a == f[k - 1]
                 x == s[k]
                 m == k - 1
      <4>1. m \in 1 .. n /\ m + 1 = k
        BY <1>1, <3>4
      <4>2. a \in Seq(S) /\ x \in S /\ Len(a) = m /\ \A i \in 1 .. m : a[i] = s[i]
        BY <2>2, <2>4, <3>2, <3>4, <4>1, Zenon
      <4>3. f[k] = a \o <<x>>
        BY <3>1, <3>4, Zenon
      <4> HIDE DEF a, m
      <4>4. m \in Nat /\ \A i \in 1 .. k : i \in 1 .. m \/ i = m + 1
        BY <1>1, <4>1
      <4>5. Len(a \o <<x>>) = m + 1 /\ (\A i \in 1 .. m : (a \o <<x>>)[i] = a[i]) /\ (a \o <<x>>)[m + 1] = x
        <5> HIDE DEF x
        <5>1. QED
          BY <4>2, <4>4
      <4>6. QED
        BY <4>1, <4>2, <4>3, <4>4, <4>5, Zenon DEF x
    <3>5. QED
      BY <3>3, <3>4
  <2>5. Len(f[n]) = n /\ \A i \in 1 .. n : f[n][i] = s[i]
    <3> DEFINE T == {k \in 1 .. n : Len(f[k]) = k /\ \A i \in 1 .. k : f[k][i] = s[i]}
    <3>1. ASSUME NEW k \in 1 .. n, k = 1 \/ k - 1 \in T PROVE k \in T
      BY <2>4, <3>1, Zenon
    <3> HIDE DEF T
    <3>2. \A k \in 1 .. n : k \in T
      BY <1>1, <3>1, Upwards, Zenon
    <3>3. n \in 1 .. n
      BY <1>1, <2>3
    <3>4. n \in T
      BY <3>2, <3>3, Zenon
    <3>5. QED
      BY <3>4, Zenon DEF T
  <2>6. f[n] \in Seq(S)
    <3>1. n \in 1 .. n
      BY <1>1, <2>3
    <3>2. QED
      BY <2>2, <3>1, Zenon
  <2> DEFINE g == f[n]
  <2> HIDE DEF g
  <2>7. g \in Seq(S) /\ Len(g) = n /\ \A i \in 1 .. n : g[i] = s[i]
    BY <2>5, <2>6, Zenon DEF g
  <2>8. g = s
    BY <1>1, <2>7
  <2>9. QED
    BY <2>2, <2>8, Zenon DEF g
<1>4. QED
  BY <1>2, <1>3

\* Empty parts are put together to nothing.
LEMMA FlattenEmpties ==
  ASSUME NEW parts, Len(parts) \in Nat, \A i \in 1 .. Len(parts) : parts[i] = <<>>,
         parts = <<>> \/ Len(parts) # 0
  PROVE  FlattenSeq(parts) = <<>>
<1> DEFINE n == Len(parts)
<1>1. CASE n = 0
  BY <1>1, FlattenNone
<1>2. CASE n # 0
  <2>1. PICK f : IsJoin(f, parts) /\ FlattenSeq(parts) = f[n]
    BY <1>2, FlattenJoins, Zenon
  <2>2. \A k \in 1 .. n : f[k] = IF k = 1 THEN parts[k] ELSE f[k - 1] \o parts[k]
    BY <2>1 DEF IsJoin
  <2> HIDE DEF n
  <2>3. <<>> \o <<>> = <<>>
    OBVIOUS
  <2>4. ASSUME NEW k \in 1 .. n, k = 1 \/ f[k - 1] = <<>> PROVE f[k] = <<>>
    <3>1. parts[k] = <<>>
      BY Zenon DEF n
    <3>2. QED
      BY <2>2, <2>3, <2>4, <3>1, Zenon
  <2> DEFINE T == {k \in 1 .. n : f[k] = <<>>}
  <2>5. ASSUME NEW k \in 1 .. n, k = 1 \/ k - 1 \in T PROVE k \in T
    BY <2>4, <2>5, Zenon
  <2> HIDE DEF T
  <2>6. n \in Nat /\ n \in 1 .. n
    BY <1>2 DEF n
  <2>7. \A k \in 1 .. n : k \in T
    BY <2>5, <2>6, Upwards, Zenon
  <2>8. f[n] = <<>>
    BY <2>6, <2>7, Zenon DEF T
  <2>9. QED
    BY <2>1, <2>8, Zenon
<1>3. QED
  BY <1>1, <1>2

\* Every element of what is put together is one of a part.
LEMMA FlattenElements ==
  ASSUME NEW S, NEW parts \in Seq(Seq(S)), NEW i \in DOMAIN FlattenSeq(parts)
  PROVE  \E j \in DOMAIN parts : \E k \in DOMAIN parts[j] : FlattenSeq(parts)[i] = parts[j][k]
<1> DEFINE n == Len(parts)
           All == {x \in S : \E j \in DOMAIN parts : \E k \in DOMAIN parts[j] : x = parts[j][k]}
<1>1. parts \in Seq(Seq(All))
  <2>1. n \in Nat /\ DOMAIN parts = 1 .. n /\ \A j \in 1 .. n : parts[j] \in Seq(S)
    OBVIOUS
  <2>2. ASSUME NEW j \in 1 .. n PROVE parts[j] \in Seq(All)
    <3> DEFINE a == parts[j]
    <3>2. a \in Seq(S) /\ j \in DOMAIN parts
      BY <2>1, Zenon
    <3>0. \A k \in DOMAIN a : a[k] \in S
      <4> HIDE DEF a
      <4>1. QED
        BY <3>2
    <3>1. \A k \in DOMAIN a : a[k] \in All
      BY <3>0, <3>2, Zenon
    <3> HIDE DEF a, All
    <3>3. a \in Seq(All)
      BY <3>1, <3>2
    <3>4. QED
      BY <3>3 DEF a
  <2> DEFINE T == Seq(All)
  <2> HIDE DEF All, T
  <2>3. parts \in Seq(T)
    <3>1. \A j \in 1 .. n : parts[j] \in T
      BY <2>2, Zenon DEF T
    <3>2. QED
      BY <3>1
  <2>4. QED
    BY <2>3 DEF T
<1>2. FlattenSeq(parts) \in Seq(All)
  <2> HIDE DEF All
  <2>1. QED
    BY <1>1, FlattenTyped, Zenon
<1>3. FlattenSeq(parts)[i] \in All
  <2> DEFINE a == FlattenSeq(parts)
  <2> HIDE DEF All, a
  <2>1. a \in Seq(All) /\ i \in DOMAIN a
    BY <1>2, Zenon DEF a
  <2>2. a[i] \in All
    BY <2>1
  <2>3. QED
    BY <2>2 DEF a
<1>4. QED
  BY <1>3, Zenon

----------------------------------------
(* What a message becomes in a body.                                         *)

PartKinds == {"text", "call", "result", "reasoning", "no reasoning"}
BodyPart  == [kind : PartKinds, id : SUBSET CallIds, cached : BOOLEAN]
Exchange  == {"call", "result"}
Replay    == {"reasoning"}

\* The fields of a message.
LEMMA MessageTyped ==
  ASSUME NEW m \in Message
  PROVE  /\ m.role \in {"system", "user", "assistant", "tool"}
         /\ m.text \in BOOLEAN /\ m.thought \in BOOLEAN /\ m.cache \in BOOLEAN
         /\ m.calls \in Seq(CallIds) /\ m.answers \in SUBSET CallIds
         /\ m.tells \in SUBSET {"agent", "skills", "task"}
<1>1. m.calls \in BoundedSeq(CallIds, 2)
  BY DEF Message
<1>2. PICK n \in 0 .. 2 : m.calls \in [1 .. n -> CallIds]
  BY <1>1 DEF BoundedSeq, SeqOf
<1>3. m.calls \in Seq(CallIds)
  BY <1>2
<1>4. QED
  BY <1>3 DEF Message

\* Each part of the kinds that are looked for, alone.
PickOf(kinds) == [p \in BodyPart |-> OneIf(p.kind \in kinds, p)]

LEMMA PickMaps ==
  ASSUME NEW kinds
  PROVE  Maps(PickOf(kinds), BodyPart, BodyPart)
<1>1. \A p \in BodyPart : OneIf(p.kind \in kinds, p) \in Seq(BodyPart)
  <2> HIDE DEF BodyPart
  <2>1. QED
    BY DEF OneIf
<1>2. QED
  BY <1>1, Zenon DEF Maps, PickOf

\* Looking for the parts of some kinds is going through PickOf.
LEMMA OfKindsIs ==
  ASSUME NEW kinds, NEW parts \in Seq(BodyPart)
  PROVE  OfKinds(parts, kinds) = Through(PickOf(kinds), parts)
<1>1. \A i \in DOMAIN parts : parts[i] \in BodyPart
  OBVIOUS
<1>2. \A i \in DOMAIN parts : PickOf(kinds)[parts[i]] = OneIf(parts[i].kind \in kinds, parts[i])
  BY <1>1, Zenon DEF PickOf
<1>3. Each(PickOf(kinds), parts) = [i \in DOMAIN parts |-> OneIf(parts[i].kind \in kinds, parts[i])]
  BY <1>2, Zenon DEF Each
<1>4. QED
  BY <1>3, Zenon DEF Through, OfKinds

LEMMA OfKindsTyped ==
  ASSUME NEW kinds, NEW parts \in Seq(BodyPart)
  PROVE  OfKinds(parts, kinds) \in Seq(BodyPart)
BY OfKindsIs, PickMaps, ThroughTyped, Zenon

LEMMA OfKindsConcat ==
  ASSUME NEW kinds, NEW a \in Seq(BodyPart), NEW b \in Seq(BodyPart)
  PROVE  OfKinds(a \o b, kinds) = OfKinds(a, kinds) \o OfKinds(b, kinds)
<1> DEFINE h == PickOf(kinds)
           S == BodyPart
<1>1. Maps(h, S, S) /\ a \in Seq(S) /\ b \in Seq(S)
  BY PickMaps
<1>2. OfKinds(a, kinds) = Through(h, a) /\ OfKinds(b, kinds) = Through(h, b)
  BY OfKindsIs, Zenon
<1>3. OfKinds(a \o b, kinds) = Through(h, a \o b)
  <2> DEFINE c == a \o b
  <2>1. c \in Seq(BodyPart)
    <3> HIDE DEF h, S
    <3>1. QED
      OBVIOUS
  <2> HIDE DEF c
  <2>2. OfKinds(c, kinds) = Through(h, c)
    BY <2>1, OfKindsIs, Zenon
  <2>3. QED
    BY <2>2, Zenon DEF c
<1> HIDE DEF h, S
<1>4. Through(h, a \o b) = Through(h, a) \o Through(h, b)
  BY <1>1, ThroughConcat
<1>5. QED
  BY <1>2, <1>3, <1>4

LEMMA OfKindsNone ==
  ASSUME NEW kinds
  PROVE  OfKinds(<<>>, kinds) = <<>>
<1>1. <<>> \in Seq(BodyPart)
  OBVIOUS
<1>2. QED
  BY <1>1, OfKindsIs, ThroughNone, Zenon

LEMMA OfKindsOne ==
  ASSUME NEW kinds, NEW p \in BodyPart
  PROVE  <<p>> \in Seq(BodyPart) /\ OfKinds(<<p>>, kinds) = OneIf(p.kind \in kinds, p)
<1>1. <<p>> \in Seq(BodyPart)
  <2> DEFINE S == BodyPart
  <2> HIDE DEF S
  <2>1. p \in S => <<p>> \in Seq(S)
    OBVIOUS
  <2>2. QED
    BY <2>1, Zenon DEF S
<1>2. OfKinds(<<p>>, kinds) = Through(PickOf(kinds), <<p>>)
  BY <1>1, OfKindsIs, Zenon
<1>3. Through(PickOf(kinds), <<p>>) = PickOf(kinds)[p]
  BY PickMaps, ThroughOne, Zenon
<1>4. QED
  BY <1>1, <1>2, <1>3, Zenon DEF PickOf

\* The calls of a message are parts, one each.
LEMMA CallsTyped ==
  ASSUME NEW m \in Message
  PROVE  /\ CallParts(m) \in Seq(BodyPart) /\ Len(CallParts(m)) = Len(m.calls)
         /\ \A i \in 1 .. Len(m.calls) : CallParts(m)[i] = Call(m.calls[i]) /\ Call(m.calls[i]) \in BodyPart
<1>1. m.calls \in Seq(CallIds)
  BY MessageTyped, Zenon
<1> DEFINE s == m.calls
           n == Len(s)
<1> HIDE DEF s
<1>2. s \in Seq(CallIds) /\ CallParts(m) = [i \in DOMAIN s |-> Call(s[i])] /\ n = Len(m.calls)
  BY <1>1, Zenon DEF s, CallParts
<1>3. n \in Nat /\ DOMAIN s = 1 .. n /\ \A i \in 1 .. n : s[i] \in CallIds
  BY <1>2
<1>4. \A i \in 1 .. n : Call(s[i]) \in BodyPart
  BY <1>3 DEF Call, BodyPart, PartKinds
<1> DEFINE S == BodyPart
<1> HIDE DEF S, n
<1>5. CallParts(m) \in [1 .. n -> S]
  BY <1>2, <1>3, <1>4, Zenon DEF S
<1>6. CallParts(m) \in Seq(S) /\ Len(CallParts(m)) = n
  BY <1>3, <1>5
<1>7. \A i \in 1 .. n : CallParts(m)[i] = Call(s[i])
  BY <1>2, <1>3, Zenon
<1>8. QED
  BY <1>2, <1>4, <1>6, <1>7, Zenon DEF S, s

\* The calls of a message are exchanges, one part each.
LEMMA CallsPicked ==
  ASSUME NEW m \in Message
  PROVE  OfKinds(CallParts(m), Exchange) = CallParts(m) /\ OfKinds(CallParts(m), Replay) = <<>>
<1> DEFINE s == CallParts(m)
           S == BodyPart
           n == Len(s)
<1>1. s \in Seq(S) /\ \A i \in 1 .. n : s[i].kind = "call" /\ s[i] \in S
  <2>1. \A i \in 1 .. Len(m.calls) : Call(m.calls[i]).kind = "call"
    BY DEF Call
  <2>2. QED
    BY <2>1, CallsTyped, Zenon
<1> HIDE DEF s
<1>2. n \in Nat /\ DOMAIN s = 1 .. n
  <2> HIDE DEF S
  <2>1. QED
    BY <1>1
<1>3. ASSUME NEW kinds
      PROVE  /\ Each(PickOf(kinds), s) \in Seq(Seq(S)) /\ Len(Each(PickOf(kinds), s)) = n
             /\ \A i \in 1 .. n : Each(PickOf(kinds), s)[i] = OneIf("call" \in kinds, s[i])
             /\ OfKinds(s, kinds) = FlattenSeq(Each(PickOf(kinds), s))
  <2>1. \A i \in 1 .. n : Each(PickOf(kinds), s)[i] = PickOf(kinds)[s[i]]
    BY <1>2, Zenon DEF Each
  <2>2. \A i \in 1 .. n : PickOf(kinds)[s[i]] = OneIf("call" \in kinds, s[i])
    BY <1>1, Zenon DEF PickOf
  <2>3. OfKinds(s, kinds) = FlattenSeq(Each(PickOf(kinds), s))
    BY <1>1, OfKindsIs, Zenon DEF Through
  <2>4. Each(PickOf(kinds), s) \in Seq(Seq(S))
    BY <1>1, PickMaps, EachTyped, Zenon
  <2>5. Len(Each(PickOf(kinds), s)) = n
    <3> DEFINE h == PickOf(kinds)
    <3>1. Maps(h, S, S)
      BY PickMaps
    <3> HIDE DEF h, S
    <3>2. Len(Each(h, s)) = Len(s)
      BY <1>1, <3>1, EachTyped
    <3>3. QED
      BY <3>2 DEF h
  <2>6. QED
    BY <2>1, <2>2, <2>3, <2>4, <2>5, Zenon
<1>4. OfKinds(s, Exchange) = s
  <2> DEFINE e == Each(PickOf(Exchange), s)
  <2>1. e \in Seq(Seq(S)) /\ Len(e) = n /\ OfKinds(s, Exchange) = FlattenSeq(e)
    BY <1>3, Zenon
  <2>2. "call" \in Exchange
    BY DEF Exchange
  <2>3. \A i \in 1 .. n : e[i] = <<s[i]>>
    BY <1>3, <2>2, Zenon DEF OneIf
  <2> HIDE DEF e, S
  <2>4. FlattenSeq(e) = s
    BY <1>1, <2>1, <2>3, FlattenSingles
  <2>5. QED
    BY <2>1, <2>4
<1>5. OfKinds(s, Replay) = <<>>
  <2> DEFINE e == Each(PickOf(Replay), s)
  <2>1. e \in Seq(Seq(S)) /\ Len(e) = n /\ OfKinds(s, Replay) = FlattenSeq(e)
    BY <1>3, Zenon
  <2>2. "call" \notin Replay
    BY DEF Replay
  <2>3. \A i \in 1 .. n : e[i] = <<>>
    BY <1>3, <2>2, Zenon DEF OneIf
  <2> HIDE DEF e, S
  <2>4. e = <<>> \/ Len(e) # 0
    BY <2>1
  <2>5. FlattenSeq(e) = <<>>
    BY <1>2, <2>1, <2>3, <2>4, FlattenEmpties
  <2>6. QED
    BY <2>1, <2>5
<1>6. QED
  BY <1>4, <1>5 DEF s

\* A message of a session: calls and reasoning are an answer's.
MessageShape(m) == m \in Message /\ (m.calls # <<>> \/ m.thought => m.role = "assistant")

\* The parts tell the exchanges of the message, and its reasoning where that is
\* replayed.
Tells(m, parts, replays) ==
  /\ parts \in Seq(BodyPart)
  /\ OfKinds(parts, Exchange) = Exchanged(m)
  /\ OfKinds(parts, Replay) = OneIf(m.thought /\ replays, Reasoning(m))

\* Parts that tell neither.
Quiet(parts) ==
  parts \in Seq(BodyPart) /\ OfKinds(parts, Exchange) = <<>> /\ OfKinds(parts, Replay) = <<>>

\* Nothing, a text and a field without reasoning tell neither.
LEMMA QuietNone == Quiet(<<>>)
<1>1. <<>> \in Seq(BodyPart)
  OBVIOUS
<1>2. QED
  BY <1>1, OfKindsNone, Zenon DEF Quiet

LEMMA QuietOne ==
  ASSUME NEW p \in BodyPart, p.kind \in {"text", "no reasoning"}
  PROVE  Quiet(<<p>>)
<1>1. p.kind \notin Exchange /\ p.kind \notin Replay
  BY DEF Exchange, Replay
<1>2. QED
  BY <1>1, OfKindsOne, Zenon DEF Quiet, OneIf

LEMMA QuietIf ==
  ASSUME NEW condition \in BOOLEAN, NEW p \in BodyPart, p.kind \in {"text", "no reasoning"}
  PROVE  Quiet(OneIf(condition, p))
BY QuietNone, QuietOne, Zenon DEF OneIf

\* Quiet parts in front change nothing.
LEMMA QuietFront ==
  ASSUME NEW front, Quiet(front), NEW parts \in Seq(BodyPart)
  PROVE  /\ front \o parts \in Seq(BodyPart)
         /\ OfKinds(front \o parts, Exchange) = OfKinds(parts, Exchange)
         /\ OfKinds(front \o parts, Replay) = OfKinds(parts, Replay)
<1> DEFINE S == BodyPart
<1>1. front \in Seq(S) /\ parts \in Seq(S)
  BY DEF Quiet
<1>2. ASSUME NEW kinds, OfKinds(front, kinds) = <<>>
      PROVE  OfKinds(front \o parts, kinds) = OfKinds(parts, kinds)
  <2> DEFINE x == OfKinds(parts, kinds)
  <2>1. OfKinds(front \o parts, kinds) = <<>> \o x
    BY <1>1, <1>2, OfKindsConcat
  <2>2. x \in Seq(S)
    BY <1>1, OfKindsTyped, Zenon
  <2> HIDE DEF x, S
  <2>3. <<>> \o x = x
    BY <2>2, ConcatEmptyKeeps
  <2>4. QED
    BY <2>1, <2>3 DEF x
<1>3. front \o parts \in Seq(S)
  <2> HIDE DEF S
  <2>1. QED
    BY <1>1
<1>4. QED
  BY <1>2, <1>3, Zenon DEF Quiet

\* The text of a message tells neither.
LEMMA TextQuiet ==
  ASSUME NEW m \in Message
  PROVE  Quiet(TextParts(m))
<1>1. Text(FALSE) \in BodyPart /\ Text(FALSE).kind = "text"
  BY DEF Text, BodyPart, PartKinds
<1>2. m.text \in BOOLEAN
  BY MessageTyped, Zenon
<1>3. QED
  BY <1>1, <1>2, QuietIf DEF TextParts

\* The reasoning field tells the reasoning alone.
LEMMA ReasoningPart ==
  ASSUME NEW m \in Message
  PROVE  /\ Reasoning(m) \in BodyPart /\ <<Reasoning(m)>> \in Seq(BodyPart)
         /\ OfKinds(<<Reasoning(m)>>, Exchange) = <<>>
         /\ OfKinds(<<Reasoning(m)>>, Replay) = OneIf(m.thought, Reasoning(m))
<1>1. m.thought \in BOOLEAN
  BY MessageTyped, Zenon
<1>2. Reasoning(m) \in BodyPart
  BY DEF Reasoning, BodyPart, PartKinds
<1>3. Reasoning(m).kind \notin Exchange /\ (Reasoning(m).kind \in Replay <=> m.thought)
  BY <1>1 DEF Reasoning, Exchange, Replay
<1>4. QED
  BY <1>1, <1>2, <1>3, OfKindsOne, Zenon DEF OneIf

LEMMA NoCallsNoParts ==
  ASSUME NEW m \in Message, m.calls = <<>>
  PROVE  CallParts(m) = <<>>
BY DEF CallParts

\* An answer's text, reasoning and calls.
LEMMA AnswerTold ==
  ASSUME NEW m, MessageShape(m), m.role = "assistant"
  PROVE  /\ Tells(m, (TextParts(m) \o <<Reasoning(m)>>) \o CallParts(m), TRUE)
         /\ Tells(m, TextParts(m) \o CallParts(m), FALSE)
<1> DEFINE S == BodyPart
           t == TextParts(m)
           r == <<Reasoning(m)>>
           c == CallParts(m)
<1>1. m \in Message /\ m.thought \in BOOLEAN
  BY MessageTyped, Zenon DEF MessageShape
<1>2. /\ Quiet(t) /\ t \in Seq(S)
      /\ r \in Seq(S) /\ OfKinds(r, Exchange) = <<>> /\ OfKinds(r, Replay) = OneIf(m.thought, Reasoning(m))
      /\ c \in Seq(S) /\ OfKinds(c, Exchange) = c /\ OfKinds(c, Replay) = <<>>
  BY <1>1, TextQuiet, ReasoningPart, CallsTyped, CallsPicked, Zenon DEF Quiet
<1>3. Exchanged(m) = c
  <2>1. OneIf(m.role = "tool", Answer(m)) = <<>>
    BY DEF OneIf
  <2>2. Exchanged(m) = c \o <<>>
    BY <2>1, Zenon DEF Exchanged
  <2> HIDE DEF c, S
  <2>3. c \o <<>> = c
    BY <1>2, ConcatEmptyKeeps
  <2>4. QED
    BY <2>2, <2>3
<1>4. /\ r \o c \in Seq(S) /\ OfKinds(r \o c, Exchange) = c
      /\ OfKinds(r \o c, Replay) = OneIf(m.thought, Reasoning(m))
  <2> DEFINE o == OneIf(m.thought, Reasoning(m))
  <2>0. o \in Seq(S)
    BY <1>2, OfKindsTyped, Zenon
  <2> HIDE DEF r, c, o
  <2>1. OfKinds(r \o c, Exchange) = <<>> \o c /\ OfKinds(r \o c, Replay) = o \o <<>>
    <3>1. OfKinds(r \o c, Exchange) = OfKinds(r, Exchange) \o OfKinds(c, Exchange)
      BY <1>2, OfKindsConcat
    <3>2. OfKinds(r \o c, Replay) = OfKinds(r, Replay) \o OfKinds(c, Replay)
      BY <1>2, OfKindsConcat
    <3>3. QED
      BY <1>2, <3>1, <3>2, Zenon DEF o
  <2> HIDE DEF S
  <2>2. <<>> \o c = c /\ o \o <<>> = o /\ r \o c \in Seq(S)
    BY <1>2, <2>0, ConcatEmptyKeeps
  <2>3. QED
    BY <2>1, <2>2, Zenon DEF o
<1>5. (t \o r) \o c = t \o (r \o c)
  <2> HIDE DEF S, t, r, c
  <2>1. QED
    BY <1>2, ConcatAssociates
<1> HIDE DEF t, r, c
<1> DEFINE rc == r \o c
<1>6. rc \in Seq(S) /\ OfKinds(rc, Exchange) = c /\ OfKinds(rc, Replay) = OneIf(m.thought, Reasoning(m))
  BY <1>4, Zenon
<1>7. (t \o r) \o c = t \o rc
  BY <1>5, Zenon
<1> HIDE DEF rc
<1>8. /\ t \o rc \in Seq(S) /\ OfKinds(t \o rc, Exchange) = c
      /\ OfKinds(t \o rc, Replay) = OneIf(m.thought, Reasoning(m))
  BY <1>2, <1>6, QuietFront
<1>9. t \o c \in Seq(S) /\ OfKinds(t \o c, Exchange) = c /\ OfKinds(t \o c, Replay) = <<>>
  BY <1>2, QuietFront
<1>10. /\ OneIf(m.thought /\ TRUE, Reasoning(m)) = OneIf(m.thought, Reasoning(m))
       /\ OneIf(m.thought /\ FALSE, Reasoning(m)) = <<>>
  BY <1>1 DEF OneIf
<1>11. Tells(m, (t \o r) \o c, TRUE)
  BY <1>3, <1>7, <1>8, <1>10, Zenon DEF Tells
<1>12. Tells(m, t \o c, FALSE)
  BY <1>3, <1>9, <1>10, Zenon DEF Tells
<1>13. QED
  BY <1>11, <1>12 DEF t, r, c

\* A message without calls that is no result is told by anything quiet, but for
\* its reasoning.
LEMMA QuietTold ==
  ASSUME NEW m, MessageShape(m), m.role # "tool", m.calls = <<>>, NEW parts, Quiet(parts),
         NEW replays \in BOOLEAN, m.thought => ~ replays
  PROVE  Tells(m, parts, replays)
<1>1. m \in Message /\ m.thought \in BOOLEAN
  BY MessageTyped, Zenon DEF MessageShape
<1>2. CallParts(m) = <<>> /\ OneIf(m.role = "tool", Answer(m)) = <<>>
  BY <1>1, NoCallsNoParts DEF OneIf
<1>3. <<>> \o <<>> = <<>>
  OBVIOUS
<1>4. Exchanged(m) = <<>>
  BY <1>2, <1>3 DEF Exchanged
<1>5. OneIf(m.thought /\ replays, Reasoning(m)) = <<>>
  BY <1>1 DEF OneIf
<1>6. QED
  BY <1>4, <1>5, Zenon DEF Tells, Quiet

\* A result is told by itself.
LEMMA ResultTold ==
  ASSUME NEW m, MessageShape(m), m.role = "tool", NEW replays \in BOOLEAN
  PROVE  Tells(m, <<Answer(m)>>, replays)
<1>1. m \in Message /\ m.thought = FALSE /\ m.calls = <<>> /\ m.answers \in SUBSET CallIds
  BY MessageTyped, Zenon DEF MessageShape
<1>2. Answer(m) \in BodyPart /\ Answer(m).kind = "result"
  BY <1>1 DEF Answer, BodyPart, PartKinds
<1>3. Answer(m).kind \in Exchange /\ Answer(m).kind \notin Replay
  BY <1>2 DEF Exchange, Replay
<1>4. /\ <<Answer(m)>> \in Seq(BodyPart) /\ OfKinds(<<Answer(m)>>, Exchange) = <<Answer(m)>>
      /\ OfKinds(<<Answer(m)>>, Replay) = <<>>
  BY <1>2, <1>3, OfKindsOne, Zenon DEF OneIf
<1>5. CallParts(m) = <<>> /\ OneIf(m.role = "tool", Answer(m)) = <<Answer(m)>>
  BY <1>1, NoCallsNoParts DEF OneIf
<1>6. <<>> \o <<Answer(m)>> = <<Answer(m)>>
  OBVIOUS
<1>7. Exchanged(m) = <<Answer(m)>>
  BY <1>5, <1>6 DEF Exchanged
<1>8. OneIf(m.thought /\ replays, Reasoning(m)) = <<>>
  BY <1>1 DEF OneIf
<1>9. QED
  BY <1>4, <1>7, <1>8, Zenon DEF Tells

----------------------------------------
(* The items of a message in each format.                                    *)

BodyRoles == {"system", "user", "assistant", "tool", "call"}
BodyItem == [role : BodyRoles, parts : Seq(BodyPart)]
PlainPart == {p \in BodyPart : ~ p.cached}
PartsIn == [x \in BodyItem |-> x.parts]

\* No mark, and to DeepSeek the reasoning field with every answer.
WellSent(x) ==
  /\ x \in BodyItem /\ x.parts \in Seq(PlainPart)
  /\ x.role = "assistant" /\ Style = "deepseek" =>
       \E k \in DOMAIN x.parts : x.parts[k].kind \in {"reasoning", "no reasoning"}

\* Items have their parts.
LEMMA PartsInMaps == Maps(PartsIn, BodyItem, BodyPart)
<1>1. \A x \in BodyItem : x.parts \in Seq(BodyPart)
  <2> DEFINE T == Seq(BodyPart)
  <2> HIDE DEF T
  <2>1. BodyItem = [role : BodyRoles, parts : T]
    BY Zenon DEF BodyItem, T
  <2>2. \A x \in BodyItem : x.parts \in T
    BY <2>1
  <2>3. QED
    BY <2>2 DEF T
<1>2. QED
  BY <1>1, Zenon DEF Maps, PartsIn

LEMMA ItemTyped ==
  ASSUME NEW role \in BodyRoles, NEW parts \in Seq(BodyPart)
  PROVE  /\ Item(role, parts) \in BodyItem
         /\ Item(role, parts).role = role /\ Item(role, parts).parts = parts
         /\ PartsIn[Item(role, parts)] = parts
<1> DEFINE T == Seq(BodyPart)
<1>0. parts \in T
  OBVIOUS
<1> HIDE DEF T
<1>1. Item(role, parts) \in [role : BodyRoles, parts : T]
  BY <1>0 DEF Item
<1>2. Item(role, parts).role = role /\ Item(role, parts).parts = parts
  BY DEF Item
<1>3. Item(role, parts) \in BodyItem
  BY <1>1, Zenon DEF BodyItem, T
<1>4. QED
  BY <1>2, <1>3, Zenon DEF PartsIn

\* Parts without a mark are parts, and stay without when joined.
LEMMA PlainIsPart ==
  ASSUME NEW parts \in Seq(PlainPart)
  PROVE  parts \in Seq(BodyPart)
<1>1. PlainPart \subseteq BodyPart
  BY DEF PlainPart
<1> DEFINE P == PlainPart
           S == BodyPart
<1> HIDE DEF P, S
<1>2. parts \in Seq(P) /\ P \subseteq S => parts \in Seq(S)
  OBVIOUS
<1>3. QED
  BY <1>1, <1>2, Zenon DEF P, S

LEMMA PlainOne ==
  ASSUME NEW p \in BodyPart, p.cached = FALSE
  PROVE  <<p>> \in Seq(PlainPart)
<1>1. p \in PlainPart
  BY DEF PlainPart
<1> DEFINE P == PlainPart
<1> HIDE DEF P
<1>2. p \in P => <<p>> \in Seq(P)
  OBVIOUS
<1>3. QED
  BY <1>1, <1>2, Zenon DEF P

LEMMA PlainConcat ==
  ASSUME NEW a \in Seq(PlainPart), NEW b \in Seq(PlainPart)
  PROVE  a \o b \in Seq(PlainPart)
<1> DEFINE P == PlainPart
<1>1. a \in Seq(P) /\ b \in Seq(P)
  OBVIOUS
<1> HIDE DEF P
<1>2. a \o b \in Seq(P)
  BY <1>1
<1>3. QED
  BY <1>2 DEF P

\* Nothing of a message asks for a mark by itself.
LEMMA MessagePlain ==
  ASSUME NEW m \in Message
  PROVE  /\ TextParts(m) \in Seq(PlainPart) /\ <<Reasoning(m)>> \in Seq(PlainPart)
         /\ CallParts(m) \in Seq(PlainPart) /\ <<Answer(m)>> \in Seq(PlainPart)
         /\ \A i \in 1 .. Len(m.calls) : <<Call(m.calls[i])>> \in Seq(PlainPart)
<1>1. Text(FALSE) \in BodyPart /\ Text(FALSE).cached = FALSE
  BY DEF Text, BodyPart, PartKinds
<1>2. TextParts(m) \in Seq(PlainPart)
  <2>1. <<>> \in Seq(PlainPart)
    OBVIOUS
  <2>2. QED
    BY <1>1, <2>1, PlainOne, Zenon DEF TextParts, OneIf
<1>3. <<Reasoning(m)>> \in Seq(PlainPart)
  <2>1. Reasoning(m).cached = FALSE
    BY DEF Reasoning
  <2>2. QED
    BY <2>1, ReasoningPart, PlainOne, Zenon
<1>4. <<Answer(m)>> \in Seq(PlainPart)
  <2>1. m.answers \in SUBSET CallIds
    BY MessageTyped, Zenon
  <2>2. Answer(m) \in BodyPart /\ Answer(m).cached = FALSE
    BY <2>1 DEF Answer, BodyPart, PartKinds
  <2>3. QED
    BY <2>2, PlainOne, Zenon
<1>5. \A i \in 1 .. Len(m.calls) : Call(m.calls[i]) \in BodyPart /\ Call(m.calls[i]).cached = FALSE
  <2>1. \A i \in 1 .. Len(m.calls) : Call(m.calls[i]).cached = FALSE
    BY DEF Call
  <2>2. QED
    BY <2>1, CallsTyped, Zenon
<1>6. CallParts(m) \in Seq(PlainPart)
  <2> DEFINE P == PlainPart
             s == CallParts(m)
             S == BodyPart
  <2>1. s \in Seq(S) /\ Len(s) = Len(m.calls)
    BY CallsTyped, Zenon
  <2>2. \A i \in 1 .. Len(s) : s[i] \in P
    BY <1>5, <2>1, CallsTyped, Zenon DEF PlainPart
  <2> HIDE DEF P, s, S
  <2>3. s \in Seq(P)
    BY <2>1, <2>2
  <2>4. QED
    BY <2>3 DEF P, s
<1>7. QED
  BY <1>2, <1>3, <1>4, <1>5, <1>6, PlainOne, Zenon

\* One item, with its parts.
LEMMA OneItem ==
  ASSUME NEW role \in BodyRoles, NEW parts \in Seq(PlainPart)
  PROVE  /\ <<Item(role, parts)>> \in Seq(BodyItem)
         /\ Through(PartsIn, <<Item(role, parts)>>) = parts
<1>1. Item(role, parts) \in BodyItem /\ PartsIn[Item(role, parts)] = parts
  BY PlainIsPart, ItemTyped, Zenon
<1> DEFINE S == BodyItem
           x == Item(role, parts)
<1>2. Through(PartsIn, <<x>>) = PartsIn[x]
  BY <1>1, PartsInMaps, ThroughOne, Zenon
<1>3. x \in S
  BY <1>1
<1> HIDE DEF S, x
<1>4. <<x>> \in Seq(S)
  BY <1>3
<1>5. QED
  BY <1>1, <1>2, <1>4, Zenon DEF S, x

\* The calls of an answer as items of their own.
CallItems(m) == [i \in DOMAIN m.calls |-> Item("call", <<Call(m.calls[i])>>)]

\* Each of them is sent, with its call.
LEMMA CallItemsSent ==
  ASSUME NEW m \in Message
  PROVE  /\ CallItems(m) \in Seq(BodyItem) /\ Through(PartsIn, CallItems(m)) = CallParts(m)
         /\ \A i \in DOMAIN CallItems(m) : WellSent(CallItems(m)[i])
<1> DEFINE s == m.calls
           n == Len(s)
           x == CallItems(m)
           S == BodyItem
           c == CallParts(m)
           e == Each(PartsIn, x)
<1>1. s \in Seq(CallIds)
  BY MessageTyped, Zenon
<1>2. n \in Nat /\ DOMAIN s = 1 .. n
  <2> HIDE DEF s
  <2>1. QED
    BY <1>1
<1>3. \A i \in 1 .. n : /\ x[i] = Item("call", <<Call(s[i])>>)
                        /\ x[i] \in S /\ PartsIn[x[i]] = <<c[i]>> /\ WellSent(x[i])
  <2> SUFFICES ASSUME NEW i \in 1 .. n
               PROVE  /\ x[i] = Item("call", <<Call(s[i])>>)
                      /\ x[i] \in S /\ PartsIn[x[i]] = <<c[i]>> /\ WellSent(x[i])
    OBVIOUS
  <2>1. x[i] = Item("call", <<Call(s[i])>>)
    BY <1>2, Zenon DEF CallItems
  <2>2. <<Call(s[i])>> \in Seq(PlainPart) /\ c[i] = Call(s[i])
    BY MessagePlain, CallsTyped, Zenon
  <2>3. x[i] \in S /\ x[i].role = "call" /\ x[i].parts = <<Call(s[i])>> /\ PartsIn[x[i]] = <<c[i]>>
    <3>1. "call" \in BodyRoles
      BY DEF BodyRoles
    <3> DEFINE p == <<Call(s[i])>>
    <3>2. p \in Seq(BodyPart)
      BY <2>2, PlainIsPart, Zenon
    <3>3. p = <<c[i]>>
      BY <2>2, Zenon
    <3> HIDE DEF p, s, c
    <3>4. /\ Item("call", p) \in BodyItem
          /\ Item("call", p).role = "call" /\ Item("call", p).parts = p
          /\ PartsIn[Item("call", p)] = p
      BY <3>1, <3>2, ItemTyped, Zenon
    <3>5. x[i] = Item("call", p)
      BY <2>1, Zenon DEF p
    <3>6. QED
      BY <3>3, <3>4, <3>5, Zenon DEF p
  <2>4. WellSent(x[i])
    BY <2>2, <2>3 DEF WellSent
  <2>5. QED
    BY <2>1, <2>3, <2>4
<1>4. x \in [1 .. n -> S]
  <2>1. x = [i \in 1 .. n |-> Item("call", <<Call(s[i])>>)]
    BY <1>2, Zenon DEF CallItems
  <2> HIDE DEF S, s, n
  <2>2. \A i \in 1 .. n : Item("call", <<Call(s[i])>>) \in S
    BY <1>3, Zenon
  <2>3. QED
    BY <2>1, <2>2, Zenon
<1> HIDE DEF S, x, n
<1>5. x \in Seq(S) /\ Len(x) = n /\ DOMAIN x = 1 .. n
  BY <1>2, <1>4
<1>6. e \in Seq(Seq(BodyPart)) /\ Len(e) = n
  <2>1. Maps(PartsIn, S, BodyPart)
    BY PartsInMaps DEF S
  <2>2. Len(Each(PartsIn, x)) = Len(x)
    BY <1>5, <2>1, EachTyped
  <2>3. QED
    BY <1>5, <2>1, <2>2, EachTyped, Zenon
<1>7. \A i \in 1 .. n : e[i] = <<c[i]>>
  BY <1>3, <1>5, Zenon DEF Each
<1>8. c \in Seq(BodyPart) /\ Len(c) = n
  BY CallsTyped, Zenon DEF n
<1> HIDE DEF e, c, s
<1>9. FlattenSeq(e) = c
  BY <1>6, <1>7, <1>8, FlattenSingles
<1>10. QED
  BY <1>3, <1>5, <1>9, Zenon DEF S, x, e, c, Through

\* ResponsesItems tells a message, with its reasoning.
LEMMA ResponsesTold ==
  ASSUME NEW m, MessageShape(m)
  PROVE  /\ ResponsesItems(m) \in Seq(BodyItem)
         /\ \A i \in DOMAIN ResponsesItems(m) : WellSent(ResponsesItems(m)[i])
         /\ Tells(m, Through(PartsIn, ResponsesItems(m)), TRUE)
<1> DEFINE told == m.calls # <<>> \/ m.thought \/ Style \in {"deepseek", "chat-compatible"}
<1>1. /\ m \in Message /\ m.role \in {"system", "user", "assistant", "tool"}
      /\ m.thought \in BOOLEAN /\ (m.role # "assistant" => m.calls = <<>> /\ ~ m.thought)
  BY MessageTyped, Zenon DEF MessageShape
<1>2. /\ TextParts(m) \in Seq(PlainPart) /\ <<Reasoning(m)>> \in Seq(PlainPart)
      /\ CallParts(m) \in Seq(PlainPart) /\ <<Answer(m)>> \in Seq(PlainPart)
  BY <1>1, MessagePlain, Zenon
<1>3. ASSUME NEW role \in BodyRoles, NEW parts \in Seq(PlainPart),
             ResponsesItems(m) = <<Item(role, parts)>>,
             role = "assistant" /\ Style = "deepseek" =>
               \E k \in DOMAIN parts : parts[k].kind \in {"reasoning", "no reasoning"},
             Tells(m, parts, TRUE)
      PROVE  /\ ResponsesItems(m) \in Seq(BodyItem)
             /\ \A i \in DOMAIN ResponsesItems(m) : WellSent(ResponsesItems(m)[i])
             /\ Tells(m, Through(PartsIn, ResponsesItems(m)), TRUE)
  <2>1. <<Item(role, parts)>> \in Seq(BodyItem) /\ Through(PartsIn, <<Item(role, parts)>>) = parts
    BY OneItem, Zenon
  <2>2. parts \in Seq(BodyPart)
    BY PlainIsPart, Zenon
  <2>3. /\ Item(role, parts) \in BodyItem
        /\ Item(role, parts).role = role /\ Item(role, parts).parts = parts
    BY <2>2, ItemTyped, Zenon
  <2>4. WellSent(Item(role, parts))
    BY <1>3, <2>3, Zenon DEF WellSent
  <2>5. \A i \in DOMAIN <<Item(role, parts)>> : <<Item(role, parts)>>[i] = Item(role, parts)
    OBVIOUS
  <2>6. QED
    BY <1>3, <2>1, <2>4, <2>5, Zenon
<1>4. CASE m.role = "system"
  <2>1. ResponsesItems(m) = <<>>
    BY <1>4 DEF ResponsesItems
  <2>2. <<>> \in Seq(BodyItem) /\ DOMAIN <<>> = {}
    OBVIOUS
  <2>3. Through(PartsIn, <<>>) = <<>> /\ Quiet(<<>>)
    BY ThroughNone, QuietNone, Zenon
  <2>4. m.role # "tool" /\ m.calls = <<>> /\ (m.thought => ~ TRUE)
    BY <1>1, <1>4
  <2>5. Tells(m, <<>>, TRUE)
    BY <2>3, <2>4, QuietTold
  <2>6. QED
    BY <2>1, <2>2, <2>3, <2>5, Zenon
<1>5. CASE m.role = "tool"
  <2>1. ResponsesItems(m) = <<Item("tool", <<Answer(m)>>)>>
    BY <1>5 DEF ResponsesItems
  <2>2. Tells(m, <<Answer(m)>>, TRUE)
    BY <1>5, ResultTold
  <2>3. "tool" \in BodyRoles /\ "tool" # "assistant"
    BY DEF BodyRoles
  <2>4. QED
    BY <1>2, <1>3, <2>1, <2>2, <2>3, Zenon
<1>6. CASE m.role = "assistant" /\ told
  <2> DEFINE t == TextParts(m) \o <<Reasoning(m)>>
             x == Item("assistant", t)
             y == CallItems(m)
             c == CallParts(m)
  <2>1. ResponsesItems(m) = <<x>> \o y
    BY <1>6 DEF ResponsesItems, CallItems
  <2>2. t \in Seq(PlainPart)
    BY <1>2, PlainConcat, Zenon
  <2>3. \E k \in DOMAIN t : t[k].kind \in {"reasoning", "no reasoning"}
    <3> DEFINE a == TextParts(m)
               r == Reasoning(m)
               P == PlainPart
    <3>1. a \in Seq(P) /\ <<r>> \in Seq(P) /\ t = a \o <<r>>
      BY <1>2
    <3>2. r.kind \in {"reasoning", "no reasoning"}
      BY DEF Reasoning
    <3> HIDE DEF a, r, P, t
    <3>3. Len(a) + 1 \in DOMAIN t /\ t[Len(a) + 1] = r
      BY <3>1
    <3>4. QED
      BY <3>2, <3>3
  <2>4. /\ <<x>> \in Seq(BodyItem) /\ Through(PartsIn, <<x>>) = t /\ WellSent(x)
    <3>1. "assistant" \in BodyRoles
      BY DEF BodyRoles
    <3> HIDE DEF t
    <3>2. <<x>> \in Seq(BodyItem) /\ Through(PartsIn, <<x>>) = t
      BY <2>2, <3>1, OneItem, Zenon
    <3>3. t \in Seq(BodyPart)
      BY <2>2, PlainIsPart, Zenon
    <3>4. x \in BodyItem /\ x.parts = t
      BY <3>1, <3>3, ItemTyped, Zenon
    <3>5. QED
      BY <2>2, <2>3, <3>2, <3>4, Zenon DEF WellSent
  <2>5. y \in Seq(BodyItem) /\ Through(PartsIn, y) = c /\ \A i \in DOMAIN y : WellSent(y[i])
    BY <1>1, CallItemsSent, Zenon
  <2> HIDE DEF x, y, c, t
  <2> DEFINE S == BodyItem
  <2>6. <<x>> \in Seq(S) /\ y \in Seq(S)
    BY <2>4, <2>5
  <2>7. Maps(PartsIn, S, BodyPart)
    BY PartsInMaps
  <2> HIDE DEF S
  <2>8. <<x>> \o y \in Seq(S) /\ Len(<<x>> \o y) = Len(y) + 1 /\ Len(y) \in Nat /\ DOMAIN y = 1 .. Len(y)
    BY <2>6
  <2>9. \A i \in DOMAIN (<<x>> \o y) : (<<x>> \o y)[i] = x \/ \E j \in DOMAIN y : (<<x>> \o y)[i] = y[j]
    BY <2>6
  <2>10. Through(PartsIn, <<x>> \o y) = t \o c
    <3>1. Through(PartsIn, <<x>> \o y) = Through(PartsIn, <<x>>) \o Through(PartsIn, y)
      <4> DEFINE a == <<x>>
                 h == PartsIn
                 R == BodyPart
      <4>1. Maps(h, S, R) /\ a \in Seq(S) /\ y \in Seq(S)
        BY <2>6, <2>7
      <4> HIDE DEF a, h, R
      <4>2. Through(h, a \o y) = Through(h, a) \o Through(h, y)
        BY <4>1, ThroughConcat
      <4>3. QED
        BY <4>2 DEF a, h
    <3>2. QED
      BY <2>4, <2>5, <3>1, Zenon
  <2>11. Tells(m, t \o c, TRUE)
    BY <1>6, AnswerTold DEF t, c
  <2>12. \A i \in DOMAIN (<<x>> \o y) : WellSent((<<x>> \o y)[i])
    BY <2>4, <2>5, <2>9, Zenon
  <2>13. QED
    BY <2>1, <2>8, <2>10, <2>11, <2>12, Zenon DEF S
<1>7. CASE m.role = "user" \/ (m.role = "assistant" /\ ~ told)
  <2>1. ResponsesItems(m) = <<Item(m.role, TextParts(m))>>
    BY <1>7 DEF ResponsesItems
  <2>2. m.role # "tool" /\ m.calls = <<>> /\ ~ m.thought /\ (m.role = "assistant" => Style # "deepseek")
    BY <1>1, <1>7
  <2>3. Quiet(TextParts(m))
    BY <1>1, TextQuiet, Zenon
  <2>4. Tells(m, TextParts(m), TRUE)
    BY <2>2, <2>3, QuietTold
  <2>5. m.role \in BodyRoles
    BY <1>1 DEF BodyRoles
  <2>6. QED
    BY <1>2, <1>3, <2>1, <2>2, <2>4, <2>5, Zenon
<1>8. QED
  BY <1>1, <1>4, <1>5, <1>6, <1>7, Zenon

\* ChatItems makes one item of a message, and tells it with its reasoning.
LEMMA ChatTold ==
  ASSUME NEW m, MessageShape(m), m.role # "system"
  PROVE  \E x : /\ ChatItems(m) = <<x>> /\ WellSent(x)
                /\ PartsIn[x] = x.parts /\ Tells(m, x.parts, TRUE)
<1>1. /\ m \in Message /\ m.role \in {"user", "assistant", "tool"}
      /\ m.thought \in BOOLEAN /\ (m.role # "assistant" => m.calls = <<>> /\ ~ m.thought)
  BY MessageTyped, Zenon DEF MessageShape
<1>2. /\ TextParts(m) \in Seq(PlainPart) /\ <<Reasoning(m)>> \in Seq(PlainPart)
      /\ CallParts(m) \in Seq(PlainPart) /\ <<Answer(m)>> \in Seq(PlainPart)
  BY <1>1, MessagePlain, Zenon
<1>3. ASSUME NEW role \in BodyRoles, NEW parts \in Seq(PlainPart),
             ChatItems(m) = <<Item(role, parts)>>,
             role = "assistant" /\ Style = "deepseek" =>
               \E k \in DOMAIN parts : parts[k].kind \in {"reasoning", "no reasoning"},
             Tells(m, parts, TRUE)
      PROVE  \E x : /\ ChatItems(m) = <<x>> /\ WellSent(x)
                    /\ PartsIn[x] = x.parts /\ Tells(m, x.parts, TRUE)
  <2>1. parts \in Seq(BodyPart)
    BY PlainIsPart, Zenon
  <2> DEFINE x == Item(role, parts)
  <2>2. x \in BodyItem /\ x.role = role /\ x.parts = parts /\ PartsIn[x] = parts
    BY <2>1, ItemTyped, Zenon
  <2>3. ChatItems(m) = <<x>>
    BY <1>3, Zenon
  <2> HIDE DEF x
  <2>4. WellSent(x)
    BY <1>3, <2>2, Zenon DEF WellSent
  <2>5. QED
    BY <1>3, <2>2, <2>3, <2>4, Zenon
<1>4. CASE m.role = "tool"
  <2>1. ChatItems(m) = <<Item("tool", <<Answer(m)>>)>>
    BY <1>4 DEF ChatItems
  <2>2. Tells(m, <<Answer(m)>>, TRUE)
    BY <1>4, ResultTold
  <2>3. "tool" \in BodyRoles /\ "tool" # "assistant"
    BY DEF BodyRoles
  <2>4. QED
    BY <1>2, <1>3, <2>1, <2>2, <2>3, Zenon
<1>5. CASE m.role = "assistant"
  <2> DEFINE t == TextParts(m)
             r == Reasoning(m)
             c == CallParts(m)
             parts == (t \o <<r>>) \o c
             P == PlainPart
  <2>1. ChatItems(m) = <<Item("assistant", parts)>>
    BY <1>5 DEF ChatItems
  <2>2. Tells(m, parts, TRUE)
    BY <1>5, AnswerTold
  <2>3. t \in Seq(P) /\ <<r>> \in Seq(P) /\ c \in Seq(P)
    BY <1>2
  <2>4. r.kind \in {"reasoning", "no reasoning"}
    BY DEF Reasoning
  <2>5. "assistant" \in BodyRoles
    BY DEF BodyRoles
  <2> HIDE DEF t, r, c, P
  <2>6. parts \in Seq(P) /\ Len(t) + 1 \in DOMAIN parts /\ parts[Len(t) + 1] = r
    BY <2>3
  <2> HIDE DEF parts
  <2>7. \E k \in DOMAIN parts : parts[k].kind \in {"reasoning", "no reasoning"}
    BY <2>4, <2>6, Zenon
  <2>8. QED
    BY <1>3, <2>1, <2>2, <2>5, <2>6, <2>7, Zenon DEF P
<1>6. CASE m.role = "user"
  <2>1. ChatItems(m) = <<Item("user", TextParts(m))>>
    BY <1>6 DEF ChatItems
  <2>2. m.role # "tool" /\ m.calls = <<>> /\ ~ m.thought
    BY <1>1, <1>6
  <2>3. Quiet(TextParts(m))
    BY <1>1, TextQuiet, Zenon
  <2>4. Tells(m, TextParts(m), TRUE)
    BY <2>2, <2>3, QuietTold
  <2>5. "user" \in BodyRoles /\ "user" # "assistant"
    BY DEF BodyRoles
  <2>6. QED
    BY <1>2, <1>3, <2>1, <2>4, <2>5, Zenon
<1>7. QED
  BY <1>1, <1>4, <1>5, <1>6, Zenon

\* A mark is asked for by the item it is on.
IsMarked(parts) == \E k \in DOMAIN parts : parts[k].cached

\* Parts without a mark are not marked.
LEMMA PlainUnmarked ==
  ASSUME NEW parts \in Seq(PlainPart)
  PROVE  ~ IsMarked(parts)
<1>1. \A k \in DOMAIN parts : parts[k] \in PlainPart
  <2> DEFINE P == PlainPart
  <2> HIDE DEF P
  <2>1. parts \in Seq(P) => \A k \in DOMAIN parts : parts[k] \in P
    OBVIOUS
  <2>2. QED
    BY <2>1, Zenon DEF P
<1>2. QED
  BY <1>1, Zenon DEF IsMarked, PlainPart

\* AnthropicItem tells a message without its reasoning, and marks one of the user's
\* exactly when it is asked to.
LEMMA AnthropicTold ==
  ASSUME NEW m, MessageShape(m), m.role # "system", NEW cached \in BOOLEAN
  PROVE  /\ AnthropicItem(m, cached) \in BodyItem
         /\ Tells(m, AnthropicItem(m, cached).parts, FALSE)
         /\ IsMarked(AnthropicItem(m, cached).parts) => cached /\ m.role # "tool"
         /\ m.role = "user" /\ cached => IsMarked(AnthropicItem(m, cached).parts)
         /\ \A k \in DOMAIN AnthropicItem(m, cached).parts :
              AnthropicItem(m, cached).parts[k].kind # "reasoning"
<1>1. /\ m \in Message /\ m.role \in {"user", "assistant", "tool"}
      /\ m.thought \in BOOLEAN /\ (m.role # "assistant" => m.calls = <<>> /\ ~ m.thought)
  BY MessageTyped, Zenon DEF MessageShape
<1>2. /\ TextParts(m) \in Seq(PlainPart) /\ CallParts(m) \in Seq(PlainPart)
      /\ <<Answer(m)>> \in Seq(PlainPart)
  BY <1>1, MessagePlain, Zenon
<1>3. /\ Text(cached) \in BodyPart /\ Text(cached).kind = "text" /\ Text(cached).cached = cached
      /\ Blank(cached) = Text(cached)
  BY DEF Text, Blank, BodyPart, PartKinds
<1>4. Quiet(<<Text(cached)>>)
  BY <1>3, QuietOne, Zenon
<1>5. ASSUME NEW role \in BodyRoles, NEW parts \in Seq(BodyPart),
             AnthropicItem(m, cached) = Item(role, parts),
             Tells(m, parts, FALSE),
             IsMarked(parts) => cached /\ m.role # "tool",
             m.role = "user" /\ cached => IsMarked(parts),
             \A k \in DOMAIN parts : parts[k].kind # "reasoning"
      PROVE  /\ AnthropicItem(m, cached) \in BodyItem
             /\ Tells(m, AnthropicItem(m, cached).parts, FALSE)
             /\ IsMarked(AnthropicItem(m, cached).parts) => cached /\ m.role # "tool"
             /\ m.role = "user" /\ cached => IsMarked(AnthropicItem(m, cached).parts)
             /\ \A k \in DOMAIN AnthropicItem(m, cached).parts :
                  AnthropicItem(m, cached).parts[k].kind # "reasoning"
  <2>1. Item(role, parts) \in BodyItem /\ Item(role, parts).parts = parts
    BY ItemTyped, Zenon
  <2>2. QED
    BY <1>5, <2>1, Zenon
<1>6. CASE m.role = "tool"
  <2>1. AnthropicItem(m, cached) = Item("user", <<Answer(m)>>)
    BY <1>6 DEF AnthropicItem
  <2>2. Tells(m, <<Answer(m)>>, FALSE)
    BY <1>6, ResultTold
  <2>3. "user" \in BodyRoles /\ m.role # "user"
    BY <1>6 DEF BodyRoles
  <2>4. ~ IsMarked(<<Answer(m)>>) /\ <<Answer(m)>> \in Seq(BodyPart)
    BY <1>2, PlainUnmarked, PlainIsPart, Zenon
  <2>5. \A k \in DOMAIN <<Answer(m)>> : <<Answer(m)>>[k].kind # "reasoning"
    BY DEF Answer
  <2>6. QED
    BY <1>5, <2>1, <2>2, <2>3, <2>4, <2>5, Zenon
<1>7. CASE m.role = "user"
  <2>1. AnthropicItem(m, cached) = Item("user", <<Text(cached)>>)
    BY <1>7 DEF AnthropicItem
  <2>2. Tells(m, <<Text(cached)>>, FALSE)
    <3>1. m.role # "tool" /\ m.calls = <<>> /\ (m.thought => ~ FALSE)
      BY <1>1, <1>7
    <3>2. QED
      BY <1>4, <3>1, QuietTold
  <2>3. "user" \in BodyRoles /\ m.role # "tool"
    BY <1>7 DEF BodyRoles
  <2>4. IsMarked(<<Text(cached)>>) <=> cached
    BY <1>3 DEF IsMarked
  <2>5. \A k \in DOMAIN <<Text(cached)>> : <<Text(cached)>>[k].kind # "reasoning"
    BY <1>3
  <2>6. <<Text(cached)>> \in Seq(BodyPart)
    BY <1>4, Zenon DEF Quiet
  <2>7. QED
    BY <1>5, <2>1, <2>2, <2>3, <2>4, <2>5, <2>6, Zenon
<1>8. CASE m.role = "assistant" /\ (m.text \/ m.calls # <<>>)
  <2> DEFINE t == TextParts(m)
             c == CallParts(m)
             parts == t \o c
  <2>1. AnthropicItem(m, cached) = Item("assistant", parts)
    BY <1>8 DEF AnthropicItem, AssistantContent
  <2>2. Tells(m, parts, FALSE)
    BY <1>8, AnswerTold
  <2>3. "assistant" \in BodyRoles /\ m.role # "user"
    BY <1>8 DEF BodyRoles
  <2>4. parts \in Seq(PlainPart)
    BY <1>2, PlainConcat, Zenon
  <2>5. ~ IsMarked(parts) /\ parts \in Seq(BodyPart)
    BY <2>4, PlainUnmarked, PlainIsPart, Zenon
  <2>6. \A k \in DOMAIN parts : parts[k].kind # "reasoning"
    <3>1. \A k \in DOMAIN t : t[k].kind # "reasoning"
      BY DEF TextParts, OneIf, Text
    <3>2. \A k \in DOMAIN c : c[k].kind # "reasoning"
      BY DEF CallParts, Call
    <3> DEFINE P == PlainPart
    <3>3. t \in Seq(P) /\ c \in Seq(P)
      BY <1>2
    <3> HIDE DEF t, c, P
    <3>4. \A k \in DOMAIN (t \o c) : \/ \E j \in DOMAIN t : (t \o c)[k] = t[j]
                                     \/ \E j \in DOMAIN c : (t \o c)[k] = c[j]
      <4>1. /\ Len(t) \in Nat /\ Len(c) \in Nat /\ DOMAIN t = 1 .. Len(t) /\ DOMAIN c = 1 .. Len(c)
            /\ DOMAIN (t \o c) = 1 .. Len(t) + Len(c)
        BY <3>3
      <4>2. \A k \in 1 .. Len(t) + Len(c) : (t \o c)[k] = IF k <= Len(t) THEN t[k] ELSE c[k - Len(t)]
        BY <3>3, ConcatProperties
      <4>3. QED
        BY <4>1, <4>2
    <3>5. QED
      BY <3>1, <3>2, <3>4, Zenon
  <2> HIDE DEF parts
  <2>7. QED
    BY <1>5, <2>1, <2>2, <2>3, <2>5, <2>6, Zenon
<1>9. CASE m.role = "assistant" /\ ~ (m.text \/ m.calls # <<>>)
  <2> DEFINE r == Reasoning(Said("assistant"))
             q == OneIf(Style \in {"deepseek", "anthropic"}, r)
             b == Text(cached)
             parts == q \o <<b>>
  <2>1. AnthropicItem(m, cached) = Item("assistant", parts)
    BY <1>3, <1>9 DEF AnthropicItem, AssistantContent
  <2>2. r \in BodyPart /\ r.kind = "no reasoning" /\ r.cached = FALSE
    BY DEF Reasoning, Said, BodyPart, PartKinds
  <2>3. Quiet(q)
    <3>1. (Style \in {"deepseek", "anthropic"}) \in BOOLEAN
      OBVIOUS
    <3>2. QED
      BY <2>2, <3>1, QuietIf
  <2>4. /\ parts \in Seq(BodyPart) /\ OfKinds(parts, Exchange) = <<>> /\ OfKinds(parts, Replay) = <<>>
    <3>1. <<b>> \in Seq(BodyPart) /\ OfKinds(<<b>>, Exchange) = <<>> /\ OfKinds(<<b>>, Replay) = <<>>
      BY <1>4, Zenon DEF Quiet
    <3> HIDE DEF q, b
    <3>2. QED
      BY <2>3, <3>1, QuietFront, Zenon
  <2>5. Quiet(parts)
    BY <2>4, Zenon DEF Quiet
  <2>6. Tells(m, parts, FALSE)
    <3>1. m.role # "tool" /\ m.calls = <<>> /\ (m.thought => ~ FALSE)
      BY <1>9
    <3> HIDE DEF parts
    <3>2. QED
      BY <2>5, <3>1, QuietTold
  <2>7. parts = <<b>> \/ parts = <<r, b>>
    <3>1. <<>> \o <<b>> = <<b>> /\ <<r>> \o <<b>> = <<r, b>>
      <4> HIDE DEF parts, q, r, b
      <4>1. <<>> \o <<b>> = <<b>>
        <5>1. <<b>> \in Seq({b})
          OBVIOUS
        <5>2. QED
          BY <5>1, ConcatEmptyKeeps
      <4>2. <<r>> \o <<b>> = <<r, b>>
        <5>1. <<r>> \in Seq({r, b}) /\ <<b>> \in Seq({r, b})
          OBVIOUS
        <5>2. /\ <<r>> \o <<b>> \in Seq({r, b}) /\ Len(<<r>> \o <<b>>) = 2
              /\ (<<r>> \o <<b>>)[1] = r /\ (<<r>> \o <<b>>)[2] = b
          BY <5>1, ConcatProperties
        <5> DEFINE s == <<r>> \o <<b>>
        <5> HIDE DEF s
        <5>3. s \in Seq({r, b}) /\ Len(s) = 2 /\ s[1] = r /\ s[2] = b
          BY <5>2 DEF s
        <5>4. s = <<r, b>>
          BY <5>3
        <5>5. QED
          BY <5>4 DEF s
      <4>3. QED
        BY <4>1, <4>2
    <3>2. QED
      BY <3>1, Zenon DEF OneIf
  <2>8. "assistant" \in BodyRoles /\ m.role # "user" /\ m.role # "tool"
    BY <1>9 DEF BodyRoles
  <2> HIDE DEF parts, b, r
  <2>9. (IsMarked(parts) => cached) /\ \A k \in DOMAIN parts : parts[k].kind # "reasoning"
    <3>1. b.kind = "text" /\ b.cached = cached
      BY <1>3 DEF b
    <3>2. \A p : (p = b \/ p = r) => p.kind # "reasoning" /\ (p.cached => cached)
      BY <2>2, <3>1
    <3>3. \A k \in DOMAIN parts : parts[k] = b \/ parts[k] = r
      <4>1. DOMAIN <<b>> = {1} /\ <<b>>[1] = b /\ DOMAIN <<r, b>> = {1, 2} /\ <<r, b>>[1] = r /\ <<r, b>>[2] = b
        OBVIOUS
      <4>2. QED
        BY <2>7, <4>1
    <3>4. QED
      BY <3>2, <3>3, Zenon DEF IsMarked
  <2>10. QED
    BY <1>5, <2>1, <2>4, <2>6, <2>8, <2>9, Zenon
<1>10. m.text \in BOOLEAN
  BY <1>1, MessageTyped, Zenon
<1>11. QED
  BY <1>1, <1>6, <1>7, <1>8, <1>9, <1>10, Zenon

----------------------------------------
(* Bodies.                                                                   *)

\* The system message in front and nowhere else, and at most one message that
\* asks for a mark, the one behind it.
DialogueShape(messages) ==
  /\ messages \in Seq(Message) /\ messages # <<>>
  /\ \A i \in DOMAIN messages :
       /\ MessageShape(messages[i])
       /\ messages[i].role = "system" <=> i = 1
       /\ messages[i].cache => i = 2 /\ messages[i].role = "user"

\* A sequence behind one element.
LEMMA InFront ==
  ASSUME NEW T, NEW x \in T, NEW t \in Seq(T)
  PROVE  /\ <<x>> \o t \in Seq(T) /\ Len(<<x>> \o t) = Len(t) + 1 /\ Len(t) \in Nat
         /\ (<<x>> \o t)[1] = x
         /\ \A i \in 1 .. Len(t) : (<<x>> \o t)[i + 1] = t[i]
<1> DEFINE z == <<x>>
           n == Len(t)
           f == z \o t
<1>1. z \in Seq(T) /\ Len(z) = 1 /\ z[1] = x /\ n \in Nat
  OBVIOUS
<1> HIDE DEF z
<1>2. f \in Seq(T) /\ Len(f) = Len(z) + n
  BY <1>1, ConcatProperties
<1>3. \A i \in 1 .. Len(z) + n : f[i] = IF i <= Len(z) THEN z[i] ELSE t[i - Len(z)]
  BY <1>1, ConcatProperties
<1> HIDE DEF n, f
<1>4. \A i \in 1 .. 1 + n : f[i] = IF i <= 1 THEN z[i] ELSE t[i - 1]
  BY <1>1, <1>3, Zenon
<1>5. f[1] = x
  <2>1. 1 \in 1 .. 1 + n /\ 1 <= 1
    BY <1>1
  <2>2. QED
    BY <1>1, <1>4, <2>1, Zenon
<1>6. \A i \in 1 .. n : f[i + 1] = t[i]
  <2>1. \A i \in 1 .. n : i + 1 \in 1 .. 1 + n /\ ~ (i + 1 <= 1) /\ (i + 1) - 1 = i
    BY <1>1
  <2>2. QED
    BY <1>4, <2>1, Zenon
<1>7. Len(f) = n + 1
  BY <1>1, <1>2
<1>8. QED
  BY <1>1, <1>2, <1>5, <1>6, <1>7, Zenon DEF n, f, z

\* What is spoken is what is behind the system message.
LEMMA SpokenBehindSystem ==
  ASSUME NEW messages, DialogueShape(messages)
  PROVE  /\ Len(messages) \in Nat /\ Len(messages) > 0 /\ DOMAIN messages = 1 .. Len(messages)
         /\ Spoken(messages) \in Seq(Message) /\ Len(Spoken(messages)) = Len(messages) - 1
         /\ DOMAIN Spoken(messages) = 1 .. Len(messages) - 1
         /\ \A i \in 1 .. Len(messages) - 1 :
              i + 1 \in DOMAIN messages /\ Spoken(messages)[i] = messages[i + 1]
<1> DEFINE n == Len(messages)
           S == Message
           rest == [i \in 1 .. n - 1 |-> messages[i + 1]]
           e == [i \in DOMAIN messages |-> OneIf(messages[i].role # "system", messages[i])]
           t == [i \in 1 .. n - 1 |-> <<messages[i + 1]>>]
           E == Seq(S)
<1>1. messages \in Seq(S) /\ messages # <<>>
  BY Zenon DEF DialogueShape
<1>2. /\ n \in Nat /\ n > 0 /\ DOMAIN messages = 1 .. n /\ n - 1 \in Nat
      /\ \A i \in 1 .. n : messages[i] \in S
  <2> HIDE DEF S
  <2>1. QED
    BY <1>1
<1>3. \A i \in 1 .. n - 1 : i + 1 \in 1 .. n /\ i + 1 # 1
  BY <1>2
<1>4. rest \in Seq(S) /\ Len(rest) = n - 1 /\ \A i \in 1 .. n - 1 : rest[i] = messages[i + 1]
  <2> HIDE DEF S, n
  <2>1. rest \in [1 .. n - 1 -> S]
    BY <1>2, <1>3
  <2>2. \A i \in 1 .. n - 1 : rest[i] = messages[i + 1]
    OBVIOUS
  <2> HIDE DEF rest
  <2>3. QED
    BY <1>2, <2>1, <2>2
<1>5. t \in Seq(E) /\ Len(t) = n - 1 /\ \A i \in 1 .. n - 1 : t[i] = <<rest[i]>>
  <2> HIDE DEF S, n, rest
  <2>1. \A i \in 1 .. n - 1 : <<messages[i + 1]>> \in E
    BY <1>2, <1>3
  <2>2. \A i \in 1 .. n - 1 : t[i] = <<rest[i]>>
    BY <1>4
  <2> HIDE DEF E
  <2>3. t \in [1 .. n - 1 -> E]
    BY <2>1
  <2> HIDE DEF t
  <2>4. QED
    BY <1>2, <2>2, <2>3
<1>6. e = <<<<>>>> \o t
  <2>1. \A i \in 1 .. n : messages[i].role = "system" <=> i = 1
    BY <1>2, Zenon DEF DialogueShape
  <2>2. \A i \in 1 .. n : e[i] = IF i = 1 THEN <<>> ELSE <<messages[i]>>
    BY <1>2, <2>1, Zenon DEF OneIf
  <2> DEFINE f == <<<<>>>> \o t
             w == <<>>
  <2>4. /\ f \in Seq(E) /\ Len(f) = n
        /\ f[1] = <<>> /\ \A i \in 1 .. n - 1 : f[i + 1] = t[i]
    <3>1. w \in E
      OBVIOUS
    <3> HIDE DEF E, t, w, n
    <3>2. /\ <<w>> \o t \in Seq(E) /\ Len(<<w>> \o t) = Len(t) + 1
          /\ (<<w>> \o t)[1] = w /\ \A i \in 1 .. Len(t) : (<<w>> \o t)[i + 1] = t[i]
      BY <1>5, <3>1, InFront
    <3>3. Len(t) = n - 1 /\ (n - 1) + 1 = n
      BY <1>2, <1>5
    <3>4. QED
      BY <3>2, <3>3, Zenon DEF w
  <2>5. \A i \in 1 .. n : f[i] = e[i]
    <3> SUFFICES ASSUME NEW i \in 1 .. n PROVE f[i] = e[i]
      OBVIOUS
    <3>1. CASE i = 1
      BY <2>2, <2>4, <3>1, Zenon
    <3>2. CASE i # 1
      <4>1. i - 1 \in 1 .. n - 1 /\ (i - 1) + 1 = i
        BY <1>2, <3>2
      <4>2. t[i - 1] = <<messages[i]>>
        BY <1>4, <1>5, <4>1, Zenon
      <4>3. QED
        BY <2>2, <2>4, <3>2, <4>1, <4>2, Zenon
    <3>3. QED
      BY <3>1, <3>2
  <2>6. e = [i \in 1 .. n |-> e[i]]
    BY <1>2, Zenon
  <2> HIDE DEF e, f, E
  <2>7. f = [i \in 1 .. n |-> f[i]]
    BY <1>2, <2>4
  <2>8. QED
    BY <2>5, <2>6, <2>7, Zenon DEF f
<1>7. FlattenSeq(e) = rest
  <2>0. E = Seq(S) /\ <<>> \in Seq(S)
    OBVIOUS
  <2> HIDE DEF E, S, rest, t, e
  <2>1. FlattenSeq(t) = rest
    BY <1>4, <1>5, <2>0, FlattenSingles
  <2>2. FlattenSeq(<<<<>>>>) = <<>>
    BY <2>0, FlattenOne
  <2> DEFINE z == <<<<>>>>
  <2>3. z \in Seq(Seq(S)) /\ t \in Seq(Seq(S))
    BY <1>5, <2>0
  <2> HIDE DEF z
  <2>4. FlattenSeq(z \o t) = FlattenSeq(z) \o FlattenSeq(t)
    BY <2>3, FlattenConcat
  <2>5. <<>> \o rest = rest
    BY <1>4, ConcatEmptyKeeps
  <2>6. QED
    BY <1>6, <2>1, <2>2, <2>4, <2>5 DEF z
<1>8. Spoken(messages) = rest
  BY <1>7, Zenon DEF Spoken
<1>9. DOMAIN rest = 1 .. n - 1
  BY Zenon
<1> HIDE DEF rest, n
<1>10. QED
  BY <1>2, <1>3, <1>4, <1>8, <1>9, Zenon DEF n, S

\* The parts tell the exchanges and the reasoning of all messages, in order.
TellAll(messages, parts, replays) ==
  /\ OfKinds(parts, Exchange) = FlattenSeq([i \in DOMAIN messages |-> Exchanged(messages[i])])
  /\ OfKinds(parts, Replay)
       = FlattenSeq([i \in DOMAIN messages |->
                       OneIf(messages[i].thought /\ replays, Reasoning(messages[i]))])

\* What tells message by message tells all of them.
LEMMA AllTold ==
  ASSUME NEW messages, DialogueShape(messages), NEW replays \in BOOLEAN,
         NEW told \in Seq(Seq(BodyPart)), Len(told) = Len(messages),
         \A i \in 1 .. Len(messages) : Tells(messages[i], told[i], replays)
  PROVE  TellAll(messages, FlattenSeq(told), replays)
<1> DEFINE S == BodyPart
<1>1. DOMAIN messages = 1 .. Len(messages)
  BY SpokenBehindSystem, Zenon
<1>2. DOMAIN told = 1 .. Len(messages) /\ told \in Seq(Seq(S))
  BY <1>1
<1>3. \A i \in 1 .. Len(messages) : told[i] \in Seq(BodyPart)
  BY Zenon DEF Tells
<1>4. ASSUME NEW kinds
      PROVE  OfKinds(FlattenSeq(told), kinds) = FlattenSeq([i \in DOMAIN messages |-> OfKinds(told[i], kinds)])
  <2>1. OfKinds(FlattenSeq(told), kinds) = Through(PickOf(kinds), FlattenSeq(told))
    <3>1. FlattenSeq(told) \in Seq(BodyPart)
      BY FlattenTyped, Zenon
    <3>2. QED
      BY <3>1, OfKindsIs, Zenon
  <2>2. Through(PickOf(kinds), FlattenSeq(told))
          = FlattenSeq(ThroughEach(PickOf(kinds), told))
    BY PickMaps, ThroughFlatten, Zenon
  <2>3. \A i \in 1 .. Len(messages) : Through(PickOf(kinds), told[i]) = OfKinds(told[i], kinds)
    BY <1>3, OfKindsIs, Zenon
  <2>4. ThroughEach(PickOf(kinds), told) = [i \in DOMAIN messages |-> OfKinds(told[i], kinds)]
    BY <1>1, <1>2, <2>3, Zenon DEF ThroughEach
  <2>5. QED
    BY <2>1, <2>2, <2>4, Zenon
<1>5. [i \in DOMAIN messages |-> OfKinds(told[i], Exchange)]
        = [i \in DOMAIN messages |-> Exchanged(messages[i])]
  BY <1>1, Zenon DEF Tells
<1>6. [i \in DOMAIN messages |-> OfKinds(told[i], Replay)]
        = [i \in DOMAIN messages |-> OneIf(messages[i].thought /\ replays, Reasoning(messages[i]))]
  BY <1>1, Zenon DEF Tells
<1>7. QED
  BY <1>4, <1>5, <1>6, Zenon DEF TellAll

\* The parts of a body of items of which each tells the message behind it.
LEMMA ItemsTold ==
  ASSUME NEW messages, DialogueShape(messages), NEW replays \in BOOLEAN,
         NEW items \in Seq(BodyItem), Len(items) = Len(messages) - 1,
         \A i \in 1 .. Len(items) : Tells(messages[i + 1], items[i].parts, replays)
  PROVE  TellAll(messages, Through(PartsIn, items), replays)
<1> DEFINE n == Len(messages)
           S == BodyPart
           T == Seq(S)
           t == Each(PartsIn, items)
           w == <<>>
           told == <<w>> \o t
<1>1. n \in Nat /\ n > 0 /\ DOMAIN messages = 1 .. n
  BY SpokenBehindSystem, Zenon
<1>2. t \in Seq(T) /\ Len(t) = n - 1 /\ \A i \in 1 .. n - 1 : t[i] = items[i].parts
  <2>1. t \in Seq(T)
    BY PartsInMaps, EachTyped, Zenon
  <2>2. Len(t) = Len(items)
    <3> DEFINE h == PartsIn
               R == BodyPart
               D == BodyItem
    <3>1. Maps(h, D, R) /\ items \in Seq(D)
      BY PartsInMaps
    <3> HIDE DEF h, R, D
    <3>2. Len(Each(h, items)) = Len(items)
      BY <3>1, EachTyped
    <3>3. QED
      BY <3>2 DEF h
  <2>3. DOMAIN items = 1 .. n - 1 /\ \A i \in 1 .. n - 1 : items[i] \in BodyItem
    <3> DEFINE D == BodyItem
    <3>1. items \in Seq(D) /\ Len(items) = n - 1
      OBVIOUS
    <3> HIDE DEF D, n
    <3>2. DOMAIN items = 1 .. n - 1 /\ \A i \in 1 .. n - 1 : items[i] \in D
      BY <3>1
    <3>3. QED
      BY <3>2 DEF D
  <2>4. \A i \in 1 .. n - 1 : t[i] = items[i].parts
    BY <2>3, Zenon DEF Each, PartsIn
  <2>5. QED
    BY <2>1, <2>2, <2>4
<1>3. w \in T /\ Len(t) \in Nat
  BY <1>1, <1>2
<1>4. FlattenSeq(told) = FlattenSeq(t)
  <2> DEFINE z == <<w>>
  <2>1. z \in Seq(Seq(S)) /\ w \in Seq(S)
    <3>1. w \in T
      BY <1>3
    <3> HIDE DEF w, T
    <3>2. <<w>> \in Seq(T)
      BY <3>1
    <3>3. QED
      BY <3>1, <3>2 DEF T
  <2>2. FlattenSeq(z) = w
    BY <2>1, FlattenOne, Zenon
  <2>3. t \in Seq(Seq(S)) /\ FlattenSeq(t) \in Seq(S)
    BY <1>2, FlattenTyped, Zenon
  <2> HIDE DEF z, t, S, T
  <2>4. FlattenSeq(z \o t) = FlattenSeq(z) \o FlattenSeq(t)
    BY <2>1, <2>3, FlattenConcat
  <2>5. w \o FlattenSeq(t) = FlattenSeq(t)
    BY <2>3, ConcatEmptyKeeps
  <2>6. QED
    BY <2>2, <2>4, <2>5, Zenon DEF z
<1>5. /\ told \in Seq(T) /\ Len(told) = n /\ told[1] = w
      /\ \A i \in 1 .. n - 1 : told[i + 1] = t[i]
  <2> HIDE DEF w, t, T, n
  <2>1. /\ told \in Seq(T) /\ Len(told) = Len(t) + 1 /\ told[1] = w
        /\ \A i \in 1 .. Len(t) : told[i + 1] = t[i]
    BY <1>2, <1>3, InFront
  <2> HIDE DEF told
  <2>2. QED
    BY <1>1, <1>2, <2>1
<1> HIDE DEF told, t
<1>6. ASSUME NEW i \in 1 .. n PROVE Tells(messages[i], told[i], replays)
  <2>1. MessageShape(messages[i]) /\ (messages[i].role = "system" <=> i = 1)
    BY <1>1, Zenon DEF DialogueShape
  <2>2. CASE i = 1
    <3>1. messages[i].role = "system" /\ told[i] = <<>> /\ Quiet(<<>>)
      BY <1>5, <2>1, <2>2, QuietNone, Zenon
    <3>2. messages[i].role # "tool" /\ messages[i].role # "assistant"
      BY <3>1
    <3>3. messages[i].calls = <<>> /\ ~ messages[i].thought
      BY <2>1, <3>2, Zenon DEF MessageShape
    <3> DEFINE m == messages[i]
    <3> HIDE DEF m
    <3>4. MessageShape(m) /\ m.role # "tool" /\ m.calls = <<>> /\ (m.thought => ~ replays)
      BY <2>1, <3>2, <3>3, Zenon DEF m
    <3>5. Tells(m, <<>>, replays)
      BY <3>1, <3>4, QuietTold
    <3>6. QED
      BY <3>1, <3>5, Zenon DEF m
  <2>3. CASE i # 1
    <3>1. i - 1 \in 1 .. n - 1 /\ (i - 1) + 1 = i
      BY <1>1, <2>3
    <3>2. told[i] = items[i - 1].parts
      BY <1>2, <1>5, <3>1, Zenon
    <3>3. Tells(messages[i], items[i - 1].parts, replays)
      BY <3>1, Zenon
    <3>4. QED
      BY <3>2, <3>3, Zenon
  <2>4. QED
    BY <2>2, <2>3
<1>7. Through(PartsIn, items) = FlattenSeq(told)
  BY <1>4, Zenon DEF Through, t
<1>8. told \in Seq(Seq(BodyPart))
  BY <1>5, Zenon
<1>9. QED
  BY <1>5, <1>6, <1>7, <1>8, AllTold, Zenon

\* What a body says of its items.
Says(replays) == body.items \in Seq(BodyItem) /\ TellAll(request.messages, Parts, replays)

\* The parts of a body, item by item.
LEMMA PartsThrough ==
  ASSUME body.items \in Seq(BodyItem)
  PROVE  Parts = Through(PartsIn, body.items)
<1>1. \A i \in DOMAIN body.items : body.items[i] \in BodyItem
  <2> DEFINE S == BodyItem
             s == body.items
  <2>1. s \in Seq(S)
    OBVIOUS
  <2> HIDE DEF S, s
  <2>2. \A i \in DOMAIN s : s[i] \in S
    BY <2>1
  <2>3. QED
    BY <2>2 DEF S, s
<1>2. \A i \in DOMAIN body.items : PartsIn[body.items[i]] = body.items[i].parts
  BY <1>1, Zenon DEF PartsIn
<1>3. Each(PartsIn, body.items) = [i \in DOMAIN body.items |-> body.items[i].parts]
  BY <1>2, Zenon DEF Each
<1>4. QED
  BY <1>3, Zenon DEF Parts, Through

\* The Responses format: no item of the system message, several of an answer.
LEMMA ResponsesSays ==
  ASSUME DialogueShape(request.messages), body = ResponsesBody
  PROVE  Says(TRUE) /\ body.marks = 0 /\ \A i \in DOMAIN body.items : WellSent(body.items[i])
<1> DEFINE messages == request.messages
           n == Len(messages)
           S == BodyItem
           T == Seq(S)
           e == [i \in DOMAIN messages |-> ResponsesItems(messages[i])]
           told == ThroughEach(PartsIn, e)
<1>1. n \in Nat /\ n > 0 /\ DOMAIN messages = 1 .. n /\ \A i \in 1 .. n : MessageShape(messages[i])
  <2>1. n \in Nat /\ n > 0 /\ DOMAIN messages = 1 .. n
    BY SpokenBehindSystem, Zenon
  <2>2. QED
    BY <2>1, Zenon DEF DialogueShape
<1>2. \A i \in 1 .. n : /\ e[i] = ResponsesItems(messages[i]) /\ e[i] \in T
                        /\ \A k \in DOMAIN e[i] : WellSent(e[i][k])
                        /\ Tells(messages[i], Through(PartsIn, e[i]), TRUE)
  BY <1>1, ResponsesTold, Zenon
<1>3. e \in Seq(T) /\ Len(e) = n /\ DOMAIN e = 1 .. n
  <2>1. e = [i \in 1 .. n |-> e[i]]
    BY <1>1, Zenon
  <2> HIDE DEF e, T, n
  <2>2. e \in [1 .. n -> T]
    BY <1>2, <2>1, Zenon
  <2>3. QED
    BY <1>1, <2>2
<1>4. body.items = FlattenSeq(e) /\ body.marks = 0
  <2>1. body.items = ResponsesBody.items /\ body.marks = ResponsesBody.marks
    BY Zenon
  <2>2. ResponsesBody.items = FlattenSeq(e) /\ ResponsesBody.marks = 0
    BY DEF ResponsesBody
  <2>3. QED
    BY <2>1, <2>2, Zenon
<1> HIDE DEF e
<1>5. body.items \in Seq(BodyItem)
  BY <1>3, <1>4, FlattenTyped, Zenon
<1>6. Parts = FlattenSeq(told)
  <2>1. Parts = Through(PartsIn, FlattenSeq(e))
    BY <1>4, <1>5, PartsThrough, Zenon
  <2>2. Through(PartsIn, FlattenSeq(e)) = FlattenSeq(told)
    BY <1>3, PartsInMaps, ThroughFlatten, Zenon
  <2>3. QED
    BY <2>1, <2>2
<1>7. told \in Seq(Seq(BodyPart)) /\ Len(told) = n /\ \A i \in 1 .. n : Tells(messages[i], told[i], TRUE)
  <2> DEFINE R == Seq(BodyPart)
  <2>1. told = [i \in 1 .. n |-> Through(PartsIn, e[i])]
    BY <1>3, Zenon DEF ThroughEach
  <2>2. \A i \in 1 .. n : told[i] = Through(PartsIn, e[i])
    BY <2>1, Zenon
  <2>3. \A i \in 1 .. n : told[i] \in R
    BY <1>2, <2>2, PartsInMaps, ThroughTyped, Zenon
  <2> HIDE DEF told, R, n
  <2>4. told \in Seq(R) /\ Len(told) = n
    BY <1>1, <2>1, <2>3
  <2>5. QED
    BY <1>2, <2>2, <2>4, Zenon DEF R
<1> HIDE DEF told
<1>8. Says(TRUE)
  BY <1>5, <1>6, <1>7, AllTold, Zenon DEF Says
<1>9. ASSUME NEW i \in DOMAIN body.items PROVE WellSent(body.items[i])
  <2>0. i \in DOMAIN FlattenSeq(e)
    BY <1>4, Zenon
  <2>1. PICK j \in DOMAIN e : \E k \in DOMAIN e[j] : FlattenSeq(e)[i] = e[j][k]
    BY <1>3, <2>0, FlattenElements
  <2>2. QED
    BY <1>2, <1>3, <1>4, <2>1, Zenon
<1>10. QED
  BY <1>4, <1>8, <1>9

\* What is behind the system message is no system message, and a mark is asked for
\* by a message of the user's in front.
LEMMA SpokenShape ==
  ASSUME NEW messages, DialogueShape(messages), NEW i \in 1 .. Len(messages) - 1
  PROVE  /\ MessageShape(Spoken(messages)[i]) /\ Spoken(messages)[i].role # "system"
         /\ Spoken(messages)[i].cache => i = 1 /\ Spoken(messages)[i].role = "user"
<1>1. i + 1 \in DOMAIN messages /\ Spoken(messages)[i] = messages[i + 1] /\ Len(messages) \in Nat
  BY SpokenBehindSystem, Zenon
<1>2. i \in Nat /\ i + 1 # 1 /\ (i + 1 = 2 => i = 1)
  BY <1>1
<1> DEFINE j == i + 1
<1>3. j \in DOMAIN messages /\ Spoken(messages)[i] = messages[j] /\ j # 1 /\ (j = 2 => i = 1)
  BY <1>1, <1>2, Zenon
<1> DEFINE m == messages[j]
<1>4. MessageShape(m) /\ (m.role = "system" => j = 1) /\ (m.cache => j = 2 /\ m.role = "user")
  BY <1>3, Zenon DEF DialogueShape
<1>5. Spoken(messages)[i] = m
  BY <1>3
<1> HIDE DEF j, m
<1>6. QED
  BY <1>3, <1>4, <1>5, Zenon

\* The Chat format: an item of each message behind the system message.
LEMMA ChatSays ==
  ASSUME DialogueShape(request.messages), body = ChatBody
  PROVE  Says(TRUE) /\ body.marks = 0 /\ \A i \in DOMAIN body.items : WellSent(body.items[i])
<1> DEFINE messages == request.messages
           m == Len(messages) - 1
           sp == Spoken(messages)
           S == BodyItem
           T == Seq(S)
           Of(i, x) == /\ ChatItems(sp[i]) = <<x>> /\ WellSent(x)
                       /\ PartsIn[x] = x.parts /\ Tells(sp[i], x.parts, TRUE)
           x == [i \in 1 .. m |-> CHOOSE y : Of(i, y)]
           e == [i \in DOMAIN sp |-> ChatItems(sp[i])]
<1>1. /\ m \in Nat /\ DOMAIN messages = 1 .. m + 1 /\ DOMAIN sp = 1 .. m
      /\ \A i \in 1 .. m : i + 1 \in DOMAIN messages /\ sp[i] = messages[i + 1]
  <2>1. /\ Len(messages) \in Nat /\ Len(messages) > 0 /\ DOMAIN messages = 1 .. Len(messages)
        /\ DOMAIN sp = 1 .. m
        /\ \A i \in 1 .. m : i + 1 \in DOMAIN messages /\ sp[i] = messages[i + 1]
    BY SpokenBehindSystem, Zenon
  <2>2. m \in Nat /\ m + 1 = Len(messages)
    BY <2>1
  <2> HIDE DEF messages, sp, m
  <2>3. QED
    BY <2>1, <2>2, Zenon
<1>2. \A i \in 1 .. m : MessageShape(sp[i]) /\ sp[i].role # "system"
  BY SpokenShape, Zenon
<1>3. \A i \in 1 .. m : Of(i, x[i])
  <2>1. \A i \in 1 .. m : \E y : Of(i, y)
    BY <1>2, ChatTold, Zenon
  <2> HIDE DEF Of
  <2>2. QED
    BY <2>1, Zenon
<1>4. \A i \in 1 .. m : x[i] \in S
  BY <1>3, Zenon DEF WellSent
<1>5. x \in T /\ Len(x) = m /\ DOMAIN x = 1 .. m
  <2> DEFINE chosen(i) == CHOOSE y : Of(i, y)
  <2> HIDE DEF Of, S, m, chosen
  <2>0. x = [i \in 1 .. m |-> chosen(i)]
    BY Zenon DEF chosen
  <2> HIDE DEF x
  <2>1. x = [i \in 1 .. m |-> x[i]]
    BY <2>0
  <2>2. x \in [1 .. m -> S]
    BY <1>4, <2>1, Zenon
  <2>3. QED
    BY <1>1, <2>2
<1>6. e \in Seq(T) /\ Len(e) = m /\ \A i \in 1 .. m : e[i] = <<x[i]>>
  <2>1. \A i \in 1 .. m : e[i] = <<x[i]>>
    BY <1>1, <1>3, Zenon
  <2>2. e = [i \in 1 .. m |-> e[i]]
    BY <1>1, Zenon
  <2> HIDE DEF x, e, m, S
  <2>3. \A i \in 1 .. m : e[i] \in T
    BY <1>4, <2>1
  <2> HIDE DEF T
  <2>4. e \in Seq(T) /\ Len(e) = m
    BY <1>1, <2>2, <2>3
  <2>5. QED
    BY <2>1, <2>4
<1>7. body.items = x /\ body.marks = 0
  <2>1. body.items = ChatBody.items /\ body.marks = ChatBody.marks
    BY Zenon
  <2>2. ChatBody.items = FlattenSeq(e) /\ ChatBody.marks = 0
    BY DEF ChatBody
  <2> HIDE DEF x, e, m, S
  <2>3. FlattenSeq(e) = x
    BY <1>5, <1>6, FlattenSingles
  <2>4. QED
    BY <2>1, <2>2, <2>3, Zenon
<1>8. \A i \in 1 .. m : Tells(messages[i + 1], x[i].parts, TRUE) /\ WellSent(x[i])
  BY <1>1, <1>3, Zenon
<1> HIDE DEF x
<1>9. TellAll(messages, Through(PartsIn, x), TRUE)
  <2>1. \A i \in 1 .. Len(x) : Tells(messages[i + 1], x[i].parts, TRUE)
    BY <1>5, <1>8, Zenon
  <2>2. Len(x) = Len(messages) - 1 /\ x \in Seq(BodyItem)
    BY <1>5, Zenon
  <2>3. QED
    BY <2>1, <2>2, ItemsTold, Zenon
<1>10. Says(TRUE)
  BY <1>5, <1>7, <1>9, PartsThrough, Zenon DEF Says
<1>11. QED
  BY <1>5, <1>7, <1>8, <1>10, Zenon

\* The last user message of those that are spoken.
LEMMA LastUserIs ==
  ASSUME NEW messages \in Seq(Message)
  PROVE  LastUser(messages)
           = {i \in DOMAIN messages : /\ messages[i].role = "user"
                                      /\ \A j \in DOMAIN messages : j > i => messages[j].role # "user"}
<1> DEFINE n == Len(messages)
           I == {i \in 1 .. n : messages[i].role = "user"}
<1>1. n \in Nat /\ DOMAIN messages = 1 .. n
  OBVIOUS
<1>2. SelectLastInSeq(messages, LAMBDA m : m.role = "user") = IF I # {} THEN Max(I) ELSE 0
  BY Zenon DEF SelectLastInSeq
<1>3. LastUser(messages) = {i \in 1 .. n : i = IF I # {} THEN Max(I) ELSE 0}
  BY <1>1, <1>2, Zenon DEF LastUser
<1> HIDE DEF n
<1>4. CASE I = {}
  <2>1. \A i \in 1 .. n : messages[i].role # "user" /\ i # 0
    BY <1>1, <1>4
  <2>2. QED
    BY <1>1, <1>3, <1>4, <2>1, Zenon
<1>5. CASE I # {}
  <2>1. PICK l \in I : \A i \in I : i <= l
    <3>1. I \in SUBSET (1 .. n)
      OBVIOUS
    <3> HIDE DEF I
    <3>2. QED
      BY <1>1, <1>5, <3>1, GreatestExists
  <2>2. I \subseteq Nat
    BY <1>1
  <2> HIDE DEF I
  <2>3. Max(I) = l
    <3>0. \A i \in I : l >= i
      BY <2>1, <2>2
    <3> DEFINE g == Max(I)
    <3>1. g \in I /\ \A i \in I : g >= i
      BY <2>1, <3>0, Zenon DEF Max
    <3>2. g \in Nat /\ l \in Nat /\ g >= l /\ l >= g
      BY <2>1, <2>2, <3>0, <3>1, Zenon
    <3> HIDE DEF g
    <3>3. g = l
      BY <3>2
    <3>4. QED
      BY <3>3 DEF g
  <2>4. \A i \in 1 .. n : i = l <=> (i \in I /\ \A j \in 1 .. n : j > i => j \notin I)
    <3>1. l \in 1 .. n /\ I \subseteq 1 .. n
      BY <2>1 DEF I
    <3>2. QED
      BY <1>1, <2>1, <3>1
  <2>5. \A i \in 1 .. n : i \in I <=> messages[i].role = "user"
    BY Zenon DEF I
  <2>6. QED
    BY <1>1, <1>3, <1>5, <2>3, <2>4, <2>5, Zenon
<1>6. QED
  BY <1>4, <1>5

\* Both formats of a mark: by the parts, and by the set of them.
LEMMA MarkedIs == Marked = {i \in DOMAIN body.items : IsMarked(body.items[i].parts)}
BY DEF Marked, IsMarked, ToSet

\* The messages that ask for a mark are the user's: one in front, and the last.
LEMMA CachedAreUsers ==
  ASSUME DialogueShape(request.messages)
  PROVE  LET sp == Spoken(request.messages) IN
         /\ CacheIndices(sp) \subseteq DOMAIN sp
         /\ \A i \in CacheIndices(sp) : sp[i].role = "user"
         /\ \E l : CacheIndices(sp) \subseteq {1, l}
         /\ CacheIndices(sp) =
              IF Caches
              THEN {i \in DOMAIN sp :
                      \/ sp[i].cache
                      \/ sp[i].role = "user" /\ \A j \in DOMAIN sp : j > i => sp[j].role # "user"}
              ELSE {}
<1> DEFINE sp == Spoken(request.messages)
           ending == SelectLastInSeq(sp, LAMBDA m : m.role = "user")
           Ends(i) == \A j \in DOMAIN sp : j > i => sp[j].role # "user"
<1>1. sp \in Seq(Message)
  BY SpokenBehindSystem, Zenon
<1>2. \A i \in DOMAIN sp : sp[i].cache => i = 1 /\ sp[i].role = "user"
  BY SpokenBehindSystem, SpokenShape, Zenon
<1>3. LastUser(sp) = {i \in DOMAIN sp : sp[i].role = "user" /\ Ends(i)}
  BY <1>1, LastUserIs, Zenon
<1>4. LastUser(sp) = {i \in DOMAIN sp : i = ending}
  BY Zenon DEF LastUser
<1>5. CacheIndices(sp) = IF ~Caches THEN {} ELSE LastUser(sp) \cup {i \in DOMAIN sp : sp[i].cache}
  BY Zenon DEF CacheIndices
<1> HIDE DEF sp, ending, Ends
<1>6. CacheIndices(sp) \subseteq DOMAIN sp /\ \A i \in CacheIndices(sp) : sp[i].role = "user"
  BY <1>2, <1>3, <1>5, Zenon
<1>7. CacheIndices(sp) \subseteq {1, ending}
  BY <1>2, <1>4, <1>5, Zenon
<1>8. CacheIndices(sp) =
        IF Caches THEN {i \in DOMAIN sp : sp[i].cache \/ (sp[i].role = "user" /\ Ends(i))} ELSE {}
  <2>1. LastUser(sp) \cup {i \in DOMAIN sp : sp[i].cache}
          = {i \in DOMAIN sp : sp[i].cache \/ (sp[i].role = "user" /\ Ends(i))}
    BY <1>3, Zenon
  <2>2. QED
    BY <1>5, <2>1, Zenon
<1>9. QED
  BY <1>6, <1>7, <1>8, Zenon DEF sp, Ends

\* A set of at most two elements.
LEMMA TwoAtMost ==
  ASSUME NEW S, NEW a, NEW b, S \subseteq {a, b}
  PROVE  IsFiniteSet(S) /\ Cardinality(S) \in Nat /\ Cardinality(S) <= 2
<1>1. IsFiniteSet({a}) /\ Cardinality({a}) = 1
  BY FS_Singleton
<1>2. /\ IsFiniteSet({a} \cup {b})
      /\ Cardinality({a} \cup {b}) = IF b \in {a} THEN Cardinality({a}) ELSE Cardinality({a}) + 1
  BY <1>1, FS_AddElement
<1>3. {a, b} = {a} \cup {b}
  OBVIOUS
<1>4. IsFiniteSet({a, b}) /\ Cardinality({a, b}) \in {1, 2}
  BY <1>1, <1>2, <1>3
<1>5. IsFiniteSet(S) /\ Cardinality(S) <= Cardinality({a, b})
  BY <1>4, FS_Subset
<1>6. Cardinality(S) \in Nat
  BY <1>5, FS_CardinalityType
<1>7. QED
  BY <1>4, <1>5, <1>6

\* The Anthropic format: an item of each message behind the system message, the
\* user's marked where a prompt is cached.
LEMMA AnthropicSays ==
  ASSUME DialogueShape(request.messages), body = AnthropicBody
  PROVE  /\ Says(FALSE) /\ body.marks \in 0 .. 2
         /\ Marked = CacheIndices(Spoken(request.messages))
         /\ \A i \in DOMAIN body.items : \A k \in DOMAIN body.items[i].parts :
              body.items[i].parts[k].kind # "reasoning"
<1> DEFINE messages == request.messages
           m == Len(messages) - 1
           sp == Spoken(messages)
           C == CacheIndices(sp)
           S == BodyItem
           T == Seq(S)
           x == [i \in DOMAIN sp |-> AnthropicItem(sp[i], i \in C)]
<1>1. /\ m \in Nat /\ DOMAIN messages = 1 .. m + 1 /\ DOMAIN sp = 1 .. m
      /\ \A i \in 1 .. m : i + 1 \in DOMAIN messages /\ sp[i] = messages[i + 1]
  <2>1. /\ Len(messages) \in Nat /\ Len(messages) > 0 /\ DOMAIN messages = 1 .. Len(messages)
        /\ DOMAIN sp = 1 .. m
        /\ \A i \in 1 .. m : i + 1 \in DOMAIN messages /\ sp[i] = messages[i + 1]
    BY SpokenBehindSystem, Zenon
  <2>2. m \in Nat /\ m + 1 = Len(messages)
    BY <2>1
  <2> HIDE DEF messages, sp, m
  <2>3. QED
    BY <2>1, <2>2, Zenon
<1>2. \A i \in 1 .. m : MessageShape(sp[i]) /\ sp[i].role # "system"
  BY SpokenShape, Zenon
<1>3. /\ C \subseteq 1 .. m /\ \A i \in C : sp[i].role = "user"
  BY <1>1, CachedAreUsers, Zenon
<1>4. body.items = x /\ body.marks = SystemMarks + ToolMarks
  <2>1. body.items = AnthropicBody.items /\ body.marks = AnthropicBody.marks
    BY Zenon
  <2>2. AnthropicBody.items = x /\ AnthropicBody.marks = SystemMarks + ToolMarks
    BY DEF AnthropicBody
  <2>3. QED
    BY <2>1, <2>2, Zenon
<1>5. body.marks \in 0 .. 2
  BY <1>4 DEF SystemMarks, ToolMarks
<1>6. \A i \in 1 .. m : /\ x[i] \in S /\ Tells(sp[i], x[i].parts, FALSE)
                        /\ (IsMarked(x[i].parts) <=> i \in C)
                        /\ \A k \in DOMAIN x[i].parts : x[i].parts[k].kind # "reasoning"
  <2> SUFFICES ASSUME NEW i \in 1 .. m
               PROVE  /\ x[i] \in S /\ Tells(sp[i], x[i].parts, FALSE)
                      /\ (IsMarked(x[i].parts) <=> i \in C)
                      /\ \A k \in DOMAIN x[i].parts : x[i].parts[k].kind # "reasoning"
    OBVIOUS
  <2> DEFINE cached == i \in C
             y == AnthropicItem(sp[i], cached)
  <2>1. x[i] = y
    BY <1>1, Zenon
  <2>2. cached \in BOOLEAN
    OBVIOUS
  <2> HIDE DEF cached, x
  <2>3. /\ y \in BodyItem /\ Tells(sp[i], y.parts, FALSE)
        /\ IsMarked(y.parts) => cached /\ sp[i].role # "tool"
        /\ sp[i].role = "user" /\ cached => IsMarked(y.parts)
        /\ \A k \in DOMAIN y.parts : y.parts[k].kind # "reasoning"
    BY <1>2, <2>2, AnthropicTold, Zenon
  <2>4. IsMarked(y.parts) <=> i \in C
    BY <1>3, <2>3, Zenon DEF cached
  <2> HIDE DEF y, sp, C
  <2>5. QED
    BY <2>1, <2>3, <2>4, Zenon
<1>7. x \in T /\ Len(x) = m /\ DOMAIN x = 1 .. m
  <2>1. x = [i \in 1 .. m |-> x[i]]
    BY <1>1, Zenon
  <2>2. \A i \in 1 .. m : x[i] \in S
    BY <1>6, Zenon
  <2> HIDE DEF x, m, S
  <2>3. x \in [1 .. m -> S]
    BY <2>1, <2>2, Zenon
  <2>4. QED
    BY <1>1, <2>3
<1> HIDE DEF x
<1>8. TellAll(messages, Through(PartsIn, x), FALSE)
  <2>1. \A i \in 1 .. Len(x) : Tells(messages[i + 1], x[i].parts, FALSE)
    BY <1>1, <1>6, <1>7, Zenon
  <2>2. Len(x) = Len(messages) - 1 /\ x \in Seq(BodyItem)
    BY <1>7, Zenon
  <2>3. QED
    BY <2>1, <2>2, ItemsTold, Zenon
<1>9. Says(FALSE)
  BY <1>4, <1>7, <1>8, PartsThrough, Zenon DEF Says
<1>10. Marked = C
  <2>1. Marked = {i \in 1 .. m : IsMarked(x[i].parts)}
    BY <1>4, <1>7, MarkedIs, Zenon
  <2> HIDE DEF C, m
  <2>2. QED
    BY <1>3, <1>6, <2>1, Zenon
<1>11. QED
  BY <1>4, <1>5, <1>6, <1>7, <1>9, <1>10, Zenon

----------------------------------------
(* The requests and their bodies.                                            *)

\* The body of the request that was prepared.
BodyOf == CASE setup.format = "responses" -> ResponsesBody
            [] setup.format = "chat" -> ChatBody
            [] setup.format = "anthropic" -> AnthropicBody

\* A session has its system message in front and a summary only behind it, with
\* or without the skill listing; a body is the one of the request it was built of.
ReqInv ==
  /\ ReqTypeOK
  /\ DialogueShape(dialogue)
  /\ reqStage \in {"prepared", "built"} => DialogueShape(request.messages)
  /\ Built => body = BodyOf

\* The options of a model, and the effort and the body they lead to.
LEMMA SetupTyped ==
  ASSUME setup \in Setups
  PROVE  setup.format \in RequestFormats /\ setup.level \in Levels
BY DEF Setups

LEMMA EffortTyped ==
  ASSUME setup \in Setups
  PROVE  (IF Enabled THEN Effort ELSE "none") \in {"none", "low", "high", "max"}
<1>1. setup.level \in {"off", "low", "xhigh"}
  BY SetupTyped, Zenon DEF Levels
<1>2. CASE Enabled
  <2>1. setup.level \in {"low", "xhigh"}
    BY <1>1, <1>2 DEF Enabled
  <2>2. Effort \in {"low", "high", "max"}
    BY <2>1 DEF Effort
  <2>3. QED
    BY <1>2, <2>2
<1>3. CASE ~ Enabled
  BY <1>3
<1>4. QED
  BY <1>2, <1>3

LEMMA BodyTyped ==
  ASSUME setup \in Setups, DialogueShape(request.messages)
  PROVE  /\ BodyOf.instructions \subseteq {"agent", "skills", "task"}
         /\ BodyOf.effort \in {"none", "low", "high", "max"}
         /\ BodyOf.marks \in 0 .. 2
<1> DEFINE e == IF Enabled THEN Effort ELSE "none"
<1>1. e \in {"none", "low", "high", "max"}
  BY EffortTyped, Zenon
<1>2. AgentPrompt \subseteq {"agent", "skills", "task"}
  BY DEF AgentPrompt
<1>3. CASE setup.format = "responses"
  <2>1. BodyOf = ResponsesBody
    BY <1>3 DEF BodyOf
  <2>2. ResponsesBody.instructions = AgentPrompt /\ ResponsesBody.effort = e /\ ResponsesBody.marks = 0
    BY DEF ResponsesBody
  <2> HIDE DEF e
  <2>3. QED
    BY <1>1, <1>2, <2>1, <2>2
<1>4. CASE setup.format = "chat"
  <2> DEFINE told == UNION {request.messages[i].tells : i \in
                             {j \in DOMAIN request.messages : request.messages[j].role = "system"}}
  <2>1. BodyOf = ChatBody
    BY <1>4 DEF BodyOf
  <2>2. ChatBody.instructions = told /\ ChatBody.effort = e /\ ChatBody.marks = 0
    BY DEF ChatBody
  <2>3. \A i \in DOMAIN request.messages : request.messages[i].tells \in SUBSET {"agent", "skills", "task"}
    BY MessageTyped, Zenon DEF DialogueShape, MessageShape
  <2>4. told \subseteq {"agent", "skills", "task"}
    BY <2>3, Zenon
  <2> HIDE DEF e, told
  <2>5. QED
    BY <1>1, <2>1, <2>2, <2>4
<1>5. CASE setup.format = "anthropic"
  <2>1. BodyOf = AnthropicBody
    BY <1>5 DEF BodyOf
  <2>2. /\ AnthropicBody.instructions = AgentPrompt /\ AnthropicBody.effort = e
        /\ AnthropicBody.marks = SystemMarks + ToolMarks
    BY DEF AnthropicBody
  <2>3. SystemMarks + ToolMarks \in 0 .. 2
    BY DEF SystemMarks, ToolMarks
  <2> HIDE DEF e
  <2>4. QED
    BY <1>1, <1>2, <2>1, <2>2, <2>3
<1>6. QED
  BY <1>3, <1>4, <1>5, SetupTyped DEF RequestFormats

\* What a built body says of the request's messages.
LEMMA BodySays ==
  ASSUME setup \in Setups, DialogueShape(request.messages), body = BodyOf
  PROVE  /\ Says(setup.format # "anthropic") /\ body.marks \in 0 .. 2
         /\ setup.format # "anthropic" =>
              body.marks = 0 /\ \A i \in DOMAIN body.items : WellSent(body.items[i])
         /\ setup.format = "anthropic" =>
              /\ Marked = CacheIndices(Spoken(request.messages))
              /\ \A i \in DOMAIN body.items : \A k \in DOMAIN body.items[i].parts :
                   body.items[i].parts[k].kind # "reasoning"
<1>1. CASE setup.format = "responses"
  <2>1. body = ResponsesBody
    BY <1>1 DEF BodyOf
  <2>2. Says(TRUE) /\ body.marks = 0 /\ \A i \in DOMAIN body.items : WellSent(body.items[i])
    BY <2>1, ResponsesSays
  <2>3. (setup.format # "anthropic") = TRUE /\ 0 \in 0 .. 2
    BY <1>1
  <2>4. QED
    BY <1>1, <2>2, <2>3, Zenon
<1>2. CASE setup.format = "chat"
  <2>1. body = ChatBody
    BY <1>2 DEF BodyOf
  <2>2. Says(TRUE) /\ body.marks = 0 /\ \A i \in DOMAIN body.items : WellSent(body.items[i])
    BY <2>1, ChatSays
  <2>3. (setup.format # "anthropic") = TRUE /\ 0 \in 0 .. 2
    BY <1>2
  <2>4. QED
    BY <1>2, <2>2, <2>3, Zenon
<1>3. CASE setup.format = "anthropic"
  <2>1. body = AnthropicBody
    BY <1>3 DEF BodyOf
  <2>2. (setup.format # "anthropic") = FALSE
    BY <1>3
  <2>3. QED
    BY <1>3, <2>1, <2>2, AnthropicSays, Zenon
<1>4. QED
  BY <1>1, <1>2, <1>3, SetupTyped DEF RequestFormats

\* A built body sends every exchange once, in order.
LEMMA ExchangesAreSent == ReqInv => ExchangesSent
<1> SUFFICES ASSUME ReqInv, Built PROVE ExchangesSent
  BY DEF ExchangesSent
<1>1. Says(setup.format # "anthropic")
  BY BodySays, Zenon DEF ReqInv, ReqTypeOK, Built
<1>2. OfKinds(Parts, Exchange)
        = FlattenSeq([i \in DOMAIN request.messages |-> Exchanged(request.messages[i])])
  BY <1>1, Zenon DEF Says, TellAll
<1>3. QED
  BY <1>2, Zenon DEF ExchangesSent, Exchange

\* A body of the formats without marks has none.
LEMMA UnmarkedBody ==
  ASSUME \A i \in DOMAIN body.items : WellSent(body.items[i])
  PROVE  Marked = {}
<1>1. \A i \in DOMAIN body.items : ~ IsMarked(body.items[i].parts)
  BY PlainUnmarked, Zenon DEF WellSent
<1>2. QED
  BY <1>1, MarkedIs

\* Two marks of the prompt and two of messages at most.
LEMMA MarksAreFew == ReqInv => FourMarks
<1> SUFFICES ASSUME ReqInv, Built PROVE FourMarks
  BY DEF FourMarks
<1>1. setup \in Setups /\ DialogueShape(request.messages) /\ body = BodyOf
  BY Zenon DEF ReqInv, ReqTypeOK, Built
<1>2. body.marks \in 0 .. 2
  BY <1>1, BodySays, Zenon
<1>3. \E l : Marked \subseteq {1, l}
  <2>1. CASE setup.format = "anthropic"
    BY <1>1, <2>1, BodySays, CachedAreUsers, Zenon
  <2>2. CASE setup.format # "anthropic"
    <3>1. Marked = {}
      BY <1>1, <2>2, BodySays, UnmarkedBody, Zenon
    <3>2. QED
      BY <3>1
  <2>3. QED
    BY <2>1, <2>2
<1>4. Cardinality(Marked) \in Nat /\ Cardinality(Marked) <= 2
  BY <1>3, TwoAtMost, Zenon
<1>5. QED
  BY <1>2, <1>4 DEF FourMarks

\* The marks are on the messages they were meant for.
LEMMA MarksAreInPlace == ReqInv => MarksInPlace
<1> SUFFICES ASSUME ReqInv, Built, setup.format = "anthropic" PROVE MarksInPlace
  BY DEF MarksInPlace
<1>1. setup \in Setups /\ DialogueShape(request.messages) /\ body = BodyOf
  BY Zenon DEF ReqInv, ReqTypeOK, Built
<1>2. Marked = CacheIndices(Spoken(request.messages))
  BY <1>1, BodySays, Zenon
<1>3. QED
  BY <1>1, <1>2, CachedAreUsers, Zenon DEF MarksInPlace

\* Reasoning is replayed by format.
LEMMA ReasoningIsReplayed == ReqInv => ReasoningReplayed
<1> SUFFICES ASSUME ReqInv, Built PROVE ReasoningReplayed
  BY DEF ReasoningReplayed
<1> DEFINE messages == request.messages
<1>1. setup \in Setups /\ DialogueShape(messages) /\ body = BodyOf
  BY Zenon DEF ReqInv, ReqTypeOK, Built
<1>2. Says(setup.format # "anthropic")
  BY <1>1, BodySays, Zenon
<1>3. CASE setup.format = "anthropic"
  <2> DEFINE e == [i \in DOMAIN body.items |-> body.items[i].parts]
  <2>1. \A i \in DOMAIN e : \A k \in DOMAIN e[i] : e[i][k].kind # "reasoning"
    BY <1>1, <1>3, BodySays, Zenon
  <2>2. e \in Seq(Seq(BodyPart))
    <3>1. e = Each(PartsIn, body.items)
      <4>1. \A i \in DOMAIN body.items : body.items[i] \in BodyItem
        BY <1>2 DEF Says
      <4>2. QED
        BY <4>1, Zenon DEF Each, PartsIn
    <3>2. Each(PartsIn, body.items) \in Seq(Seq(BodyPart))
      BY <1>2, PartsInMaps, EachTyped, Zenon DEF Says
    <3> HIDE DEF e
    <3>3. QED
      BY <3>1, <3>2, Zenon
  <2>3. Parts = FlattenSeq(e)
    BY Zenon DEF Parts
  <2> HIDE DEF e
  <2>4. ASSUME NEW i \in DOMAIN Parts PROVE Parts[i].kind # "reasoning"
    <3>1. i \in DOMAIN FlattenSeq(e)
      BY <2>3, Zenon
    <3>2. PICK j \in DOMAIN e : \E k \in DOMAIN e[j] : FlattenSeq(e)[i] = e[j][k]
      BY <2>2, <3>1, FlattenElements
    <3>3. QED
      BY <2>1, <2>3, <3>2, Zenon
  <2>5. \A p \in ToSet(Parts) : p.kind # "reasoning"
    BY <2>4, Zenon DEF ToSet
  <2>6. QED
    BY <1>3, <2>5, Zenon DEF ReasoningReplayed
<1>4. CASE setup.format # "anthropic"
  <2>1. OfKinds(Parts, Replay)
          = FlattenSeq([i \in DOMAIN messages |-> OneIf(messages[i].thought /\ TRUE, Reasoning(messages[i]))])
    <3>1. (setup.format # "anthropic") = TRUE
      BY <1>4
    <3>2. QED
      BY <1>2, <3>1, Zenon DEF Says, TellAll
  <2>2. \A i \in DOMAIN messages : OneIf(messages[i].thought /\ TRUE, Reasoning(messages[i]))
                                     = OneIf(messages[i].thought, Reasoning(messages[i]))
    <3>1. \A i \in DOMAIN messages : messages[i].thought \in BOOLEAN
      BY <1>1, MessageTyped, Zenon DEF DialogueShape, MessageShape
    <3>2. QED
      BY <3>1 DEF OneIf
  <2>3. OfKinds(Parts, Replay)
          = FlattenSeq([i \in DOMAIN messages |-> OneIf(messages[i].thought, Reasoning(messages[i]))])
    BY <2>1, <2>2, Zenon
  <2>4. ASSUME Style = "deepseek", NEW i \in DOMAIN body.items, body.items[i].role = "assistant"
        PROVE  \E p \in ToSet(body.items[i].parts) : p.kind \in {"reasoning", "no reasoning"}
    <3>1. \E k \in DOMAIN body.items[i].parts : body.items[i].parts[k].kind \in {"reasoning", "no reasoning"}
      BY <1>1, <1>4, <2>4, BodySays, Zenon DEF WellSent
    <3>2. QED
      BY <3>1, Zenon DEF ToSet
  <2>5. QED
    BY <1>4, <2>3, <2>4, Zenon DEF ReasoningReplayed, Replay
<1>5. QED
  BY <1>3, <1>4

\* The invariant has it all.
LEMMA ReqInvSuffices == ReqInv => RequestsWellFormed
BY ExchangesAreSent, MarksAreFew, MarksAreInPlace, ReasoningIsReplayed, Zenon DEF ReqInv, RequestsWellFormed

----------------------------------------
(* The session grows as it should.                                           *)

\* What is said without calls, reasoning or a mark is a message.
LEMMA SaidTyped ==
  ASSUME NEW role \in {"system", "user", "assistant", "tool"}
  PROVE  /\ Said(role).role = role /\ Said(role).calls = <<>> /\ Said(role).thought = FALSE
         /\ Said(role).cache = FALSE /\ Said(role) \in Message
<1>1. <<>> \in BoundedSeq(CallIds, 2)
  <2>1. <<>> \in [1 .. 0 -> CallIds] /\ 0 \in 0 .. 2
    OBVIOUS
  <2>2. QED
    BY <2>1, Zenon DEF BoundedSeq, SeqOf
<1> DEFINE S == BoundedSeq(CallIds, 2)
<1> HIDE DEF S
<1>2. Said(role) \in [role: {"system", "user", "assistant", "tool"}, text: BOOLEAN, thought: BOOLEAN,
                      calls: S, answers: SUBSET CallIds, cache: BOOLEAN,
                      tells: SUBSET {"agent", "skills", "task"}]
  BY <1>1 DEF Said, S
<1>3. Said(role) \in Message
  BY <1>2, Zenon DEF Message, S
<1>4. QED
  BY <1>3 DEF Said

\* A system prompt is a message with nothing but its text.
LEMMA SystemTyped ==
  ASSUME NEW tells \in SUBSET {"agent", "skills", "task"}
  PROVE  MessageShape(System(tells)) /\ System(tells).role = "system" /\ System(tells).cache = FALSE
<1> DEFINE s == Said("system")
           S == BoundedSeq(CallIds, 2)
<1>1. s \in Message /\ s.role = "system" /\ s.calls = <<>> /\ s.thought = FALSE /\ s.cache = FALSE
  BY SaidTyped
<1>2. System(tells) = [s EXCEPT !.tells = tells]
  BY DEF System
<1> HIDE DEF s, S
<1>3. s \in [role: {"system", "user", "assistant", "tool"}, text: BOOLEAN, thought: BOOLEAN,
             calls: S, answers: SUBSET CallIds, cache: BOOLEAN,
             tells: SUBSET {"agent", "skills", "task"}]
  BY <1>1, Zenon DEF Message, S
<1>4. System(tells) \in [role: {"system", "user", "assistant", "tool"}, text: BOOLEAN, thought: BOOLEAN,
                         calls: S, answers: SUBSET CallIds, cache: BOOLEAN,
                         tells: SUBSET {"agent", "skills", "task"}]
  BY <1>2, <1>3
<1>5. System(tells) \in Message
  BY <1>4, Zenon DEF Message, S
<1>6. QED
  BY <1>1, <1>2, <1>3, <1>5 DEF MessageShape

\* A message of no system's behind a session, with a mark only as the second.
LEMMA AppendShape ==
  ASSUME NEW d, DialogueShape(d), NEW m, MessageShape(m), m.role # "system",
         m.cache => Len(d) = 1 /\ m.role = "user"
  PROVE  DialogueShape(Append(d, m))
<1> DEFINE S == Message
           n == Len(d)
           a == Append(d, m)
<1>1. d \in Seq(S) /\ m \in S /\ d # <<>>
  BY Zenon DEF DialogueShape, MessageShape
<1> HIDE DEF S
<1>2. /\ a \in Seq(S) /\ a # <<>> /\ n \in Nat /\ n > 0 /\ DOMAIN a = 1 .. n + 1 /\ DOMAIN d = 1 .. n
      /\ a[n + 1] = m /\ \A i \in 1 .. n : a[i] = d[i]
  BY <1>1
<1> HIDE DEF a, n
<1>3. ASSUME NEW i \in 1 .. n + 1
      PROVE  /\ MessageShape(a[i])
             /\ a[i].role = "system" <=> i = 1
             /\ a[i].cache => i = 2 /\ a[i].role = "user"
  <2>1. CASE i = n + 1
    <3>1. i # 1 /\ (n = 1 => i = 2)
      BY <1>2, <2>1
    <3>2. a[i] = m
      BY <1>2, <2>1
    <3>3. QED
      BY <3>1, <3>2, Zenon DEF n
  <2>2. CASE i # n + 1
    <3>1. i \in 1 .. n
      BY <1>2, <2>2
    <3> DEFINE x == d[i]
    <3>2. MessageShape(x) /\ (x.role = "system" <=> i = 1) /\ (x.cache => i = 2 /\ x.role = "user")
      BY <1>2, <3>1, Zenon DEF DialogueShape
    <3>3. a[i] = x
      BY <1>2, <3>1
    <3> HIDE DEF x
    <3>4. QED
      BY <3>2, <3>3, Zenon
  <2>3. QED
    BY <2>1, <2>2
<1>4. QED
  BY <1>2, <1>3, Zenon DEF DialogueShape, S, a

\* One lemma per action.
LEMMA SayKeeps ==
  ASSUME ReqInv, NEW m, Say(m), MessageShape(m), m.role # "system",
         m.cache => Len(dialogue) = 1 /\ m.role = "user"
  PROVE  ReqInv'
<1>1. reqStage' = "dialogue" /\ dialogue' = Append(dialogue, m) /\ UNCHANGED <<setup, request, body>>
  BY DEF Say
<1>2. DialogueShape(dialogue')
  BY <1>1, AppendShape, Zenon DEF ReqInv
<1>3. \A i \in DOMAIN dialogue' : dialogue'[i] \in Message
  BY <1>2, Zenon DEF DialogueShape, MessageShape
<1>4. ReqTypeOK'
  BY <1>1, <1>3 DEF ReqInv, ReqTypeOK
<1>5. QED
  BY <1>1, <1>2, <1>4 DEF ReqInv, Built

\* What the session still waits for are calls that were made.
LEMMA UnansweredTyped ==
  ASSUME DialogueShape(dialogue), Unanswered # <<>>
  PROVE  Head(Unanswered) \in CallIds
<1> DEFINE n == Len(dialogue)
           I == {i \in 1 .. n : dialogue[i].role = "assistant"}
           asked == SelectLastInSeq(dialogue, LAMBDA m : m.role = "assistant")
           calls == dialogue[asked].calls
<1>1. n \in Nat /\ DOMAIN dialogue = 1 .. n
  BY SpokenBehindSystem, Zenon
<1>2. asked = IF I # {} THEN Max(I) ELSE 0
  BY Zenon DEF SelectLastInSeq
<1>3. Unanswered = IF asked = 0 THEN <<>> ELSE SubSeq(calls, n - asked + 1, Len(calls))
  BY Zenon DEF Unanswered
<1> HIDE DEF asked, n
<1>4. I # {} /\ asked = Max(I)
  BY <1>2, <1>3
<1>5. asked \in 1 .. n
  <2>1. I \in SUBSET (1 .. n)
    OBVIOUS
  <2> HIDE DEF I
  <2>2. PICK l \in I : \A i \in I : i <= l
    BY <1>1, <1>4, <2>1, GreatestExists
  <2>3. \A i \in I : l >= i
    BY <1>1, <2>1, <2>2
  <2>4. Max(I) \in I
    BY <2>2, <2>3, Zenon DEF Max
  <2>5. QED
    BY <1>4, <2>1, <2>4, Zenon
<1>6. calls \in Seq(CallIds)
  BY <1>1, <1>5, MessageTyped, Zenon DEF DialogueShape, MessageShape
<1>7. n - asked + 1 \in Nat /\ n - asked + 1 >= 1 /\ asked # 0
  BY <1>1, <1>5
<1> DEFINE k == n - asked + 1
<1>8. Unanswered = SubSeq(calls, k, Len(calls)) /\ k \in Nat /\ k >= 1
  BY <1>3, <1>7, Zenon
<1> HIDE DEF k, calls
<1>9. SubSeq(calls, k, Len(calls)) \in Seq(CallIds)
  BY <1>6, <1>8
<1> DEFINE u == Unanswered
<1>10. u \in Seq(CallIds) /\ u # <<>>
  BY <1>8, <1>9, Zenon
<1> HIDE DEF u
<1>11. Head(u) \in CallIds
  BY <1>10
<1>12. QED
  BY <1>11 DEF u

LEMMA SaySummaryKeeps ==
  ASSUME ReqInv, SaySummary
  PROVE  ReqInv'
<1> DEFINE s == Said("user")
           m == [s EXCEPT !.cache = TRUE]
           S == BoundedSeq(CallIds, 2)
<1>1. s \in Message /\ s.role = "user" /\ s.calls = <<>> /\ s.thought = FALSE
  BY SaidTyped
<1>2. Len(dialogue) = 1 /\ Say(m)
  BY DEF SaySummary
<1>3. MessageShape(m) /\ m.role = "user"
  <2> HIDE DEF s, S
  <2>1. s \in [role: {"system", "user", "assistant", "tool"}, text: BOOLEAN, thought: BOOLEAN,
               calls: S, answers: SUBSET CallIds, cache: BOOLEAN,
               tells: SUBSET {"agent", "skills", "task"}]
    BY <1>1, Zenon DEF Message, S
  <2>2. m \in [role: {"system", "user", "assistant", "tool"}, text: BOOLEAN, thought: BOOLEAN,
               calls: S, answers: SUBSET CallIds, cache: BOOLEAN,
               tells: SUBSET {"agent", "skills", "task"}]
    BY <2>1
  <2>3. m \in Message
    BY <2>2, Zenon DEF Message, S
  <2>4. m.role = "user" /\ m.calls = <<>> /\ m.thought = FALSE
    BY <1>1, <2>1
  <2>5. QED
    BY <2>3, <2>4 DEF MessageShape
<1> HIDE DEF m
<1>4. m.role # "system"
  BY <1>3
<1>5. QED
  BY <1>2, <1>3, <1>4, SayKeeps, Zenon

LEMMA SayUserKeeps ==
  ASSUME ReqInv, SayUser
  PROVE  ReqInv'
<1> DEFINE m == Said("user")
<1>1. Say(m)
  BY DEF SayUser
<1>2. m \in Message /\ m.role = "user" /\ m.calls = <<>> /\ m.thought = FALSE /\ m.cache = FALSE
  BY SaidTyped
<1> HIDE DEF m
<1>3. MessageShape(m) /\ m.role # "system" /\ ~ m.cache
  BY <1>2 DEF MessageShape
<1>4. QED
  BY <1>1, <1>3, SayKeeps, Zenon

\* An answer: with up to two calls.
LEMMA SayAnswerKeeps ==
  ASSUME ReqInv, SayAnswer
  PROVE  ReqInv'
<1> DEFINE S == BoundedSeq(CallIds, 2)
<1>1. SUFFICES ASSUME NEW c \in S, NEW t \in BOOLEAN, NEW r \in BOOLEAN, Say(AnswerWith(t, r, c))
               PROVE  ReqInv'
  BY Zenon DEF SayAnswer
<1> DEFINE s == Said("assistant")
           m == AnswerWith(t, r, c)
<1>2. s \in Message /\ s.role = "assistant" /\ s.cache = FALSE
  BY SaidTyped
<1>3. Say(m)
  BY <1>1
<1>4. m = [s EXCEPT !.text = t, !.thought = r, !.calls = c]
  BY DEF AnswerWith
<1>5. c \in S
  OBVIOUS
<1> HIDE DEF s, S, m
<1>6. s \in [role: {"system", "user", "assistant", "tool"}, text: BOOLEAN, thought: BOOLEAN,
             calls: S, answers: SUBSET CallIds, cache: BOOLEAN,
             tells: SUBSET {"agent", "skills", "task"}]
  BY <1>2, Zenon DEF Message, S
<1>7. m \in [role: {"system", "user", "assistant", "tool"}, text: BOOLEAN, thought: BOOLEAN,
             calls: S, answers: SUBSET CallIds, cache: BOOLEAN,
             tells: SUBSET {"agent", "skills", "task"}]
  BY <1>4, <1>5, <1>6
<1>8. m \in Message
  BY <1>7, Zenon DEF Message, S
<1>9. m.role = "assistant" /\ m.cache = FALSE
  BY <1>2, <1>4, <1>6
<1>10. MessageShape(m) /\ m.role # "system" /\ ~ m.cache
  BY <1>8, <1>9 DEF MessageShape
<1>11. QED
  BY <1>3, <1>10, SayKeeps, Zenon

\* A result: of the call that waits longest.
LEMMA SayResultKeeps ==
  ASSUME ReqInv, SayResult
  PROVE  ReqInv'
<1> DEFINE s == Said("tool")
           S == BoundedSeq(CallIds, 2)
           m == [s EXCEPT !.answers = {Head(Unanswered)}]
<1>1. s \in Message /\ s.role = "tool" /\ s.calls = <<>> /\ s.thought = FALSE /\ s.cache = FALSE
  BY SaidTyped
<1>2. Unanswered # <<>> /\ Say(m)
  BY DEF SayResult
<1>3. {Head(Unanswered)} \in SUBSET CallIds
  <2>1. Head(Unanswered) \in CallIds
    BY <1>2, UnansweredTyped DEF ReqInv
  <2>2. QED
    BY <2>1
<1> DEFINE a == {Head(Unanswered)}
<1> HIDE DEF s, S, a
<1>4. s \in [role: {"system", "user", "assistant", "tool"}, text: BOOLEAN, thought: BOOLEAN,
             calls: S, answers: SUBSET CallIds, cache: BOOLEAN,
             tells: SUBSET {"agent", "skills", "task"}]
  BY <1>1, Zenon DEF Message, S
<1>5. m = [s EXCEPT !.answers = a] /\ a \in SUBSET CallIds
  BY <1>3 DEF a
<1> HIDE DEF m
<1>6. m \in [role: {"system", "user", "assistant", "tool"}, text: BOOLEAN, thought: BOOLEAN,
             calls: S, answers: SUBSET CallIds, cache: BOOLEAN,
             tells: SUBSET {"agent", "skills", "task"}]
  BY <1>4, <1>5
<1>7. m \in Message
  BY <1>6, Zenon DEF Message, S
<1>8. m.role = "tool" /\ m.calls = <<>> /\ m.thought = FALSE /\ m.cache = FALSE
  BY <1>1, <1>4, <1>5
<1>9. MessageShape(m) /\ m.role # "system" /\ ~ m.cache
  BY <1>7, <1>8 DEF MessageShape
<1>10. QED
  BY <1>2, <1>9, SayKeeps, Zenon

\* The skill listing takes the place of the system message.
LEMMA SkillsShape ==
  ASSUME NEW d, DialogueShape(d), NEW listed \in BOOLEAN
  PROVE  DialogueShape(WithSkills(d, listed))
<1>1. CASE ~ listed
  <2>1. WithSkills(d, listed) = d
    BY <1>1 DEF WithSkills
  <2>2. QED
    BY <2>1
<1>2. CASE listed
  <2> DEFINE S == Message
             n == Len(d)
             x == System({"agent", "skills"})
             t == Tail(d)
             a == <<x>> \o t
  <2>1. MessageShape(x) /\ x.role = "system" /\ x.cache = FALSE
    <3>1. {"agent", "skills"} \in SUBSET {"agent", "skills", "task"}
      OBVIOUS
    <3>2. QED
      BY <3>1, SystemTyped
  <2>2. d \in Seq(S) /\ d # <<>> /\ x \in S
    BY <2>1, Zenon DEF DialogueShape, MessageShape
  <2> HIDE DEF S, x
  <2>3. /\ t \in Seq(S) /\ Len(t) = n - 1 /\ n \in Nat /\ n > 0 /\ DOMAIN d = 1 .. n
        /\ \A i \in 1 .. n - 1 : t[i] = d[i + 1]
    BY <2>2
  <2> HIDE DEF t
  <2>4. /\ a \in Seq(S) /\ Len(a) = Len(t) + 1 /\ a[1] = x
        /\ \A i \in 1 .. Len(t) : a[i + 1] = t[i]
    BY <2>2, <2>3, InFront
  <2> HIDE DEF a, n
  <2>5. a # <<>> /\ DOMAIN a = 1 .. n
    BY <2>3, <2>4
  <2>6. ASSUME NEW i \in 1 .. n
        PROVE  /\ MessageShape(a[i])
               /\ a[i].role = "system" <=> i = 1
               /\ a[i].cache => i = 2 /\ a[i].role = "user"
    <3>1. CASE i = 1
      BY <2>1, <2>4, <3>1, Zenon
    <3>2. CASE i # 1
      <4>1. i - 1 \in 1 .. n - 1 /\ (i - 1) + 1 = i
        BY <2>3, <3>2
      <4>2. a[i] = d[i]
        BY <2>3, <2>4, <4>1, Zenon
      <4> DEFINE y == d[i]
      <4>3. MessageShape(y) /\ (y.role = "system" <=> i = 1) /\ (y.cache => i = 2 /\ y.role = "user")
        BY <2>3, Zenon DEF DialogueShape
      <4>4. a[i] = y
        BY <4>2
      <4> HIDE DEF y
      <4>5. QED
        BY <4>3, <4>4, Zenon
    <3>3. QED
      BY <3>1, <3>2
  <2>7. DialogueShape(a)
    BY <2>4, <2>5, <2>6, Zenon DEF DialogueShape, S
  <2>8. WithSkills(d, listed) = a
    BY <1>2 DEF WithSkills, a, x, t
  <2>9. QED
    BY <2>7, <2>8, Zenon
<1>3. QED
  BY <1>1, <1>2

\* A request of the loop.
LEMMA PrepareMainKeeps ==
  ASSUME ReqInv, PrepareMain
  PROVE  ReqInv'
<1>1. /\ reqStage' = "prepared" /\ setup' \in Setups /\ UNCHANGED <<dialogue, body>>
      /\ request'.purpose = "main" /\ \E listed \in BOOLEAN : request'.messages = WithSkills(dialogue, listed)
  BY DEF PrepareMain
<1>2. DialogueShape(request'.messages)
  BY <1>1, SkillsShape, Zenon DEF ReqInv
<1>3. ReqTypeOK'
  BY <1>1 DEF ReqInv, ReqTypeOK, RequestPurposes
<1>4. QED
  BY <1>1, <1>2, <1>3 DEF ReqInv, Built

\* A side request: a prompt of its own and the conversation.
LEMMA SideShape == DialogueShape(<<System({"task"}), Said("user")>>)
<1> DEFINE x == System({"task"})
           y == Said("user")
           S == Message
           d == <<x, y>>
<1>1. MessageShape(x) /\ x.role = "system" /\ x.cache = FALSE
  <2>1. {"task"} \in SUBSET {"agent", "skills", "task"}
    OBVIOUS
  <2>2. QED
    BY <2>1, SystemTyped
<1>2. MessageShape(y) /\ y.role = "user" /\ y.cache = FALSE
  BY SaidTyped DEF MessageShape
<1>3. x \in S /\ y \in S
  BY <1>1, <1>2, Zenon DEF MessageShape
<1> HIDE DEF x, y, S
<1>4. d \in Seq(S) /\ d # <<>> /\ DOMAIN d = {1, 2} /\ d[1] = x /\ d[2] = y
  BY <1>3
<1> HIDE DEF d
<1>5. \A i \in DOMAIN d : /\ MessageShape(d[i])
                          /\ d[i].role = "system" <=> i = 1
                          /\ d[i].cache => i = 2 /\ d[i].role = "user"
  <2>1. y.role # "system" /\ 2 # 1
    BY <1>2
  <2>2. QED
    BY <1>1, <1>2, <1>4, <2>1, Zenon
<1>6. DialogueShape(d)
  BY <1>4, <1>5, Zenon DEF DialogueShape, S
<1>7. QED
  BY <1>6 DEF d, x, y

LEMMA PrepareSideKeeps ==
  ASSUME ReqInv, PrepareSide
  PROVE  ReqInv'
<1>1. /\ reqStage' = "prepared" /\ setup' \in Setups /\ UNCHANGED <<dialogue, body>>
      /\ request'.purpose = "compaction" /\ request'.messages = <<System({"task"}), Said("user")>>
  BY DEF PrepareSide
<1>2. DialogueShape(request'.messages)
  BY <1>1, SideShape, Zenon
<1>3. ReqTypeOK'
  BY <1>1 DEF ReqInv, ReqTypeOK, RequestPurposes
<1>4. QED
  BY <1>1, <1>2, <1>3 DEF ReqInv, Built

\* A body depends on the request and the options alone.
LEMMA BodyStays ==
  ASSUME UNCHANGED <<setup, request>>
  PROVE  BodyOf' = BodyOf
<1>1. setup' = setup /\ request' = request
  OBVIOUS
<1>2. Style' = Style /\ Enabled' = Enabled /\ Caches' = Caches
  BY <1>1, Zenon DEF Style, Enabled, Caches, Retention
<1>3. Effort' = Effort
  BY <1>1, <1>2, Zenon DEF Effort
<1>4. ResponsesBody' = ResponsesBody
  BY <1>1, <1>2, <1>3, Zenon DEF ResponsesBody, ResponsesItems
<1>5. ChatBody' = ChatBody
  BY <1>1, <1>2, <1>3, Zenon DEF ChatBody, ChatItems
<1>6. AnthropicBody' = AnthropicBody
  BY <1>1, <1>2, <1>3, Zenon DEF AnthropicBody, AnthropicItem, AssistantContent, CacheIndices,
     ToolMarks, SystemMarks
<1>7. QED
  BY <1>1, <1>4, <1>5, <1>6, Zenon DEF BodyOf

\* The body is made of the request that was prepared.
LEMMA BuildKeeps ==
  ASSUME ReqInv, BuildRequest
  PROVE  ReqInv'
<1>1. reqStage = "prepared" /\ reqStage' = "built" /\ UNCHANGED <<dialogue, setup, request>>
  BY DEF BuildRequest
<1>2. body' = BodyOf
  BY Zenon DEF BuildRequest, BodyOf
<1>3. setup \in Setups /\ DialogueShape(request.messages)
  BY <1>1 DEF ReqInv, ReqTypeOK
<1>4. /\ body'.instructions \subseteq {"agent", "skills", "task"}
      /\ body'.effort \in {"none", "low", "high", "max"} /\ body'.marks \in 0 .. 2
  BY <1>2, <1>3, BodyTyped, Zenon
<1>5. BodyOf' = BodyOf
  BY <1>1, BodyStays
<1>6. ReqTypeOK'
  BY <1>1, <1>4 DEF ReqInv, ReqTypeOK
<1>7. QED
  BY <1>1, <1>2, <1>3, <1>5, <1>6 DEF ReqInv

\* The invariant holds at first and through every step.
LEMMA ReqBlankHolds == ReqBlank => ReqInv
<1> SUFFICES ASSUME ReqBlank PROVE ReqInv
  OBVIOUS
<1>1. reqStage = "blank" /\ setup = NoSetup /\ request = NoRequest /\ body = NoBody
  BY DEF ReqBlank
<1> DEFINE x == System({"agent"})
           S == Message
           d == <<x>>
<1>2. dialogue = d
  BY DEF ReqBlank
<1>3. MessageShape(x) /\ x.role = "system" /\ x.cache = FALSE
  <2>1. {"agent"} \in SUBSET {"agent", "skills", "task"}
    OBVIOUS
  <2>2. QED
    BY <2>1, SystemTyped
<1>4. x \in S
  BY <1>3, Zenon DEF MessageShape
<1> HIDE DEF x, S
<1>5. d \in Seq(S) /\ d # <<>> /\ DOMAIN d = {1} /\ d[1] = x
  BY <1>4
<1> HIDE DEF d
<1>6. DialogueShape(d)
  BY <1>3, <1>5, Zenon DEF DialogueShape, S
<1>7. \A i \in DOMAIN d : d[i] \in Message
  BY <1>4, <1>5, Zenon DEF S
<1>8. setup \in Setups
  BY <1>1, RequestsAssumption DEF NoSetup, Setups, RequestFormats, Styles, Levels, Retentions
<1>9. ReqTypeOK
  BY <1>1, <1>2, <1>7, <1>8 DEF ReqTypeOK, NoRequest, NoBody
<1>10. QED
  BY <1>1, <1>2, <1>6, <1>9 DEF ReqInv, Built

LEMMA ReqStepKeeps == ReqInv /\ [ReqNext]_reqVars => ReqInv'
<1> SUFFICES ASSUME ReqInv, [ReqNext]_reqVars PROVE ReqInv'
  OBVIOUS
<1>1. CASE SaySummary
  BY <1>1, SaySummaryKeeps
<1>2. CASE SayUser
  BY <1>2, SayUserKeeps
<1>3. CASE SayAnswer
  BY <1>3, SayAnswerKeeps
<1>4. CASE SayResult
  BY <1>4, SayResultKeeps
<1>5. CASE PrepareMain
  BY <1>5, PrepareMainKeeps
<1>6. CASE PrepareSide
  BY <1>6, PrepareSideKeeps
<1>7. CASE BuildRequest
  BY <1>7, BuildKeeps
<1>8. CASE UNCHANGED reqVars
  <2>1. UNCHANGED <<reqStage, dialogue, setup, request, body>>
    BY <1>8 DEF reqVars
  <2>2. BodyOf' = BodyOf
    BY <2>1, BodyStays
  <2>3. ReqTypeOK'
    BY <2>1 DEF ReqInv, ReqTypeOK
  <2>4. QED
    BY <2>1, <2>2, <2>3 DEF ReqInv, Built
<1>9. QED
  BY <1>1, <1>2, <1>3, <1>4, <1>5, <1>6, <1>7, <1>8, Zenon DEF ReqNext

(* Every body a client builds of a request (buildParams, buildChatBody,      *)
(* buildBody of src/models) sends the session's exchanges once and in order, *)
(* replays its reasoning where the format wants it, and marks the messages   *)
(* it means to, at most four marks in all.                                   *)
THEOREM BodiesAreWellFormed == ReqSpec => []RequestsWellFormed
<1>1. ReqSpec => []ReqInv
  BY ReqBlankHolds, ReqStepKeeps, PTL DEF ReqSpec
<1>2. QED
  BY <1>1, ReqInvSuffices, PTL

----------------------------------------
(* Together.                                                               *)

\* A step of the requests is a step or a stutter of every stage.
LEMMA RequestsStep ==
  [RequestsNext]_requestsVars =>
    /\ [PassNext]_passVars /\ [ContextNext]_contextVars /\ [ReqNext]_reqVars
    /\ [RoutingNext]_routingVars /\ [StreamNext]_streamVars
BY Zenon DEF RequestsNext, requestsVars

\* The stages side by side run as each does alone.
THEOREM RequestsRunsItsParts ==
  RequestsSpec => PassSpec /\ ContextSpec /\ ReqSpec /\ RoutingSpec /\ StreamSpec
BY RequestsStep, PTL DEF RequestsSpec, RequestsInit, PassSpec, ContextSpec, ReqSpec, RoutingSpec, StreamSpec

\* What is proved of the passes, of views, of bodies, of routing and of streams holds
\* of the stages side by side.
THEOREM RequestsAreSound ==
  RequestsSpec => /\ PassesSparing
                  /\ [](/\ QuestionSent /\ OnlySummarisedMissing /\ ViewsKeepPairs
                        /\ RequestsWellFormed /\ RoutingKept /\ StreamHeard)
BY RequestsRunsItsParts, PassesAreSparing, QuestionAlwaysSent, NothingSilentlyMissing,
   PairsStayTogether, BodiesAreWellFormed, RoutingIsKept, StreamIsHeard, PTL
===============================================================================
