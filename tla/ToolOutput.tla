------------------------------ MODULE ToolOutput -------------------------------
(***************************************************************************)
(* What becomes of a tool's output on its way into the transcript          *)
(* (src/runtime/loop.ts:226-241): a large string is saved to a file and    *)
(* replaced by a preview (src/runtime/tool-persistence.ts), then what is   *)
(* left is fitted into the tool's budget by a binary search over how much  *)
(* of its head and tail to keep (src/tools/truncation.ts).                 *)
(* A text is a sequence of characters, of which only the sizes matter: its *)
(* bytes in UTF-8, and its bytes inside a JSON string, where it may be     *)
(* escaped.                                                                *)
(***************************************************************************)
EXTENDS Integers, Sequences, SequencesExt

CONSTANTS
  MaxLength,   \* characters of the longest output
  Budgets,     \* maxBytes
  HeadLimits, TailLimits,   \* options.headBytes, options.tailBytes; not given: -1
  Frame,       \* bytes of a truncated result around numbers, head and tail
  Preview,     \* characters of a preview message
  Characters,  \* sizes of the characters an output may have
  FallsShort   \* <<total, head, tail>> where the ratio of splitBytes, a floating-point
               \* number, makes a whole product come out just below itself

ASSUME OutputAssumption ==
  /\ MaxLength \in Nat /\ Frame \in Nat /\ Preview \in Nat
  /\ Budgets \subseteq Nat
  /\ HeadLimits \subseteq Nat \cup {-1} /\ TailLimits \subseteq Nat \cup {-1}
  /\ \A ch \in Characters : ch \in [bytes : Nat \ {0}, json : Nat] /\ ch.json >= ch.bytes
  /\ \A w \in FallsShort :
       /\ w \in (Nat \ {0}) \X (Nat \ {0}) \X (Nat \ {0})
       /\ (w[1] * w[2]) % (w[2] + w[3]) = 0

Plain == [bytes |-> 1, json |-> 1]

VARIABLES
  outStage,   \* "blank", "produced", "kept" (saved or not), "fitting", "done"
  value,      \* the output, later its preview
  original,   \* history: the output the tool returned
  disk,       \* "none", "saved", "refused"
  options,    \* of truncateToolOutput
  low, high,  \* bounds of the search
  best        \* the largest number of bytes found to fit, -1 if none yet

outVars == <<outStage, value, original, disk, options, low, high, best>>

Least(a, b) == IF a < b THEN a ELSE b
TotalOf(sizes) ==
  LET sum[i \in 0 .. Len(sizes)] == IF i = 0 THEN 0 ELSE sum[i - 1] + sizes[i]
  IN sum[Len(sizes)]
Size(s) == TotalOf([i \in DOMAIN s |-> s[i].bytes])
JsonSize(s) == TotalOf([i \in DOMAIN s |-> s[i].json])
Digits[n \in Nat] == IF n < 10 THEN 1 ELSE 1 + Digits[n \div 10]

\* truncateUtf8Head and truncateUtf8Tail: whole characters only.
FirstOf(s, k) == SubSeq(s, 1, k)
LastOf(s, k)  == SubSeq(s, Len(s) - k + 1, Len(s))
HeadOf(s, bytes) ==
  FirstOf(s, CHOOSE k \in 0 .. Len(s) :
               Size(FirstOf(s, k)) <= bytes /\ (k = Len(s) \/ Size(FirstOf(s, k + 1)) > bytes))
TailOf(s, bytes) ==
  LastOf(s, CHOOSE k \in 0 .. Len(s) :
              Size(LastOf(s, k)) <= bytes /\ (k = Len(s) \/ Size(LastOf(s, k + 1)) > bytes))

HeadBytes(o) ==
  IF o.strategy = "head-only"
  THEN Least(IF o.head = -1 THEN o.max ELSE o.head, o.max)
  ELSE Least(IF o.head = -1 THEN o.max \div 2 ELSE o.head, o.max)
TailBytes(o) ==
  IF o.strategy = "head-only" THEN 0
  ELSE Least(IF o.tail = -1 THEN o.max - HeadBytes(o) ELSE o.tail, o.max - HeadBytes(o))

\* splitBytes: in proportion to the limits, what one side cannot use to the other.
Share(total, h, t) ==
  (total * h) \div (IF h + t = 0 THEN 1 ELSE h + t)
    - (IF <<total, h, t>> \in FallsShort THEN 1 ELSE 0)
Split(total, h, t) ==
  LET head0 == Least(h, Share(total, h, t))
      tail0 == Least(t, total - head0)
      add   == Least(h - head0, total - head0 - tail0)
  IN [head |-> head0 + add, tail |-> tail0 + Least(t - tail0, total - head0 - add - tail0)]

Kept(total) ==
  LET s == Split(total, HeadBytes(options), TailBytes(options))
  IN [head |-> HeadOf(value, s.head), tail |-> TailOf(value, s.tail)]

\* Bytes of the built result: the numbers in it, and both parts, escaped or not.
Built(k) ==
  LET kept == Size(k.head) + Size(k.tail)
      omitted == Size(value) - kept
  IN IF options.plain THEN Frame + Digits[omitted] + kept
     ELSE Frame + Digits[Size(value)] + Digits[kept] + Digits[omitted]
          + JsonSize(k.head) + JsonSize(k.tail)

Texts(n) == UNION {[1 .. k -> Characters] : k \in 0 .. n}
OutOptions == [max: Budgets, strategy: {"head-tail"}, head: HeadLimits, tail: TailLimits,
               plain: BOOLEAN]
              \cup [max: Budgets, strategy: {"head-only"}, head: HeadLimits, tail: {-1},
                    plain: {FALSE}]

OutInit ==
  /\ outStage = "blank"
  /\ value = <<>> /\ original = <<>>
  /\ disk = "none"
  /\ options = [max |-> 0, strategy |-> "head-tail", head |-> -1, tail |-> -1, plain |-> FALSE]
  /\ low = 0 /\ high = 0 /\ best = -1

Produce ==
  /\ outStage = "blank"
  /\ \E v \in Texts(MaxLength), o \in OutOptions :
       value' = v /\ original' = v /\ options' = o
  /\ outStage' = "produced"
  /\ UNCHANGED <<disk, low, high, best>>

Large == Size(value) >= options.max

(* Nothing to save: too small, no storage, no string, a tool that reads.   *)
NotSaved ==
  /\ outStage = "produced"
  /\ outStage' = "kept"
  /\ UNCHANGED <<value, original, disk, options, low, high, best>>

\* The directory or the file cannot be written: the output stays as it is.
SaveFails ==
  /\ outStage = "produced" /\ Large
  /\ disk' = "refused" /\ outStage' = "kept"
  /\ UNCHANGED <<value, original, options, low, high, best>>

\* Mutated form of Save: the output is replaced whether or not it was written.
SaveBeforeWriting ==
  /\ outStage = "produced" /\ Large
  /\ disk' \in {"saved", "refused"}
  /\ value' = [i \in 1 .. Preview |-> Plain]
  /\ outStage' = "kept"
  /\ UNCHANGED <<original, options, low, high, best>>

\* A file of that name is taken for this output: calls have distinct ids.
Save ==
  /\ outStage = "produced" /\ Large
  /\ disk' = "saved"
  /\ value' = [i \in 1 .. Preview |-> Plain]
  /\ outStage' = "kept"
  /\ UNCHANGED <<original, options, low, high, best>>

NeedsFit == Size(value) > options.max

Fits ==
  /\ outStage = "kept" /\ ~NeedsFit
  /\ outStage' = "done"
  /\ UNCHANGED <<value, original, disk, options, low, high, best>>

StartFit ==
  /\ outStage = "kept" /\ NeedsFit
  /\ low' = 0 /\ high' = HeadBytes(options) + TailBytes(options)
  /\ outStage' = "fitting"
  /\ UNCHANGED <<value, original, disk, options, best>>

FitStep ==
  /\ outStage = "fitting" /\ low <= high
  /\ LET mid == (low + high) \div 2
     IN IF Built(Kept(mid)) <= options.max
        THEN best' = mid /\ low' = mid + 1 /\ UNCHANGED high
        ELSE high' = mid - 1 /\ UNCHANGED <<low, best>>
  /\ UNCHANGED <<outStage, value, original, disk, options>>

EndFit ==
  /\ outStage = "fitting" /\ low > high
  /\ outStage' = "done"
  /\ UNCHANGED <<value, original, disk, options, low, high, best>>

OutNext ==
  Produce \/ NotSaved \/ SaveFails \/ Save \/ Fits \/ StartFit \/ FitStep \/ EndFit

OutSpec == OutInit /\ [][OutNext]_outVars

-------------------------------------------------------------------------------
\* The content that goes to the model: the value, head and tail of it, or, when
\* not even an empty result fits, the beginning of that.
ContentSize ==
  IF ~NeedsFit THEN Size(value)
  ELSE IF best >= 0 THEN Built(Kept(best))
  ELSE Least(Built([head |-> <<>>, tail |-> <<>>]), options.max)

(* Type correctness.                                                       *)
OutTypeOK ==
  /\ outStage \in {"blank", "produced", "kept", "fitting", "done"}
  /\ disk \in {"none", "saved", "refused"}
  /\ best \in -1 .. high \/ best < low
  /\ low >= 0 /\ high >= -1

\* What is shown never exceeds the budget, though numbers and escapes inside the
\* built result grow and shrink with what is kept; head and tail never overlap,
\* and no character is cut in two.
ContentFits ==
  outStage = "done" =>
    /\ ContentSize <= options.max
    /\ best >= 0 => LET k == Kept(best)
                    IN /\ Len(k.head) + Len(k.tail) <= Len(value)
                       /\ k.head = SubSeq(value, 1, Len(k.head))
                       /\ k.tail = SubSeq(value, Len(value) - Len(k.tail) + 1, Len(value))

\* The search gives nothing away: no larger share of head and tail would fit, so
\* the size of the built result grows with the share, whatever it is made of.
FitIsLargest ==
  outStage = "done" /\ NeedsFit =>
    \A m \in 0 .. HeadBytes(options) + TailBytes(options) :
      Built(Kept(m)) <= options.max => m <= best

\* Nothing a tool returned gets lost unmarked: the output is in the transcript
\* whole, or what is there says it is truncated, or it is saved in full.
NothingLostUnmarked ==
  outStage = "done" => \/ value = original \/ disk = "saved"

\* What src/tools/truncation.ts makes of an output fits, is as much as fits, and
\* hides no loss.
OutputFits == OutTypeOK /\ ContentFits /\ FitIsLargest /\ NothingLostUnmarked

===============================================================================
