------------------------------ MODULE AtomicFiles ------------------------------
(***************************************************************************)
(* What the mutating tools promise about a file: every call that takes     *)
(* effect does so at one moment, an edit to the text it then finds.  A     *)
(* file's text is the sequence of calls it came about by.                  *)
(***************************************************************************)
EXTENDS Sequences

CONSTANTS Files, FileCalls, Missing, Torn

VARIABLE content   \* each file's text; Missing, or Torn by a write that failed half-way

Texts == Seq(FileCalls)

AtomicInit == content \in [Files -> {Missing} \cup Texts]

Replaced(f, c) == content' = [content EXCEPT ![f] = <<c>>]
Edited(f, c) ==
  content[f] \in Texts /\ content' = [content EXCEPT ![f] = Append(content[f], c)]
Damaged(f) == content' = [content EXCEPT ![f] = Torn]

AtomicNext == \E f \in Files : Damaged(f) \/ \E c \in FileCalls : Replaced(f, c) \/ Edited(f, c)

AtomicSpec == AtomicInit /\ [][AtomicNext]_content
===============================================================================
