------------------------------ MODULE MCWebChat -------------------------------
(* Small instances of WebChat for TLC.                                       *)
EXTENDS WebChat, TLC

CONSTANTS s1, s2

SessionSymmetry == Permutations(Sessions)
===============================================================================
