-------------------------------- MODULE MCWeb ---------------------------------
(* A small instance of Web for TLC; sessions are interchangeable.            *)
EXTENDS Web, TLC

CONSTANTS s1, s2

SessionSymmetry == Permutations(Sessions)
===============================================================================
