------------------------------- MODULE MCTools -------------------------------
(* Small instances of Tools for TLC.  Of the registry's calls c1 names a     *)
(* tool with a timeout; of the inputs the sandbox refuses one.               *)
EXTENDS Tools

CONSTANTS c1, c2, c3, safe, unsafe, f1

MCCalls == {c1, c2, c3}
MCInputOf == [c \in MCCalls |-> safe]
MCStatuses == {"error"}
\* -1: the option is not given.
MCHeadLimits == {-1, 0, 2}
MCTailLimits == {-1, 2}
\* Plain, escaped in JSON, and of three bytes.
MCCharacters ==
  {[bytes |-> 1, json |-> 1], [bytes |-> 1, json |-> 2], [bytes |-> 3, json |-> 3]}
\* Half of the whole products of such limits; the smallest real one is <<22, 15, 7>>.
MCFallsShort ==
  {w \in (1 .. 8) \X (1 .. 8) \X (1 .. 8) : (w[1] * w[2]) % (w[2] + w[3]) = 0 /\ w[1] % 2 = 0}
===============================================================================
