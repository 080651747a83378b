----------------------------- MODULE MCAgentLoop ------------------------------
(* Small instances of AgentLoop for TLC: up to three tool calls c1, c2, c3,  *)
(* and one kind of input, which the sandbox accepts.                         *)
EXTENDS AgentLoop

CONSTANTS c1, c2, c3, input

MCInputOf == [c \in Calls |-> input]
===============================================================================
