------------------------------ MODULE MCRequests ------------------------------
(* A small instance of Requests for TLC.                                      *)
EXTENDS Requests

CONSTANTS c1, c2

PassSetup(collapse, timed, micro, names) ==
  [collapse |-> collapse, timed |-> timed, micro |-> micro, names |-> names]

\* Each pass alone, in pairs, and all three; keepRecent values from 0 to 2.
MCConfigs ==
  {PassSetup(-1, -1, 1, {}), PassSetup(0, 0, 0, {}), PassSetup(1, -1, 1, {}),
   PassSetup(1, 1, 2, {"read_file"}), PassSetup(-1, 1, -1, {}), PassSetup(2, -1, 0, {"read_file"})}
===============================================================================
