----------------------------- MODULE MCRunQueue -----------------------------
(* Three pids, two deadlines, vruntimes of a three-valued u64 so that      *)
(* charges wrap; the pids are numbers because ties are broken by them.     *)
EXTENDS RunQueue

MCPids == 0 .. 2
MCDeadlines == 1 .. 2
MCCharges == 0 .. 2
=============================================================================
