---------------------------- MODULE MCPortTable ----------------------------
(* Two principals, two ports and a file with a scope of its own. *)
EXTENDS PortTable, TLC

File == 0
MCScope == {{1}, {2}, {File}}
MCCoveredBy == [s \in MCScope |-> s]
MCRequests == {{"read"}, {"write"}, {"read", "delegate"}, {"read", "write", "delegate"}}
Principals == Permutations(Principal)
=============================================================================
