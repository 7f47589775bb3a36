-------------------------- MODULE MCProcessMemory --------------------------
(* Two processes, three physical pages, pages of two bytes. *)
EXTENDS ProcessMemory, TLC

MCCoveredBy == [s \in {"heap"} |-> {"heap"}]

(* The frames are interchangeable. *)
Frames == Permutations(Frame)
=============================================================================
