--------------------------- MODULE BootSequencer ---------------------------
(***************************************************************************)
(* The boot-phase order of reference-rs/src/boot.rs.  A sequencer is the   *)
(* set of the phases it has marked complete.                               *)
(***************************************************************************)
EXTENDS Integers, Sequences

ORDER == <<"EarlyBoot", "LateBoot", "SchedulerBoot", "SanctumBoot", "IpcBoot", "SyscallBoot">>

Phases == {ORDER[i] : i \in DOMAIN ORDER}

Index(phase) == CHOOSE i \in DOMAIN ORDER : ORDER[i] = phase

Earlier(phase) == {ORDER[i] : i \in {j \in DOMAIN ORDER : j < Index(phase)}}

(* complete() returns Ok: neither AlreadyComplete nor OutOfOrder. *)
MayComplete(completed, phase) == phase \notin completed /\ Earlier(phase) \subseteq completed

Complete(completed, phase) ==
  IF MayComplete(completed, phase) THEN completed \cup {phase} ELSE completed

SatisfiesOrderingInvariant(completed) == \A phase \in completed : Earlier(phase) \subseteq completed
=============================================================================
