---------------------------- MODULE MCKernelMain ----------------------------
(***************************************************************************)
(* KernelMain on a machine with one core, and on one with a disabled core  *)
(* 2 listed before the second core 1.                                      *)
(***************************************************************************)
EXTENDS KernelMain

Cpu(id, on) == [apic_id |-> id, enabled |-> on]

MCTopologies == {<<Cpu(0, TRUE)>>, <<Cpu(0, TRUE), Cpu(2, FALSE), Cpu(1, TRUE)>>}

MCAttest(config) == (config.vault_id + 3 * config.owner_pid + config.memory_start + 7 * config.memory_end) % U64
=============================================================================
