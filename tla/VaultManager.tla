---------------------------- MODULE VaultManager ----------------------------
(***************************************************************************)
(* The vault registry of reference-rs/src/sanctum.rs.  A registry is a     *)
(* record of the vaults, each with its configuration and the attestation   *)
(* stored for it, and of the next id.  Attest is the checksum of the five  *)
(* words of a configuration; all that is used of it is that it is a        *)
(* function of them.                                                       *)
(***************************************************************************)
EXTENDS Integers

CONSTANT Attest(_)

NewVaultManager == [vaults |-> [id \in {} |-> 0], next_vault_id |-> 1]

Vaults(m) == DOMAIN m.vaults

Config(id, owner_pid, vault_type, memory_start, memory_end) ==
  [vault_id |-> id, owner_pid |-> owner_pid, vault_type |-> vault_type,
   memory_start |-> memory_start, memory_end |-> memory_end]

Store(m, id, config) ==
  [id2 \in Vaults(m) \cup {id} |->
     IF id2 = id THEN [config |-> config, attestation_hash |-> Attest(config)] ELSE m.vaults[id2]]

CreateVault(m, owner_pid, vault_type, memory_start, memory_end) ==
  [vaults |-> Store(m, m.next_vault_id,
                    Config(m.next_vault_id, owner_pid, vault_type, memory_start, memory_end)),
   next_vault_id |-> m.next_vault_id + 1]

(* enter_vault returns Ok. *)
MayEnterVault(m, id) ==
  id \in Vaults(m) /\ Attest(m.vaults[id].config) = m.vaults[id].attestation_hash

(* attest_vault: nothing happens to an unknown vault. *)
AttestVault(m, id) ==
  IF id \in Vaults(m) THEN [m EXCEPT !.vaults = Store(m, id, m.vaults[id].config)] ELSE m

(* check_access returns Ok. *)
MayAccess(m, id, vaddr) ==
  /\ id \in Vaults(m)
  /\ m.vaults[id].config.memory_start <= vaddr
  /\ vaddr < m.vaults[id].config.memory_end
=============================================================================
