-------------------------- MODULE CapabilityBroker --------------------------
(***************************************************************************)
(* CapabilityBroker of reference-rs/src/capability.rs, under every         *)
(* sequence of calls and with time passing between them (callers pass the  *)
(* time in, and it never goes back).                                       *)
(*                                                                         *)
(* Permissions are the set of bits that are on.  A resource is a resource  *)
(* type and a path; the scope of a token is a type and a path or path      *)
(* prefix.  The issuer is recorded and never read: a direct issue is by 0. *)
(* The audit log is only ever appended to, and left out.                   *)
(***************************************************************************)
EXTENDS Integers, FiniteSets

CONSTANTS Principal, Resource, Permission, Scope,
          CoveredBy,   \* path_covers and the type: the resources of each scope.
          MaxTokens,   \* Bound: how many tokens there ever are.
          MaxTime      \* Bound: how far time goes.

Time == 0 .. MaxTime
TokenId == 1 .. MaxTokens

ASSUME BrokerAssumption ==
  /\ MaxTokens \in Nat /\ MaxTime \in Nat
  /\ "delegate" \in Permission
  /\ CoveredBy \in [Scope -> SUBSET Resource]

VARIABLES tokens, next_token_id,
          now,        \* The time the next call passes.
          root        \* History: the directly issued token each token goes back to.

brokerVars == <<tokens, next_token_id, now, root>>

Token == [issuer : Principal \cup {0}, subject : Principal, scope : Scope,
          permissions : SUBSET Permission, expires_at : Nat, revoked : BOOLEAN]

BrokerInit ==
  /\ tokens = <<>> /\ next_token_id = 1 /\ now = 0
  /\ root = <<>>

----------------------------------------------------------------------------
Covers(permissions, other) == other \subseteq permissions

Intersect(permissions, other) == permissions \cap other

IsLive(token, t) == ~ token.revoked /\ t < token.expires_at

Grants(token, subject, resource) == token.subject = subject /\ resource \in CoveredBy[token.scope]

Decide(subject, resource, needs, t) ==
  LET matching == {i \in DOMAIN tokens : Grants(tokens[i], subject, resource)}
  IN  IF \E i \in matching : IsLive(tokens[i], t) /\ Covers(tokens[i].permissions, needs) THEN "Allowed"
      ELSE IF \E i \in matching : tokens[i].revoked THEN "Revoked"
      ELSE IF \E i \in matching : t >= tokens[i].expires_at THEN "Expired"
      ELSE "Denied"

CheckAccess(subject, resource, needs) == Decide(subject, resource, needs, now)

(* issue, of a token that goes back to the token origin. *)
IssueFrom(origin, issuer, subject, scope, permissions, expires_at) ==
  /\ next_token_id \in TokenId
  /\ tokens' = [i \in DOMAIN tokens \cup {next_token_id} |->
                  IF i = next_token_id
                  THEN [issuer |-> issuer, subject |-> subject, scope |-> scope, permissions |-> permissions,
                        expires_at |-> expires_at, revoked |-> FALSE]
                  ELSE tokens[i]]
  /\ root' = [i \in DOMAIN tokens \cup {next_token_id} |-> IF i = next_token_id THEN origin ELSE root[i]]
  /\ next_token_id' = next_token_id + 1
  /\ UNCHANGED now

Issue(subject, scope, permissions, expires_at) == IssueFrom(next_token_id, 0, subject, scope, permissions, expires_at)

(* revoke.  An unknown id is an error that changes nothing.  Variant:      *)
(* revoking twice restores the token.                                      *)
RevokeToggles(id) ==
  /\ id \in DOMAIN tokens
  /\ tokens' = [tokens EXCEPT ![id].revoked = ~ @]
  /\ UNCHANGED <<next_token_id, now, root>>

Revoke(id) ==
  /\ id \in DOMAIN tokens
  /\ tokens' = [tokens EXCEPT ![id].revoked = TRUE]
  /\ UNCHANGED <<next_token_id, now, root>>

(* delegate.  Its errors (a source that is unknown or not live, not        *)
(* delegatable, or lacks a requested permission) change nothing.           *)
(* Variant: the new token does not end with its source.                    *)
DelegateForEver(id, delegatee, requested) ==
  /\ id \in DOMAIN tokens /\ IsLive(tokens[id], now)
  /\ "delegate" \in tokens[id].permissions /\ Intersect(tokens[id].permissions, requested) = requested
  /\ IssueFrom(root[id], tokens[id].subject, delegatee, tokens[id].scope, requested, MaxTime + 1)

Delegate(id, delegatee, requested) ==
  /\ id \in DOMAIN tokens /\ IsLive(tokens[id], now)
  /\ "delegate" \in tokens[id].permissions /\ Intersect(tokens[id].permissions, requested) = requested
  /\ IssueFrom(root[id], tokens[id].subject, delegatee, tokens[id].scope, requested, tokens[id].expires_at)

TimePasses ==
  /\ now < MaxTime /\ now' = now + 1
  /\ UNCHANGED <<tokens, next_token_id, root>>

----------------------------------------------------------------------------
(* What any caller may do. *)
BrokerNext ==
  \/ \E subject \in Principal, scope \in Scope, permissions \in SUBSET Permission, expires_at \in 1 .. MaxTime + 1 :
       Issue(subject, scope, permissions, expires_at)
  \/ \E id \in TokenId : Revoke(id)
  \/ \E id \in TokenId, delegatee \in Principal, requested \in SUBSET Permission : Delegate(id, delegatee, requested)
  \/ TimePasses

BrokerSpec == BrokerInit /\ [][BrokerNext]_brokerVars

----------------------------------------------------------------------------
(* Every variable keeps its type, and token ids are given out one by one.  *)
BrokerTypeOK ==
  /\ next_token_id \in 1 .. MaxTokens + 1 /\ DOMAIN tokens = 1 .. next_token_id - 1
  /\ \A i \in DOMAIN tokens : tokens[i] \in Token
  /\ now \in Time
  /\ DOMAIN root = DOMAIN tokens /\ \A i \in DOMAIN root : root[i] \in DOMAIN tokens

Allowed(subject, resource, needs) == CheckAccess(subject, resource, needs) = "Allowed"

(* process_capability_confinement and capability_delegation, over any      *)
(* chain of delegations: whatever a principal may do, somebody was once    *)
(* directly issued at least that much, on that resource and not yet        *)
(* expired - the principal itself, or a holder allowed to delegate.        *)
AuthorityIsRooted ==
  \A subject \in Principal, resource \in Resource, needs \in SUBSET Permission :
    Allowed(subject, resource, needs) =>
      \E i \in DOMAIN tokens :
        /\ root[i] = i /\ now < tokens[i].expires_at
        /\ resource \in CoveredBy[tokens[i].scope] /\ needs \subseteq tokens[i].permissions
        /\ tokens[i].subject = subject \/ "delegate" \in tokens[i].permissions

(* capability_revocation, "immediate and final": access that is refused,   *)
(* for want of a token, by revocation or by expiry, stays refused until a  *)
(* new token for that very principal is issued.                            *)
RefusalIsFinal ==
  [][\A subject \in Principal, resource \in Resource, needs \in SUBSET Permission :
       ~ Allowed(subject, resource, needs) /\ Allowed(subject, resource, needs)' =>
         next_token_id' = next_token_id + 1 /\ tokens'[next_token_id].subject = subject]_brokerVars
=============================================================================
