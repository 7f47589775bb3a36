-------------------------- MODULE CapabilityProofs --------------------------
(* Confinement, delegation and revocation of the broker and of the ports   *)
(* above it, for any number of principals, tokens and ports; and isolation *)
(* of the processes' memory, for any pages, sizes and regions.             *)
EXTENDS PortTable, ProcessMemory, TLAPS, FiniteSetTheorems, SequenceTheorems

(* A token agrees with the one it goes back to in scope and expiry, has no *)
(* permission that one lacks, and is that one or was made by delegation.   *)
Lineage ==
  \A i \in DOMAIN tokens :
    /\ root[root[i]] = root[i]
    /\ tokens[root[i]].scope = tokens[i].scope
    /\ tokens[root[i]].expires_at = tokens[i].expires_at
    /\ tokens[i].permissions \subseteq tokens[root[i]].permissions
    /\ root[i] = i \/ "delegate" \in tokens[root[i]].permissions

BrokerInv == BrokerTypeOK /\ Lineage

(* The new broker satisfies the invariant. *)
LEMMA BrokerInitInv == BrokerInit => BrokerInv
<1> SUFFICES ASSUME BrokerInit PROVE BrokerInv
  OBVIOUS
<1>1. DOMAIN tokens = {} /\ DOMAIN root = {}
  BY DEF BrokerInit
<1> QED BY <1>1, BrokerAssumption DEF BrokerInit, BrokerInv, BrokerTypeOK, Lineage, Time

(* What issue adds: one token, with a new id. *)
LEMMA IssueAdds ==
  ASSUME BrokerInv,
         NEW origin, NEW issuer, NEW subject, NEW scope, NEW permissions, NEW expires_at,
         IssueFrom(origin, issuer, subject, scope, permissions, expires_at)
  PROVE  /\ next_token_id \in TokenId /\ next_token_id \notin DOMAIN tokens
         /\ next_token_id' = next_token_id + 1 /\ now' = now
         /\ DOMAIN tokens' = DOMAIN tokens \cup {next_token_id} /\ DOMAIN root' = DOMAIN tokens'
         /\ DOMAIN tokens' = 1 .. next_token_id' - 1
         /\ \A i \in DOMAIN tokens : tokens'[i] = tokens[i] /\ root'[i] = root[i]
         /\ root'[next_token_id] = origin
         /\ tokens'[next_token_id] =
              [issuer |-> issuer, subject |-> subject, scope |-> scope, permissions |-> permissions,
               expires_at |-> expires_at, revoked |-> FALSE]
<1>1. next_token_id \in TokenId /\ next_token_id \in Nat /\ DOMAIN tokens = 1 .. next_token_id - 1 /\ next_token_id \notin DOMAIN tokens
  BY BrokerAssumption DEF IssueFrom, BrokerInv, BrokerTypeOK, TokenId
<1>2. DOMAIN tokens' = DOMAIN tokens \cup {next_token_id} /\ DOMAIN root' = DOMAIN tokens'
  BY DEF IssueFrom
<1>3. next_token_id' = next_token_id + 1 /\ now' = now
  BY DEF IssueFrom
<1>4. DOMAIN tokens' = 1 .. next_token_id' - 1
  BY <1>1, <1>2, <1>3 DEF TokenId
<1>5. \A i \in DOMAIN tokens : tokens'[i] = tokens[i] /\ root'[i] = root[i]
  BY <1>1 DEF IssueFrom
<1>6. /\ root'[next_token_id] = origin
      /\ tokens'[next_token_id] =
           [issuer |-> issuer, subject |-> subject, scope |-> scope, permissions |-> permissions,
            expires_at |-> expires_at, revoked |-> FALSE]
  BY DEF IssueFrom
<1> QED BY <1>1, <1>2, <1>3, <1>4, <1>5, <1>6

(* A token keeps its lineage when it and the one it goes back to stay.     *)
LEMMA OldTokensKeepLineage ==
  ASSUME BrokerInv, \A i \in DOMAIN tokens : tokens'[i] = tokens[i] /\ root'[i] = root[i],
         NEW i \in DOMAIN tokens
  PROVE  /\ root'[i] \in DOMAIN tokens
         /\ root'[root'[i]] = root'[i]
         /\ tokens'[root'[i]].scope = tokens'[i].scope
         /\ tokens'[root'[i]].expires_at = tokens'[i].expires_at
         /\ tokens'[i].permissions \subseteq tokens'[root'[i]].permissions
         /\ root'[i] = i \/ "delegate" \in tokens'[root'[i]].permissions
<1> DEFINE r == root[i]
<1>1. r \in DOMAIN tokens
  BY DEF BrokerInv, BrokerTypeOK
<1>2. /\ root[r] = r /\ tokens[r].scope = tokens[i].scope /\ tokens[r].expires_at = tokens[i].expires_at
      /\ tokens[i].permissions \subseteq tokens[r].permissions
      /\ r = i \/ "delegate" \in tokens[r].permissions
  BY DEF BrokerInv, Lineage
<1>3. root'[i] = r
  OBVIOUS
<1> HIDE DEF r
<1>4. tokens'[i] = tokens[i] /\ tokens'[r] = tokens[r] /\ root'[r] = root[r]
  BY <1>1
<1> QED BY <1>1, <1>2, <1>3, <1>4

(* A directly issued token goes back to itself. *)
LEMMA IssueKeeps ==
  ASSUME BrokerInv, NEW subject \in Principal, NEW scope \in Scope, NEW permissions \in SUBSET Permission,
         NEW expires_at \in Nat, Issue(subject, scope, permissions, expires_at)
  PROVE  BrokerInv'
<1> DEFINE n == next_token_id
<1>1. IssueFrom(n, 0, subject, scope, permissions, expires_at)
  BY DEF Issue
<1>2. /\ n \in TokenId /\ n \notin DOMAIN tokens /\ next_token_id' = n + 1 /\ now' = now
      /\ DOMAIN tokens' = DOMAIN tokens \cup {n} /\ DOMAIN root' = DOMAIN tokens' /\ DOMAIN tokens' = 1 .. next_token_id' - 1
  BY <1>1, IssueAdds
<1>3. \A i \in DOMAIN tokens : tokens'[i] = tokens[i] /\ root'[i] = root[i]
  BY <1>1, IssueAdds
<1>4. /\ root'[n] = n
      /\ tokens'[n] = [issuer |-> 0, subject |-> subject, scope |-> scope, permissions |-> permissions,
                       expires_at |-> expires_at, revoked |-> FALSE]
  BY <1>1, IssueAdds
<1> HIDE DEF n
<1>5. BrokerTypeOK'
  <2>1. next_token_id' \in 1 .. MaxTokens + 1
    BY <1>2, BrokerAssumption DEF TokenId
  <2>2. tokens'[n] \in Token
    BY <1>4 DEF Token
  <2>3. \A i \in DOMAIN tokens : tokens'[i] \in Token /\ root'[i] \in DOMAIN tokens
    BY <1>3 DEF BrokerInv, BrokerTypeOK
  <2> QED BY <2>1, <2>2, <2>3, <1>2, <1>3, <1>4 DEF BrokerInv, BrokerTypeOK
<1>6. Lineage'
  <2>1. ASSUME NEW i \in DOMAIN tokens
        PROVE  /\ root'[root'[i]] = root'[i]
               /\ tokens'[root'[i]].scope = tokens'[i].scope
               /\ tokens'[root'[i]].expires_at = tokens'[i].expires_at
               /\ tokens'[i].permissions \subseteq tokens'[root'[i]].permissions
               /\ root'[i] = i \/ "delegate" \in tokens'[root'[i]].permissions
    BY <1>3, OldTokensKeepLineage
  <2>2. root'[root'[n]] = root'[n] /\ root'[n] = n
    BY <1>4
  <2> QED BY <2>1, <2>2, <1>2 DEF Lineage
<1> QED BY <1>5, <1>6 DEF BrokerInv

(* A delegated token goes back to where its source does. *)
LEMMA DelegateKeeps ==
  ASSUME BrokerInv, NEW id \in TokenId, NEW delegatee \in Principal, NEW requested \in SUBSET Permission,
         Delegate(id, delegatee, requested)
  PROVE  BrokerInv'
<1> DEFINE n == next_token_id
           r == root[id]
<1>1. /\ id \in DOMAIN tokens /\ "delegate" \in tokens[id].permissions /\ requested \subseteq tokens[id].permissions
      /\ IssueFrom(r, tokens[id].subject, delegatee, tokens[id].scope, requested, tokens[id].expires_at)
  BY DEF Delegate, Intersect
<1>2. /\ n \in TokenId /\ n \notin DOMAIN tokens /\ next_token_id' = n + 1 /\ now' = now
      /\ DOMAIN tokens' = DOMAIN tokens \cup {n} /\ DOMAIN root' = DOMAIN tokens' /\ DOMAIN tokens' = 1 .. next_token_id' - 1
  BY <1>1, IssueAdds
<1>3. \A i \in DOMAIN tokens : tokens'[i] = tokens[i] /\ root'[i] = root[i]
  BY <1>1, IssueAdds
<1>4. /\ root'[n] = r
      /\ tokens'[n] = [issuer |-> tokens[id].subject, subject |-> delegatee, scope |-> tokens[id].scope,
                       permissions |-> requested, expires_at |-> tokens[id].expires_at, revoked |-> FALSE]
  BY <1>1, IssueAdds
<1>5. r \in DOMAIN tokens /\ tokens[id] \in Token
  BY <1>1 DEF BrokerInv, BrokerTypeOK
<1> HIDE DEF n
<1>6. BrokerTypeOK'
  <2>1. next_token_id' \in 1 .. MaxTokens + 1
    BY <1>2, BrokerAssumption DEF TokenId
  <2>2. tokens'[n] \in Token
    BY <1>4, <1>5 DEF Token
  <2>3. \A i \in DOMAIN tokens : tokens'[i] \in Token /\ root'[i] \in DOMAIN tokens
    BY <1>3 DEF BrokerInv, BrokerTypeOK
  <2> QED BY <2>1, <2>2, <2>3, <1>2, <1>3, <1>4, <1>5 DEF BrokerInv, BrokerTypeOK
<1>7. Lineage'
  <2>1. ASSUME NEW i \in DOMAIN tokens
        PROVE  /\ root'[root'[i]] = root'[i]
               /\ tokens'[root'[i]].scope = tokens'[i].scope
               /\ tokens'[root'[i]].expires_at = tokens'[i].expires_at
               /\ tokens'[i].permissions \subseteq tokens'[root'[i]].permissions
               /\ root'[i] = i \/ "delegate" \in tokens'[root'[i]].permissions
    BY <1>3, OldTokensKeepLineage
  <2>2. /\ root'[r] = r /\ tokens'[r].scope = tokens'[n].scope
        /\ tokens'[r].expires_at = tokens'[n].expires_at
        /\ tokens'[n].permissions \subseteq tokens'[r].permissions
        /\ "delegate" \in tokens'[r].permissions
    <3>1. /\ root[r] = r /\ tokens[r].scope = tokens[id].scope /\ tokens[r].expires_at = tokens[id].expires_at
          /\ tokens[id].permissions \subseteq tokens[r].permissions
          /\ r = id \/ "delegate" \in tokens[r].permissions
      BY <1>1 DEF BrokerInv, Lineage
    <3>2. tokens'[r] = tokens[r] /\ root'[r] = root[r]
      BY <1>3, <1>5
    <3>3. /\ tokens'[n].scope = tokens[id].scope /\ tokens'[n].expires_at = tokens[id].expires_at
          /\ tokens'[n].permissions = requested
      BY <1>4
    <3> HIDE DEF r
    <3> QED BY <3>1, <3>2, <3>3, <1>1
  <2> QED BY <2>1, <2>2, <1>2, <1>4 DEF Lineage
<1> QED BY <1>6, <1>7 DEF BrokerInv

(* revoke changes one bit of one token. *)
LEMMA RevokeKeeps ==
  ASSUME BrokerInv, NEW id \in TokenId, Revoke(id)
  PROVE  BrokerInv'
<1>1. /\ id \in DOMAIN tokens /\ DOMAIN tokens' = DOMAIN tokens
      /\ tokens' = [tokens EXCEPT ![id].revoked = TRUE]
      /\ next_token_id' = next_token_id /\ now' = now /\ root' = root
  BY DEF Revoke
<1>2. /\ \A i \in DOMAIN tokens : tokens[i] \in Token /\ root[i] \in DOMAIN tokens
  BY DEF BrokerInv, BrokerTypeOK
<1>3. ASSUME NEW i \in DOMAIN tokens
      PROVE  /\ tokens'[i] \in Token /\ tokens'[i].subject = tokens[i].subject
             /\ tokens'[i].scope = tokens[i].scope /\ tokens'[i].expires_at = tokens[i].expires_at
             /\ tokens'[i].permissions = tokens[i].permissions
  <2>1. CASE i = id
    <3>1. tokens[id] \in Token
      BY <1>1, <1>2
    <3> QED BY <2>1, <3>1, <1>1 DEF Token
  <2>2. CASE i # id
    BY <2>2, <1>1, <1>2
  <2> QED BY <2>1, <2>2
<1>4. BrokerTypeOK'
  BY <1>1, <1>3 DEF BrokerInv, BrokerTypeOK
<1>5. Lineage'
  BY <1>1, <1>2, <1>3 DEF BrokerInv, Lineage
<1> QED BY <1>4, <1>5 DEF BrokerInv

(* Every call on the broker keeps its invariant. *)
LEMMA BrokerNextKeeps == BrokerInv /\ [BrokerNext]_brokerVars => BrokerInv'
<1> SUFFICES ASSUME BrokerInv, [BrokerNext]_brokerVars PROVE BrokerInv'
  OBVIOUS
<1>1. ASSUME NEW subject \in Principal, NEW scope \in Scope, NEW permissions \in SUBSET Permission,
             NEW expires_at \in 1 .. MaxTime + 1, Issue(subject, scope, permissions, expires_at)
      PROVE  BrokerInv'
  <2>1. expires_at \in Nat
    BY BrokerAssumption
  <2> QED BY <1>1, <2>1, IssueKeeps
<1>2. CASE TimePasses
  BY <1>2, BrokerAssumption DEF TimePasses, BrokerInv, BrokerTypeOK, Lineage, Time
<1>3. CASE UNCHANGED brokerVars
  BY <1>3 DEF brokerVars, BrokerInv, BrokerTypeOK, Lineage
<1> QED BY <1>1, <1>2, <1>3, RevokeKeeps, DelegateKeeps DEF BrokerNext

(* The invariant of the broker holds throughout. *)
LEMMA BrokerInvariance == BrokerSpec => []BrokerInv
BY BrokerInitInv, BrokerNextKeeps, PTL DEF BrokerSpec

(* CapabilityBroker keeps its types, and never uses a token id twice. *)
THEOREM BrokerTypeCorrect == BrokerSpec => []BrokerTypeOK
BY BrokerInvariance, PTL DEF BrokerInv

(* Whoever check_access allows has the authority of a directly issued      *)
(* token, through any chain of delegations and any revocations.            *)
THEOREM BrokerConfines == BrokerSpec => []AuthorityIsRooted
<1>1. BrokerInv => AuthorityIsRooted
  <2> SUFFICES ASSUME BrokerInv, NEW subject \in Principal, NEW resource \in Resource, NEW needs \in SUBSET Permission,
                      Allowed(subject, resource, needs)
               PROVE  \E i \in DOMAIN tokens :
                        /\ root[i] = i /\ now < tokens[i].expires_at
                        /\ resource \in CoveredBy[tokens[i].scope] /\ needs \subseteq tokens[i].permissions
                        /\ tokens[i].subject = subject \/ "delegate" \in tokens[i].permissions
    BY DEF AuthorityIsRooted
  <2>1. PICK i \in DOMAIN tokens : /\ Grants(tokens[i], subject, resource) /\ IsLive(tokens[i], now)
                                  /\ needs \subseteq tokens[i].permissions
    BY DEF Allowed, CheckAccess, Decide, Covers
  <2>2. root[i] \in DOMAIN tokens
    BY DEF BrokerInv, BrokerTypeOK
  <2> QED BY <2>1, <2>2 DEF BrokerInv, Lineage, Grants, IsLive
<1> QED BY <1>1, BrokerInvariance, PTL

(* Access that check_access refuses is only ever regained by a token       *)
(* issued to that principal later: revocation and expiry are final.        *)
THEOREM BrokerRefusalIsFinal == BrokerSpec => RefusalIsFinal
<1> DEFINE Gained(subject) == next_token_id' = next_token_id + 1 /\ tokens'[next_token_id].subject = subject
           A == \A subject \in Principal, resource \in Resource, needs \in SUBSET Permission :
                  ~ Allowed(subject, resource, needs) /\ Allowed(subject, resource, needs)' => Gained(subject)
<1>1. BrokerInv /\ [BrokerNext]_brokerVars => [A]_brokerVars
  <2> SUFFICES ASSUME BrokerInv, BrokerNext,
                      NEW subject \in Principal, NEW resource \in Resource, NEW needs \in SUBSET Permission,
                      ~ Allowed(subject, resource, needs), Allowed(subject, resource, needs)'
               PROVE  Gained(subject)
    OBVIOUS
  <2>1. PICK i \in DOMAIN tokens' : /\ Grants(tokens'[i], subject, resource) /\ IsLive(tokens'[i], now')
                                   /\ needs \subseteq tokens'[i].permissions
    BY DEF Allowed, CheckAccess, Decide, Covers, Grants, IsLive
  <2>2. ASSUME i \in DOMAIN tokens, tokens'[i] = tokens[i], now' \in Nat, now \in Nat, now <= now'
        PROVE  FALSE
    <3>1. tokens[i].expires_at \in Nat
      BY <2>2 DEF BrokerInv, BrokerTypeOK, Token
    <3>2. IsLive(tokens[i], now)
      BY <2>1, <2>2, <3>1 DEF IsLive
    <3> QED BY <2>1, <2>2, <3>2 DEF Allowed, CheckAccess, Decide, Covers, Grants
  <2>3. now \in Nat
    BY BrokerAssumption DEF BrokerInv, BrokerTypeOK, Time
  <2>4. ASSUME NEW origin, NEW issuer, NEW holder, NEW scope, NEW permissions, NEW expires_at,
               IssueFrom(origin, issuer, holder, scope, permissions, expires_at)
        PROVE  Gained(subject)
    <3>1. /\ next_token_id' = next_token_id + 1 /\ now' = now
          /\ DOMAIN tokens' = DOMAIN tokens \cup {next_token_id}
          /\ \A j \in DOMAIN tokens : tokens'[j] = tokens[j]
      BY <2>4, IssueAdds
    <3>2. i = next_token_id
      BY <2>2, <2>3, <3>1
    <3> QED BY <2>1, <3>1, <3>2 DEF Grants
  <2>5. ASSUME NEW id \in TokenId, Revoke(id)
        PROVE  FALSE
    <3>1. /\ now' = now /\ i \in DOMAIN tokens /\ id \in DOMAIN tokens
          /\ tokens' = [tokens EXCEPT ![id].revoked = TRUE]
      BY <2>5 DEF Revoke
    <3>2. tokens[id] \in Token
      BY <3>1 DEF BrokerInv, BrokerTypeOK
    <3>3. tokens'[id].revoked
      BY <3>1, <3>2 DEF Token
    <3>4. i # id
      BY <2>1, <3>3 DEF IsLive
    <3>5. tokens'[i] = tokens[i]
      BY <3>1, <3>4
    <3> QED BY <2>2, <2>3, <3>1, <3>5
  <2>6. ASSUME tokens' = tokens, now' = now \/ now' = now + 1
        PROVE  FALSE
    BY <2>2, <2>3, <2>6
  <2> QED BY <2>4, <2>5, <2>6 DEF BrokerNext, Issue, Delegate, TimePasses
<1> QED BY <1>1, BrokerInvariance, PTL DEF BrokerSpec, RefusalIsFinal

----------------------------------------------------------------------------
(* The ports above the broker. *)
PortsTyped ==
  /\ next_port_id \in 1 .. MaxPorts + 1 /\ DOMAIN ports \subseteq 1 .. next_port_id - 1
  /\ \A id \in DOMAIN ports : ports[id] \in Port /\ Len(ports[id].queue) <= Capacity

(* The only ports a token is for have been created, alive or deleted. *)
ScopesAreOld ==
  \A i \in DOMAIN tokens : CoveredBy[tokens[i].scope] \cap PortId \subseteq 1 .. next_port_id - 1

PortInv == BrokerInv /\ PortsTyped /\ ScopesAreOld /\ AuthorityComesFromOwner /\ SendersWereGranted

(* What every call leaves of the tokens there are. *)
TokensStay ==
  /\ DOMAIN tokens \subseteq DOMAIN tokens'
  /\ \A i \in DOMAIN tokens :
       /\ root'[i] = root[i] /\ tokens'[i].subject = tokens[i].subject
       /\ tokens'[i].scope = tokens[i].scope /\ tokens'[i].permissions = tokens[i].permissions

(* issue and delegate add a token and keep the others. *)
LEMMA IssueFromStays ==
  ASSUME BrokerInv,
         NEW origin, NEW issuer, NEW subject, NEW scope, NEW permissions, NEW expires_at,
         IssueFrom(origin, issuer, subject, scope, permissions, expires_at)
  PROVE  TokensStay
<1>1. /\ DOMAIN tokens' = DOMAIN tokens \cup {next_token_id}
      /\ \A i \in DOMAIN tokens : tokens'[i] = tokens[i] /\ root'[i] = root[i]
  BY IssueAdds
<1> QED BY <1>1 DEF TokensStay

(* revoke keeps whom a token is for and what it says. *)
LEMMA RevokeStays ==
  ASSUME BrokerInv, NEW id \in TokenId, Revoke(id)
  PROVE  TokensStay /\ DOMAIN tokens' = DOMAIN tokens
<1>1. /\ id \in DOMAIN tokens /\ DOMAIN tokens' = DOMAIN tokens
      /\ tokens' = [tokens EXCEPT ![id].revoked = TRUE] /\ root' = root
  BY DEF Revoke
<1>2. tokens[id] \in Token
  BY <1>1 DEF BrokerInv, BrokerTypeOK
<1>3. ASSUME NEW i \in DOMAIN tokens
      PROVE  /\ tokens'[i].subject = tokens[i].subject /\ tokens'[i].scope = tokens[i].scope
             /\ tokens'[i].permissions = tokens[i].permissions
  <2>1. CASE i = id
    BY <2>1, <1>1, <1>2 DEF Token
  <2>2. CASE i # id
    BY <2>2, <1>1
  <2> QED BY <2>1, <2>2
<1> QED BY <1>1, <1>3 DEF TokensStay

(* Messages that were there keep the grant they were sent with. *)
LEMMA SendersStayGranted ==
  ASSUME SendersWereGranted, TokensStay, NEW id \in DOMAIN ports, NEW n \in 1 .. Len(ports[id].queue)
  PROVE  \E i \in DOMAIN tokens' :
           Grants(tokens'[i], ports[id].queue[n], id) /\ "write" \in tokens'[i].permissions
<1>1. PICK i \in DOMAIN tokens : Grants(tokens[i], ports[id].queue[n], id) /\ "write" \in tokens[i].permissions
  BY DEF SendersWereGranted
<1>2. /\ i \in DOMAIN tokens' /\ tokens'[i].subject = tokens[i].subject
      /\ tokens'[i].scope = tokens[i].scope /\ tokens'[i].permissions = tokens[i].permissions
  BY DEF TokensStay
<1> QED BY <1>1, <1>2 DEF Grants

(* No ports and no tokens. *)
LEMMA PortInit == Init => PortInv
<1> SUFFICES ASSUME Init PROVE PortInv
  OBVIOUS
<1>1. DOMAIN tokens = {} /\ DOMAIN ports = {} /\ next_port_id = 1
  BY DEF Init, BrokerInit
<1>2. BrokerInv
  BY BrokerInitInv DEF Init
<1> QED BY <1>1, <1>2, PortAssumption DEF PortInv, PortsTyped, ScopesAreOld, AuthorityComesFromOwner, SendersWereGranted

(* create_port issues the only token on the new port, to its owner. *)
LEMMA CreatePortKeeps ==
  ASSUME PortInv, NEW owner_pid \in Principal, CreatePort(owner_pid)
  PROVE  PortInv'
<1> DEFINE p == next_port_id
           n == next_token_id
           scope == PortResourcePath(p)
<1>1. /\ p \in PortId /\ next_port_id' = p + 1
      /\ Issue(owner_pid, scope, {"read", "write", "delegate"}, MaxTime + 1)
      /\ ports' = [q \in DOMAIN ports \cup {p} |->
                     IF q = p THEN [owner_pid |-> owner_pid, queue |-> <<>>] ELSE ports[q]]
  BY DEF CreatePort
<1>2. scope \in Scope /\ CoveredBy[scope] = {p} /\ {"read", "write", "delegate"} \in SUBSET Permission /\ MaxTime + 1 \in Nat
  BY <1>1, PortAssumption, BrokerAssumption
<1>3. IssueFrom(n, 0, owner_pid, scope, {"read", "write", "delegate"}, MaxTime + 1)
  BY <1>1 DEF Issue
<1>4. BrokerInv /\ BrokerInv'
  BY <1>1, <1>2, IssueKeeps DEF PortInv
<1>5. TokensStay
  BY <1>3, <1>4, IssueFromStays
<1>6. /\ n \notin DOMAIN tokens /\ DOMAIN tokens' = DOMAIN tokens \cup {n} /\ root'[n] = n
      /\ \A i \in DOMAIN tokens : tokens'[i] = tokens[i] /\ root'[i] = root[i]
  BY <1>3, <1>4, IssueAdds
<1>7. tokens'[n].subject = owner_pid /\ tokens'[n].scope = scope
  BY <1>3 DEF IssueFrom
<1>8. /\ p \in Nat /\ p \in 1 .. MaxPorts /\ DOMAIN ports \subseteq 1 .. p - 1 /\ p \notin DOMAIN ports
      /\ DOMAIN ports' = DOMAIN ports \cup {p} /\ ports'[p] = [owner_pid |-> owner_pid, queue |-> <<>>]
      /\ \A q \in DOMAIN ports : ports'[q] = ports[q]
  BY <1>1 DEF PortInv, PortsTyped, PortId
<1> HIDE DEF p, n, scope
<1>9. PortsTyped'
  <2>1. ports'[p] \in Port /\ Len(ports'[p].queue) <= Capacity
    BY <1>8, PortAssumption DEF Port
  <2>2. \A q \in DOMAIN ports : ports'[q] \in Port /\ Len(ports'[q].queue) <= Capacity
    BY <1>8 DEF PortInv, PortsTyped
  <2>3. next_port_id' \in 1 .. MaxPorts + 1 /\ DOMAIN ports' \subseteq 1 .. next_port_id' - 1
    BY <1>1, <1>8, PortAssumption
  <2> QED BY <2>1, <2>2, <2>3, <1>8 DEF PortsTyped
<1>10. ScopesAreOld'
  <2>1. ASSUME NEW i \in DOMAIN tokens
        PROVE  CoveredBy[tokens'[i].scope] \cap PortId \subseteq 1 .. next_port_id' - 1
    <3>1. CoveredBy[tokens[i].scope] \cap PortId \subseteq 1 .. p - 1
      BY DEF PortInv, ScopesAreOld, p
    <3>2. 1 .. p - 1 \subseteq 1 .. next_port_id' - 1
      BY <1>1, <1>8
    <3> QED BY <1>6, <3>1, <3>2
  <2>2. CoveredBy[tokens'[n].scope] \cap PortId \subseteq 1 .. next_port_id' - 1
    BY <1>1, <1>2, <1>7, <1>8
  <2> QED BY <2>1, <2>2, <1>6 DEF ScopesAreOld
<1>11. AuthorityComesFromOwner'
  <2> SUFFICES ASSUME NEW id \in DOMAIN ports', NEW i \in DOMAIN tokens', id \in CoveredBy[tokens'[i].scope]
               PROVE  tokens'[root'[i]].subject = ports'[id].owner_pid
    BY DEF AuthorityComesFromOwner
  <2>1. CASE i = n
    BY <2>1, <1>2, <1>6, <1>7, <1>8
  <2>2. CASE i \in DOMAIN tokens
    <3>1. CoveredBy[tokens[i].scope] \cap PortId \subseteq 1 .. p - 1
      BY <2>2 DEF PortInv, ScopesAreOld, p
    <3>2. tokens'[i] = tokens[i] /\ root'[i] = root[i] /\ root[i] \in DOMAIN tokens
      BY <2>2, <1>4, <1>6 DEF BrokerInv, BrokerTypeOK
    <3>3. id # p /\ id \in DOMAIN ports
      <4>1. id \in PortId /\ id \in CoveredBy[tokens[i].scope]
        BY <3>2, <1>8, PortAssumption DEF PortId
      <4> QED BY <4>1, <3>1, <1>8
    <3>4. tokens[root[i]].subject = ports[id].owner_pid
      BY <2>2, <3>2, <3>3 DEF PortInv, AuthorityComesFromOwner
    <3> QED BY <3>2, <3>3, <3>4, <1>6, <1>8
  <2> QED BY <2>1, <2>2, <1>6
<1>12. SendersWereGranted'
  <2> SUFFICES ASSUME NEW id \in DOMAIN ports', NEW k \in 1 .. Len(ports'[id].queue)
               PROVE  \E i \in DOMAIN tokens' :
                        Grants(tokens'[i], ports'[id].queue[k], id) /\ "write" \in tokens'[i].permissions
    BY DEF SendersWereGranted, Grants
  <2>1. id # p
    BY <1>8
  <2>2. id \in DOMAIN ports /\ ports'[id] = ports[id]
    BY <2>1, <1>8
  <2> QED BY <2>2, <1>5, SendersStayGranted DEF PortInv
<1> QED BY <1>4, <1>9, <1>10, <1>11, <1>12 DEF PortInv

(* delete_port keeps the other ports, and every token. *)
LEMMA DeletePortKeeps ==
  ASSUME PortInv, NEW id \in PortId, DeletePort(id)
  PROVE  PortInv'
<1>1. /\ DOMAIN ports' \subseteq DOMAIN ports /\ \A q \in DOMAIN ports' : ports'[q] = ports[q]
      /\ next_port_id' = next_port_id /\ tokens' = tokens /\ root' = root
      /\ next_token_id' = next_token_id /\ now' = now
  BY DEF DeletePort, brokerVars
<1>2. BrokerInv'
  BY <1>1 DEF PortInv, BrokerInv, BrokerTypeOK, Lineage
<1>3. PortsTyped' /\ ScopesAreOld'
  BY <1>1 DEF PortInv, PortsTyped, ScopesAreOld
<1>4. AuthorityComesFromOwner'
  BY <1>1 DEF PortInv, AuthorityComesFromOwner
<1>5. SendersWereGranted'
  BY <1>1 DEF PortInv, SendersWereGranted, Grants
<1> QED BY <1>2, <1>3, <1>4, <1>5 DEF PortInv

(* What a send or a receive leaves as it is. *)
LEMMA QueueCallKeeps ==
  ASSUME PortInv, UNCHANGED <<brokerVars, next_port_id>>, DOMAIN ports' = DOMAIN ports,
         \A q \in DOMAIN ports : ports'[q] \in Port /\ ports'[q].owner_pid = ports[q].owner_pid
                                 /\ Len(ports'[q].queue) <= Capacity
  PROVE  BrokerInv' /\ PortsTyped' /\ ScopesAreOld' /\ AuthorityComesFromOwner'
<1>1. /\ tokens' = tokens /\ root' = root /\ next_token_id' = next_token_id /\ now' = now
      /\ next_port_id' = next_port_id
  BY DEF brokerVars
<1>2. BrokerInv'
  BY <1>1 DEF PortInv, BrokerInv, BrokerTypeOK, Lineage
<1>3. PortsTyped'
  BY <1>1 DEF PortInv, PortsTyped
<1>4. ScopesAreOld'
  BY <1>1 DEF PortInv, ScopesAreOld
<1>5. AuthorityComesFromOwner'
  BY <1>1 DEF PortInv, AuthorityComesFromOwner
<1> QED BY <1>2, <1>3, <1>4, <1>5

(* send_message appends a sender that check_access has just allowed. *)
LEMMA SendMessageKeeps ==
  ASSUME PortInv, NEW sender \in Principal, NEW id \in PortId, SendMessage(sender, id)
  PROVE  PortInv'
<1> DEFINE sends == CheckAccess(sender, id, {"write"}) = "Allowed" /\ id \in DOMAIN ports /\ Len(ports[id].queue) < Capacity
<1>1. /\ UNCHANGED <<brokerVars, next_port_id>>
      /\ ports' = IF sends THEN [ports EXCEPT ![id].queue = Append(@, sender)] ELSE ports
  BY DEF SendMessage
<1>2. tokens' = tokens /\ root' = root
  BY <1>1 DEF brokerVars
<1>3. \A q \in DOMAIN ports : ports[q] \in Port /\ Len(ports[q].queue) <= Capacity
  BY DEF PortInv, PortsTyped
<1>4. CASE ~ sends
  <2>1. ports' = ports
    BY <1>1, <1>4
  <2>2. BrokerInv' /\ PortsTyped' /\ ScopesAreOld' /\ AuthorityComesFromOwner'
    BY <1>1, <1>3, <2>1, QueueCallKeeps
  <2>3. SendersWereGranted'
    BY <1>2, <2>1 DEF PortInv, SendersWereGranted, Grants
  <2> QED BY <2>2, <2>3 DEF PortInv
<1>5. CASE sends
  <2>1. ports' = [ports EXCEPT ![id].queue = Append(@, sender)]
    BY <1>1, <1>5
  <2>2. /\ DOMAIN ports' = DOMAIN ports /\ \A q \in DOMAIN ports : q # id => ports'[q] = ports[q]
    BY <2>1
  <2>3. ports[id].owner_pid \in Principal /\ ports[id].queue \in Seq(Principal)
    BY <1>3, <1>5 DEF Port
  <2>4. ports'[id] \in Port /\ ports'[id].owner_pid = ports[id].owner_pid /\ ports'[id].queue = Append(ports[id].queue, sender)
    <3> DEFINE q == Append(ports[id].queue, sender)
    <3>1. q \in Seq(Principal)
      BY <2>3
    <3>2. ports' = [ports EXCEPT ![id].queue = q] /\ id \in DOMAIN ports /\ ports[id] \in Port
      BY <2>1, <1>3, <1>5
    <3> HIDE DEF q
    <3>3. ports'[id] \in Port /\ ports'[id].owner_pid = ports[id].owner_pid /\ ports'[id].queue = q
      BY <3>1, <3>2 DEF Port
    <3> QED BY <3>3 DEF q
  <2>5. Len(ports'[id].queue) = Len(ports[id].queue) + 1 /\ Len(ports[id].queue) + 1 <= Capacity
    BY <2>3, <2>4, <1>5, PortAssumption
  <2>6. BrokerInv' /\ PortsTyped' /\ ScopesAreOld' /\ AuthorityComesFromOwner'
    <3>1. \A q \in DOMAIN ports : ports'[q] \in Port /\ ports'[q].owner_pid = ports[q].owner_pid
                                   /\ Len(ports'[q].queue) <= Capacity
      BY <1>3, <2>2, <2>4, <2>5
    <3> QED BY <3>1, <1>1, <2>2, QueueCallKeeps
  <2>7. PICK j \in DOMAIN tokens : Grants(tokens[j], sender, id) /\ "write" \in tokens[j].permissions
    BY <1>5 DEF CheckAccess, Decide, Covers
  <2>8. SendersWereGranted'
    <3> SUFFICES ASSUME NEW q \in DOMAIN ports', NEW k \in 1 .. Len(ports'[q].queue)
                 PROVE  \E i \in DOMAIN tokens : Grants(tokens[i], ports'[q].queue[k], q) /\ "write" \in tokens[i].permissions
      BY <1>2 DEF SendersWereGranted, Grants
    <3>1. CASE q # id
      BY <3>1, <2>2 DEF PortInv, SendersWereGranted
    <3>2. CASE q = id /\ k = Len(ports[id].queue) + 1
      <4>1. ports'[q].queue[k] = sender
        BY <3>2, <2>3, <2>4
      <4> QED BY <4>1, <3>2, <2>7
    <3>3. CASE q = id /\ k \in 1 .. Len(ports[id].queue)
      <4>1. ports'[q].queue[k] = ports[id].queue[k]
        BY <3>3, <2>3, <2>4
      <4> QED BY <4>1, <3>3, <1>5 DEF PortInv, SendersWereGranted
    <3> QED BY <3>1, <3>2, <3>3, <2>3, <2>5
  <2> QED BY <2>6, <2>8 DEF PortInv
<1> QED BY <1>4, <1>5

(* receive_message takes the oldest message away. *)
LEMMA ReceiveMessageKeeps ==
  ASSUME PortInv, NEW receiver \in Principal, NEW id \in PortId, ReceiveMessage(receiver, id)
  PROVE  PortInv'
<1> DEFINE receives == CheckAccess(receiver, id, {"read"}) = "Allowed" /\ id \in DOMAIN ports /\ ports[id].queue # <<>>
<1>1. /\ UNCHANGED <<brokerVars, next_port_id>>
      /\ ports' = IF receives THEN [ports EXCEPT ![id].queue = Tail(@)] ELSE ports
  BY DEF ReceiveMessage
<1>2. tokens' = tokens /\ root' = root
  BY <1>1 DEF brokerVars
<1>3. \A q \in DOMAIN ports : ports[q] \in Port /\ Len(ports[q].queue) <= Capacity
  BY DEF PortInv, PortsTyped
<1>4. CASE ~ receives
  <2>1. ports' = ports
    BY <1>1, <1>4
  <2>2. BrokerInv' /\ PortsTyped' /\ ScopesAreOld' /\ AuthorityComesFromOwner'
    BY <1>1, <1>3, <2>1, QueueCallKeeps
  <2>3. SendersWereGranted'
    BY <1>2, <2>1 DEF PortInv, SendersWereGranted, Grants
  <2> QED BY <2>2, <2>3 DEF PortInv
<1>5. CASE receives
  <2>1. ports' = [ports EXCEPT ![id].queue = Tail(@)]
    BY <1>1, <1>5
  <2>2. /\ DOMAIN ports' = DOMAIN ports /\ \A q \in DOMAIN ports : q # id => ports'[q] = ports[q]
    BY <2>1
  <2>3. /\ ports[id].owner_pid \in Principal /\ ports[id].queue \in Seq(Principal) /\ ports[id].queue # <<>>
        /\ Len(ports[id].queue) <= Capacity
    BY <1>3, <1>5 DEF Port
  <2>4. ports'[id] \in Port /\ ports'[id].owner_pid = ports[id].owner_pid /\ ports'[id].queue = Tail(ports[id].queue)
    <3> DEFINE q == Tail(ports[id].queue)
    <3>1. q \in Seq(Principal)
      BY <2>3
    <3>2. ports' = [ports EXCEPT ![id].queue = q] /\ id \in DOMAIN ports /\ ports[id] \in Port
      BY <2>1, <1>3, <1>5
    <3> HIDE DEF q
    <3>3. ports'[id] \in Port /\ ports'[id].owner_pid = ports[id].owner_pid /\ ports'[id].queue = q
      BY <3>1, <3>2 DEF Port
    <3> QED BY <3>3 DEF q
  <2>5. /\ Len(ports'[id].queue) = Len(ports[id].queue) - 1
        /\ \A k \in 1 .. Len(ports'[id].queue) : k + 1 \in 1 .. Len(ports[id].queue) /\ ports'[id].queue[k] = ports[id].queue[k + 1]
    BY <2>3, <2>4
  <2>6. BrokerInv' /\ PortsTyped' /\ ScopesAreOld' /\ AuthorityComesFromOwner'
    <3>0. Len(ports'[id].queue) <= Capacity
      BY <2>3, <2>5, PortAssumption
    <3>1. \A q \in DOMAIN ports : ports'[q] \in Port /\ ports'[q].owner_pid = ports[q].owner_pid
                                   /\ Len(ports'[q].queue) <= Capacity
      BY <1>3, <2>2, <2>4, <3>0
    <3> QED BY <3>1, <1>1, <2>2, QueueCallKeeps
  <2>7. SendersWereGranted'
    <3> SUFFICES ASSUME NEW q \in DOMAIN ports', NEW k \in 1 .. Len(ports'[q].queue)
                 PROVE  \E i \in DOMAIN tokens : Grants(tokens[i], ports'[q].queue[k], q) /\ "write" \in tokens[i].permissions
      BY <1>2 DEF SendersWereGranted, Grants
    <3>1. CASE q # id
      BY <3>1, <2>2 DEF PortInv, SendersWereGranted
    <3>2. CASE q = id
      BY <3>2, <2>5, <1>5 DEF PortInv, SendersWereGranted
    <3> QED BY <3>1, <3>2
  <2> QED BY <2>6, <2>7 DEF PortInv
<1> QED BY <1>4, <1>5

(* Other calls on the broker change no port: a delegated token goes back   *)
(* to the same owner as its source, a token issued elsewhere opens no port.*)
LEMMA CapabilityCallKeeps ==
  ASSUME PortInv, CapabilityCall
  PROVE  PortInv'
<1>1. ports' = ports /\ next_port_id' = next_port_id
  BY DEF CapabilityCall
<1>2. ASSUME BrokerInv', TokensStay,
             \A i \in DOMAIN tokens' :
               \/ \E j \in DOMAIN tokens : root'[i] = root[j] /\ tokens'[i].scope = tokens[j].scope
               \/ CoveredBy[tokens'[i].scope] \cap PortId = {}
      PROVE  PortInv'
  <2>1. PortsTyped'
    BY <1>1 DEF PortInv, PortsTyped
  <2>2. ScopesAreOld'
    BY <1>1, <1>2 DEF PortInv, ScopesAreOld
  <2>3. AuthorityComesFromOwner'
    <3> SUFFICES ASSUME NEW id \in DOMAIN ports, NEW i \in DOMAIN tokens', id \in CoveredBy[tokens'[i].scope]
                 PROVE  tokens'[root'[i]].subject = ports[id].owner_pid
      BY <1>1 DEF AuthorityComesFromOwner
    <3>0. id \in PortId
      BY PortAssumption DEF PortInv, PortsTyped, PortId
    <3>1. PICK j \in DOMAIN tokens : root'[i] = root[j] /\ tokens'[i].scope = tokens[j].scope
      BY <1>2, <3>0
    <3>2. tokens[root[j]].subject = ports[id].owner_pid
      BY <3>1 DEF PortInv, AuthorityComesFromOwner
    <3>3. root[j] \in DOMAIN tokens
      BY DEF PortInv, BrokerInv, BrokerTypeOK
    <3>4. tokens'[root[j]].subject = tokens[root[j]].subject
      BY <3>3, <1>2 DEF TokensStay
    <3> QED BY <3>1, <3>2, <3>4
  <2>4. SendersWereGranted'
    <3> SUFFICES ASSUME NEW id \in DOMAIN ports, NEW k \in 1 .. Len(ports[id].queue)
                 PROVE  \E i \in DOMAIN tokens' :
                          Grants(tokens'[i], ports[id].queue[k], id) /\ "write" \in tokens'[i].permissions
      BY <1>1 DEF SendersWereGranted, Grants
    <3> QED BY <1>2, SendersStayGranted DEF PortInv
  <2> QED BY <1>2, <2>1, <2>2, <2>3, <2>4 DEF PortInv
<1>3. ASSUME NEW id \in TokenId, Revoke(id)
      PROVE  PortInv'
  <2>1. BrokerInv' /\ TokensStay /\ DOMAIN tokens' = DOMAIN tokens
    BY <1>3, RevokeKeeps, RevokeStays DEF PortInv
  <2> QED BY <1>2, <2>1 DEF TokensStay
<1>4. ASSUME NEW id \in TokenId, NEW delegatee \in Principal, NEW requested \in SUBSET Permission,
             Delegate(id, delegatee, requested)
      PROVE  PortInv'
  <2>1. /\ BrokerInv /\ id \in DOMAIN tokens
        /\ IssueFrom(root[id], tokens[id].subject, delegatee, tokens[id].scope, requested, tokens[id].expires_at)
    BY <1>4 DEF Delegate, PortInv
  <2>2. BrokerInv'
    BY <1>4, <2>1, DelegateKeeps
  <2>3. TokensStay
    BY <2>1, IssueFromStays
  <2>4. DOMAIN tokens' = DOMAIN tokens \cup {next_token_id} /\ root'[next_token_id] = root[id]
    BY <2>1, IssueAdds
  <2>5. tokens'[next_token_id].scope = tokens[id].scope
    BY <2>1 DEF IssueFrom
  <2> QED BY <1>2, <2>1, <2>2, <2>3, <2>4, <2>5 DEF TokensStay
<1>5. ASSUME NEW subject \in Principal, NEW scope \in Scope, NEW permissions \in Requests,
             NEW expires_at \in 1 .. MaxTime + 1, IssueElsewhere(subject, scope, permissions, expires_at)
      PROVE  PortInv'
  <2>1. /\ BrokerInv /\ CoveredBy[scope] \cap PortId = {} /\ Issue(subject, scope, permissions, expires_at)
        /\ IssueFrom(next_token_id, 0, subject, scope, permissions, expires_at)
    BY <1>5 DEF IssueElsewhere, Issue, PortInv
  <2>2. permissions \in SUBSET Permission /\ expires_at \in Nat
    BY PortAssumption, BrokerAssumption
  <2>3. BrokerInv' /\ TokensStay
    BY <2>1, <2>2, IssueKeeps, IssueFromStays
  <2>4. DOMAIN tokens' = DOMAIN tokens \cup {next_token_id}
    BY <2>1, IssueAdds
  <2>5. CoveredBy[tokens'[next_token_id].scope] \cap PortId = {}
    BY <2>1 DEF IssueFrom
  <2> QED BY <1>2, <2>3, <2>4, <2>5 DEF TokensStay
<1>6. CASE TimePasses
  <2>1. tokens' = tokens /\ root' = root /\ next_token_id' = next_token_id
    BY <1>6 DEF TimePasses
  <2>2. BrokerInv'
    BY <1>6, BrokerAssumption DEF TimePasses, PortInv, BrokerInv, BrokerTypeOK, Lineage, Time
  <2> QED BY <1>2, <2>1, <2>2 DEF TokensStay
<1>7. Requests \subseteq SUBSET Permission
  BY PortAssumption
<1> QED BY <1>3, <1>4, <1>5, <1>6, <1>7 DEF CapabilityCall

(* Every call on the ports keeps their invariant. *)
LEMMA PortNextKeeps == PortInv /\ [Next]_vars => PortInv'
<1> SUFFICES ASSUME PortInv, [Next]_vars PROVE PortInv'
  OBVIOUS
<1>1. CASE UNCHANGED vars
  <2>1. /\ tokens' = tokens /\ next_token_id' = next_token_id /\ now' = now /\ root' = root
        /\ ports' = ports /\ next_port_id' = next_port_id
    BY <1>1 DEF vars, brokerVars
  <2>2. BrokerInv'
    BY <2>1 DEF PortInv, BrokerInv, BrokerTypeOK, Lineage
  <2>3. PortsTyped' /\ ScopesAreOld'
    BY <2>1 DEF PortInv, PortsTyped, ScopesAreOld
  <2>4. AuthorityComesFromOwner' /\ SendersWereGranted'
    BY <2>1 DEF PortInv, AuthorityComesFromOwner, SendersWereGranted, Grants
  <2> QED BY <2>2, <2>3, <2>4 DEF PortInv
<1>2. CASE Next
  BY <1>2, CreatePortKeeps, DeletePortKeeps, SendMessageKeeps, ReceiveMessageKeeps, CapabilityCallKeeps DEF Next
<1> QED BY <1>1, <1>2

(* The invariant of the ports holds throughout. *)
LEMMA PortInvariance == Spec => []PortInv
BY PortInit, PortNextKeeps, PTL DEF Spec

(* PortTable keeps its types, and no queue exceeds QUEUE_CAPACITY. *)
THEOREM PortTypeCorrect == Spec => []TypeOK
<1>1. PortInv => TypeOK
  BY DEF PortInv, BrokerInv, PortsTyped, TypeOK
<1> QED BY <1>1, PortInvariance, PTL

(* No capability outlives its port into another one, however ports are     *)
(* created and deleted and capabilities delegated and revoked.             *)
THEOREM PortAuthority == Spec => []AuthorityComesFromOwner
<1>1. PortInv => AuthorityComesFromOwner
  BY DEF PortInv
<1> QED BY <1>1, PortInvariance, PTL

(* Every waiting message was sent by someone given write permission on     *)
(* that port.                                                              *)
THEOREM PortSendersWereGranted == Spec => []SendersWereGranted
<1>1. PortInv => SendersWereGranted
  BY DEF PortInv
<1> QED BY <1>1, PortInvariance, PTL

(* What the ports do to the broker any of its callers could do.            *)
LEMMA PortsCallBroker == PortInv /\ [Next]_vars => [BrokerNext]_brokerVars
<1> SUFFICES ASSUME PortInv, [Next]_vars PROVE [BrokerNext]_brokerVars
  OBVIOUS
<1>1. ASSUME NEW owner_pid \in Principal, CreatePort(owner_pid)
      PROVE  BrokerNext
  <2>1. /\ PortResourcePath(next_port_id) \in Scope /\ MaxTime + 1 \in 1 .. MaxTime + 1
        /\ {"read", "write", "delegate"} \in SUBSET Permission
    BY <1>1, PortAssumption, BrokerAssumption DEF CreatePort
  <2> QED BY <1>1, <2>1 DEF CreatePort, BrokerNext
<1>2. ASSUME NEW id \in PortId, DeletePort(id)
      PROVE  UNCHANGED brokerVars
  BY <1>2 DEF DeletePort
<1>3. ASSUME NEW pid \in Principal, NEW id \in PortId, SendMessage(pid, id) \/ ReceiveMessage(pid, id)
      PROVE  UNCHANGED brokerVars
  BY <1>3 DEF SendMessage, ReceiveMessage
<1>4. CASE CapabilityCall
  <2>1. Requests \subseteq SUBSET Permission
    BY PortAssumption
  <2> QED BY <1>4, <2>1 DEF CapabilityCall, IssueElsewhere, BrokerNext
<1> QED BY <1>1, <1>2, <1>3, <1>4 DEF Next, vars

(* The broker under the ports is a broker: what is proved of BrokerSpec    *)
(* (confinement, final refusal) holds of every behaviour of PortTable.     *)
THEOREM PortsUseTheBroker == Spec => BrokerSpec
<1>1. Init => BrokerInit
  BY DEF Init
<1> QED BY <1>1, PortInvariance, PortsCallBroker, PTL DEF Spec, BrokerSpec

(* Over the ports too, whoever is allowed has the authority of a directly  *)
(* issued, unexpired token.                                                *)
THEOREM PortsConfine == Spec => []AuthorityIsRooted
BY PortsUseTheBroker, BrokerConfines, PTL

(* Over the ports too, access once refused is only regained by a new token.*)
THEOREM PortRefusalIsFinal == Spec => RefusalIsFinal
BY PortsUseTheBroker, BrokerRefusalIsFinal, PTL

----------------------------------------------------------------------------
(* The memory of the processes. *)

(* A region, as allocate_virtual records it. *)
Region == [start : Nat, end : Nat, write : BOOLEAN]

(* The first address after the pages of a region. *)
PagesEnd(r) == r.start + PageCount(r.end - r.start) * PAGE_SIZE

(* Regions start on page boundaries, one after the other and without a     *)
(* common page, and the next one goes behind them all.                     *)
Laid(rs, next) ==
  /\ next \in Nat /\ next % PAGE_SIZE = 0 /\ rs \in Seq(Region)
  /\ \A k \in 1 .. Len(rs) : rs[k].start % PAGE_SIZE = 0 /\ rs[k].start <= rs[k].end /\ PagesEnd(rs[k]) <= next
  /\ \A j, k \in 1 .. Len(rs) : j < k => PagesEnd(rs[j]) <= rs[k].start

(* RegionsAreMapped, of one process. *)
HasPages(rs, table) ==
  \A k \in 1 .. Len(rs) : \A i \in 0 .. PageCount(rs[k].end - rs[k].start) - 1 :
    PageAt(rs[k].start, i) \in DOMAIN table /\ table[PageAt(rs[k].start, i)].write = rs[k].write

(* MappedOnce and RegionsAreMapped rest on each other: only because every  *)
(* page of a region is mapped does deallocate_virtual give them all back,  *)
(* and only because regions lie apart does it take no page of another.     *)
MemoryInv ==
  /\ DOMAIN mappings = Principal /\ DOMAIN regions = Principal /\ DOMAIN next_addr = Principal
  /\ allocated \subseteq Frame
  /\ \A pid \in Principal : Laid(regions[pid], next_addr[pid]) /\ HasPages(regions[pid], mappings[pid])
  /\ MappedOnce

----------------------------------------------------------------------------
(* A region's pages are enough for it. *)
LEMMA PageCountCovers ==
  ASSUME NEW size \in Nat
  PROVE  /\ PageCount(size) \in Nat /\ PageCount(size) * PAGE_SIZE \in Nat
         /\ size <= PageCount(size) * PAGE_SIZE
<1> DEFINE n == size + PAGE_SIZE - 1
           q == n \div PAGE_SIZE
<1>1. PAGE_SIZE \in Nat \ {0} /\ n \in Nat
  BY MemoryAssumption
<1>2. q \in Nat /\ n % PAGE_SIZE \in 0 .. PAGE_SIZE - 1 /\ n = (PAGE_SIZE * q) + (n % PAGE_SIZE)
  BY <1>1, SMT
<1>3. q * PAGE_SIZE = PAGE_SIZE * q /\ PAGE_SIZE * q \in Nat
  BY <1>1, <1>2, SMT
<1>4. size <= PAGE_SIZE * q
  <2> HIDE DEF q
  <2> DEFINE m == PAGE_SIZE * q
  <2>1. m \in Nat /\ n = m + (n % PAGE_SIZE)
    BY <1>2, <1>3
  <2> HIDE DEF m
  <2>2. size <= m
    BY <1>1, <1>2, <2>1
  <2> QED
    BY <2>2 DEF m
<1> QED
  BY <1>2, <1>3, <1>4 DEF PageCount

(* Pages follow each other, from the start of a region to its end. *)
LEMMA PageAtLies ==
  ASSUME NEW start \in Nat, NEW n \in Nat, NEW i \in 0 .. n - 1
  PROVE  PageAt(start, i) \in Nat /\ start <= PageAt(start, i) /\ PageAt(start, i) < start + n * PAGE_SIZE
<1>1. PAGE_SIZE \in Nat \ {0} /\ i \in Nat /\ n - i \in Nat \ {0}
  BY MemoryAssumption
<1>2. i * PAGE_SIZE \in Nat /\ (n - i) * PAGE_SIZE \in Nat \ {0}
  BY <1>1, SMT
<1>3. n * PAGE_SIZE = (i * PAGE_SIZE) + ((n - i) * PAGE_SIZE)
  BY <1>1, SMT
<1> DEFINE a == i * PAGE_SIZE
           b == (n - i) * PAGE_SIZE
<1>4. a \in Nat /\ b \in Nat \ {0} /\ n * PAGE_SIZE = a + b
  BY <1>2, <1>3
<1> HIDE DEF a, b
<1>5. start + a \in Nat /\ start <= start + a /\ start + a < start + (a + b)
  BY <1>4
<1> QED
  BY <1>4, <1>5 DEF PageAt, a

(* Whole pages lead from one page boundary to the next. *)
LEMMA PagesStayAligned ==
  ASSUME NEW a \in Nat, a % PAGE_SIZE = 0, NEW n \in Nat
  PROVE  (a + n * PAGE_SIZE) % PAGE_SIZE = 0
<1>1. PAGE_SIZE \in Nat \ {0}
  BY MemoryAssumption
<1>2. a \div PAGE_SIZE \in Nat /\ a = PAGE_SIZE * (a \div PAGE_SIZE)
  BY <1>1, SMT
<1>3. PICK q \in Nat : a = PAGE_SIZE * q
  BY <1>2
<1>4. a + n * PAGE_SIZE = PAGE_SIZE * (q + n) /\ q + n \in Int
  BY <1>1, <1>3, SMT
<1>5. \A k \in Int : (PAGE_SIZE * k) % PAGE_SIZE = 0
  BY <1>1, SMT
<1> QED
  BY <1>4, <1>5

(* The page of an address in a region starts in that region. *)
LEMMA PageStarts ==
  ASSUME NEW start \in Nat, start % PAGE_SIZE = 0, NEW v \in Nat, start <= v
  PROVE  v - (v % PAGE_SIZE) \in Nat /\ start <= v - (v % PAGE_SIZE) /\ v - (v % PAGE_SIZE) <= v
<1>1. PAGE_SIZE \in Nat \ {0}
  BY MemoryAssumption
<1>2. PICK q \in Nat : start = PAGE_SIZE * q
  <2>1. start \div PAGE_SIZE \in Nat /\ start = PAGE_SIZE * (start \div PAGE_SIZE)
    BY <1>1, SMT
  <2> QED
    BY <2>1
<1>3. PICK p \in Nat : v = (PAGE_SIZE * p) + (v % PAGE_SIZE)
  <2>1. v \div PAGE_SIZE \in Nat /\ v = (PAGE_SIZE * (v \div PAGE_SIZE)) + (v % PAGE_SIZE)
    BY <1>1, SMT
  <2> QED
    BY <2>1
<1>4. v % PAGE_SIZE \in 0 .. PAGE_SIZE - 1
  BY <1>1, SMT
<1>5. p >= q
  <2> SUFFICES ASSUME p + 1 <= q PROVE FALSE
    OBVIOUS
  <2>1. PAGE_SIZE * (p + 1) <= PAGE_SIZE * q
    BY <1>1, SMT
  <2>2. PAGE_SIZE * (p + 1) = (PAGE_SIZE * p) + PAGE_SIZE
    BY <1>1, SMT
  <2>3. PAGE_SIZE * p \in Int
    BY <1>1
  <2> QED
    BY <1>1, <1>2, <1>3, <1>4, <2>1, <2>2, <2>3
<1>6. PAGE_SIZE * p >= PAGE_SIZE * q /\ PAGE_SIZE * p \in Nat
  BY <1>1, <1>5, SMT
<1> QED
  BY <1>1, <1>2, <1>3, <1>4, <1>6

(* A region ends within its pages. *)
LEMMA RegionIs ==
  ASSUME NEW rs, NEW next, Laid(rs, next), NEW k \in 1 .. Len(rs)
  PROVE  /\ rs[k] \in Region /\ rs[k].start \in Nat /\ rs[k].end \in Nat /\ rs[k].end - rs[k].start \in Nat
         /\ PageCount(rs[k].end - rs[k].start) \in Nat /\ PagesEnd(rs[k]) \in Nat /\ rs[k].end <= PagesEnd(rs[k])
<1> DEFINE r == rs[k]
           size == r.end - r.start
           bytes == PageCount(size) * PAGE_SIZE
<1>1. r \in Region
  BY DEF Laid
<1>2. r.start \in Nat /\ r.end \in Nat
  BY <1>1 DEF Region
<1>3. r.start <= r.end
  BY DEF Laid
<1>4. size \in Nat
  BY <1>2, <1>3
<1>5. PageCount(size) \in Nat /\ bytes \in Nat /\ size <= bytes
  BY <1>4, PageCountCovers
<1>6. PagesEnd(r) = r.start + bytes
  BY DEF PagesEnd
<1> HIDE DEF bytes
<1>7. PagesEnd(r) \in Nat /\ r.end <= PagesEnd(r)
  BY <1>2, <1>4, <1>5, <1>6
<1> QED
  BY <1>1, <1>2, <1>4, <1>5, <1>7

(* No address lies in the pages of two regions. *)
LEMMA RegionsApart ==
  ASSUME NEW rs, NEW next, Laid(rs, next),
         NEW j \in 1 .. Len(rs), NEW k \in 1 .. Len(rs), NEW v \in Nat,
         rs[j].start <= v, v < PagesEnd(rs[j]), rs[k].start <= v, v < PagesEnd(rs[k])
  PROVE  j = k
<1>1. PagesEnd(rs[j]) \in Nat /\ PagesEnd(rs[k]) \in Nat /\ rs[j].start \in Nat /\ rs[k].start \in Nat
  BY RegionIs
<1>2. ~ (j < k) /\ ~ (k < j)
  BY <1>1 DEF Laid
<1>3. Len(rs) \in Nat
  BY DEF Laid
<1> QED
  BY <1>2, <1>3

(* A region and its pages. *)
LEMMA RegionPages ==
  ASSUME NEW rs, NEW next, Laid(rs, next), NEW k \in 1 .. Len(rs),
         NEW i \in 0 .. PageCount(rs[k].end - rs[k].start) - 1
  PROVE  /\ PageAt(rs[k].start, i) \in Nat
         /\ rs[k].start <= PageAt(rs[k].start, i) /\ PageAt(rs[k].start, i) < PagesEnd(rs[k])
         /\ PageAt(rs[k].start, i) < next
<1>1. rs[k].start \in Nat
  BY RegionIs
<1>2. PageCount(rs[k].end - rs[k].start) \in Nat /\ PagesEnd(rs[k]) \in Nat
  BY RegionIs
<1>3. /\ PageAt(rs[k].start, i) \in Nat
      /\ rs[k].start <= PageAt(rs[k].start, i) /\ PageAt(rs[k].start, i) < PagesEnd(rs[k])
  BY <1>1, <1>2, PageAtLies DEF PagesEnd
<1>4. PagesEnd(rs[k]) <= next /\ next \in Nat
  BY DEF Laid
<1> QED
  BY <1>2, <1>3, <1>4

----------------------------------------------------------------------------
(* What map_page does to a table. *)
LEMMA MappedIs ==
  ASSUME NEW table, NEW new
  PROVE  /\ DOMAIN Mapped(table, new) = DOMAIN table \cup DOMAIN new
         /\ \A v \in DOMAIN new : Mapped(table, new)[v] = new[v]
         /\ \A v \in DOMAIN table \ DOMAIN new : Mapped(table, new)[v] = table[v]
  BY DEF Mapped

(* New mappings to pages that were free, one each, keep every page mapped  *)
(* at most once.                                                           *)
LEMMA FreshPagesMapOnce ==
  ASSUME MemoryInv, NEW pid \in Principal, NEW new,
         \A v \in DOMAIN new : new[v].phys \in Free,
         \A v, w \in DOMAIN new : new[v].phys = new[w].phys => v = w,
         mappings' = [mappings EXCEPT ![pid] = Mapped(@, new)],
         allocated' = allocated \cup {new[v].phys : v \in DOMAIN new}
  PROVE  MappedOnce' /\ allocated' \subseteq Frame /\ DOMAIN mappings' = Principal
<1> DEFINE table == Mapped(mappings[pid], new)
<1>1. DOMAIN mappings' = Principal /\ allocated' \subseteq Frame
  BY DEF MemoryInv, Free
<1>2. mappings'[pid] = table /\ \A p \in Principal \ {pid} : mappings'[p] = mappings[p]
  BY DEF MemoryInv
<1>3. /\ DOMAIN table = DOMAIN mappings[pid] \cup DOMAIN new
      /\ \A v \in DOMAIN new : table[v] = new[v]
      /\ \A v \in DOMAIN mappings[pid] \ DOMAIN new : table[v] = mappings[pid][v]
  BY MappedIs
<1> HIDE DEF table
<1>4. \A p \in Principal : \A v \in DOMAIN mappings[p] : mappings[p][v].phys \in allocated
  BY DEF MemoryInv, MappedOnce
<1>5. ASSUME NEW p \in Principal, NEW v \in DOMAIN mappings'[p]
      PROVE  \/ p = pid /\ v \in DOMAIN new /\ mappings'[p][v] = new[v]
             \/ v \in DOMAIN mappings[p] /\ mappings'[p][v] = mappings[p][v] /\ (p # pid \/ v \notin DOMAIN new)
  BY <1>2, <1>3
<1>6. ASSUME NEW p \in Principal, NEW q \in Principal, NEW v \in DOMAIN mappings'[p], NEW w \in DOMAIN mappings'[q]
      PROVE  /\ mappings'[p][v].phys \in allocated'
             /\ mappings'[p][v].phys = mappings'[q][w].phys => p = q /\ v = w
  <2>1. mappings'[p][v].phys \in allocated'
    BY <1>4, <1>5
  <2>2. CASE p = pid /\ v \in DOMAIN new /\ mappings'[p][v] = new[v]
    <3>1. CASE q = pid /\ w \in DOMAIN new /\ mappings'[q][w] = new[w]
      BY <2>1, <2>2, <3>1
    <3>2. CASE w \in DOMAIN mappings[q] /\ mappings'[q][w] = mappings[q][w]
      BY <1>4, <2>1, <2>2, <3>2 DEF Free
    <3> QED
      BY <1>5, <3>1, <3>2
  <2>3. CASE v \in DOMAIN mappings[p] /\ mappings'[p][v] = mappings[p][v]
    <3>1. CASE q = pid /\ w \in DOMAIN new /\ mappings'[q][w] = new[w]
      BY <1>4, <2>1, <2>3, <3>1 DEF Free
    <3>2. CASE w \in DOMAIN mappings[q] /\ mappings'[q][w] = mappings[q][w]
      BY <2>1, <2>3, <3>2 DEF MemoryInv, MappedOnce
    <3> QED
      BY <1>5, <3>1, <3>2
  <2> QED
    BY <1>5, <2>2, <2>3
<1> QED
  BY <1>1, <1>6 DEF MappedOnce

----------------------------------------------------------------------------
(* A step of one process leaves the others alone. *)
LEMMA ProcessStep ==
  ASSUME MemoryInv, NEW pid \in Principal,
         DOMAIN mappings' = Principal, DOMAIN regions' = Principal, DOMAIN next_addr' = Principal,
         \A p \in Principal \ {pid} :
           mappings'[p] = mappings[p] /\ regions'[p] = regions[p] /\ next_addr'[p] = next_addr[p],
         Laid(regions'[pid], next_addr'[pid]), HasPages(regions'[pid], mappings'[pid]),
         allocated' \subseteq Frame, MappedOnce'
  PROVE  MemoryInv'
<1>1. ASSUME NEW p \in Principal
      PROVE  Laid(regions'[p], next_addr'[p]) /\ HasPages(regions'[p], mappings'[p])
  <2>1. CASE p = pid
    BY <2>1
  <2>2. CASE p # pid
    BY <2>2 DEF MemoryInv
  <2> QED
    BY <2>1, <2>2
<1> QED
  BY <1>1 DEF MemoryInv

(* Mapping pages behind all regions takes nothing from them. *)
LEMMA MapBehindKeeps ==
  ASSUME NEW rs, NEW next, NEW table, NEW new, Laid(rs, next), HasPages(rs, table),
         \A v \in DOMAIN new : v \in Nat /\ next <= v
  PROVE  HasPages(rs, Mapped(table, new))
<1> SUFFICES ASSUME NEW k \in 1 .. Len(rs), NEW i \in 0 .. PageCount(rs[k].end - rs[k].start) - 1
             PROVE  /\ PageAt(rs[k].start, i) \in DOMAIN Mapped(table, new)
                    /\ Mapped(table, new)[PageAt(rs[k].start, i)].write = rs[k].write
  BY DEF HasPages
<1> DEFINE v == PageAt(rs[k].start, i)
<1>1. v \in Nat /\ v < next
  BY RegionPages
<1>2. v \in DOMAIN table /\ table[v].write = rs[k].write
  BY DEF HasPages
<1>3. next \in Nat
  BY DEF Laid
<1> HIDE DEF v
<1>4. v \notin DOMAIN new
  BY <1>1, <1>3
<1>5. v \in DOMAIN Mapped(table, new) /\ Mapped(table, new)[v] = table[v]
  BY <1>2, <1>4, MappedIs
<1> QED
  BY <1>2, <1>5 DEF v

(* A region at the next address is laid like the others. *)
LEMMA AppendLaid ==
  ASSUME NEW rs, NEW next, Laid(rs, next), NEW size \in Nat, NEW write \in BOOLEAN
  PROVE  /\ PageCount(size) \in Nat
         /\ Laid(Append(rs, [start |-> next, end |-> next + size, write |-> write]), AddrAfter(next, PageCount(size)))
<1> DEFINE r == [start |-> next, end |-> next + size, write |-> write]
           bytes == PageCount(size) * PAGE_SIZE
           new == Append(rs, r)
           after == AddrAfter(next, PageCount(size))
<1>1. PageCount(size) \in Nat /\ bytes \in Nat
  BY PageCountCovers
<1>2. next \in Nat /\ next % PAGE_SIZE = 0 /\ rs \in Seq(Region) /\ Len(rs) \in Nat
  BY DEF Laid
<1>3. r \in Region /\ r.start = next /\ r.end - r.start = size /\ r.start <= r.end
  BY <1>2 DEF Region
<1>4. after = next + bytes /\ PagesEnd(r) = after
  BY <1>3 DEF AddrAfter, PagesEnd
<1>5. after % PAGE_SIZE = 0
  BY <1>1, <1>2, PagesStayAligned DEF AddrAfter
<1>6. new \in Seq(Region) /\ Len(new) = Len(rs) + 1 /\ new[Len(rs) + 1] = r /\ \A k \in 1 .. Len(rs) : new[k] = rs[k]
  BY <1>2, <1>3
<1> HIDE DEF r, bytes, new, after
<1>7. after \in Nat /\ next <= after
  BY <1>1, <1>2, <1>4
<1>8. ASSUME NEW k \in 1 .. Len(new)
      PROVE  new[k].start % PAGE_SIZE = 0 /\ new[k].start <= new[k].end /\ PagesEnd(new[k]) <= after
  <2>1. CASE k = Len(rs) + 1
    BY <1>2, <1>3, <1>4, <1>6, <1>7, <2>1
  <2>2. CASE k # Len(rs) + 1
    <3>1. k \in 1 .. Len(rs)
      BY <1>2, <1>6, <2>2
    <3>2. PagesEnd(rs[k]) \in Nat /\ PagesEnd(rs[k]) <= next
      BY <3>1, RegionIs DEF Laid
    <3>3. rs[k].start % PAGE_SIZE = 0 /\ rs[k].start <= rs[k].end
      BY <3>1 DEF Laid
    <3> QED
      BY <1>2, <1>6, <1>7, <3>1, <3>2, <3>3
  <2> QED
    BY <2>1, <2>2
<1>9. ASSUME NEW j \in 1 .. Len(new), NEW k \in 1 .. Len(new), j < k
      PROVE  PagesEnd(new[j]) <= new[k].start
  <2>1. j \in 1 .. Len(rs)
    BY <1>2, <1>6, <1>9
  <2>2. CASE k = Len(rs) + 1
    <3>1. PagesEnd(rs[j]) <= next
      BY <2>1 DEF Laid
    <3> QED
      BY <1>3, <1>6, <2>1, <2>2, <3>1
  <2>3. CASE k # Len(rs) + 1
    <3>1. k \in 1 .. Len(rs)
      BY <1>2, <1>6, <2>3
    <3> QED
      BY <1>6, <1>9, <2>1, <3>1 DEF Laid
  <2> QED
    BY <2>2, <2>3
<1>10. Laid(new, after)
  BY <1>5, <1>6, <1>7, <1>8, <1>9 DEF Laid
<1> QED
  BY <1>1, <1>10 DEF new, r, after

(* A region whose pages have just been mapped has its pages. *)
LEMMA AppendHasPages ==
  ASSUME NEW rs, NEW table, NEW r, HasPages(rs, table), rs \in Seq(Region), r \in Region,
         \A i \in 0 .. PageCount(r.end - r.start) - 1 :
           PageAt(r.start, i) \in DOMAIN table /\ table[PageAt(r.start, i)].write = r.write
  PROVE  HasPages(Append(rs, r), table)
<1> DEFINE new == Append(rs, r)
<1>1. Len(rs) \in Nat /\ Len(new) = Len(rs) + 1 /\ new[Len(rs) + 1] = r /\ \A k \in 1 .. Len(rs) : new[k] = rs[k]
  OBVIOUS
<1> HIDE DEF new
<1>2. ASSUME NEW k \in 1 .. Len(new), NEW i \in 0 .. PageCount(new[k].end - new[k].start) - 1
      PROVE  PageAt(new[k].start, i) \in DOMAIN table /\ table[PageAt(new[k].start, i)].write = new[k].write
  <2>1. CASE k = Len(rs) + 1
    <3>1. new[k] = r
      BY <1>1, <2>1
    <3> QED
      BY <1>2, <3>1
  <2>2. CASE k # Len(rs) + 1
    <3>1. k \in 1 .. Len(rs) /\ new[k] = rs[k]
      BY <1>1, <2>2
    <3> QED
      BY <1>2, <3>1 DEF HasPages
  <2> QED
    BY <2>1, <2>2
<1>3. HasPages(new, table)
  BY <1>2 DEF HasPages
<1> QED
  BY <1>3 DEF new

(* allocate_virtual, when it succeeds and when memory runs out half way. *)
LEMMA AllocateKeeps ==
  ASSUME MemoryInv, NEW pid \in Principal, NEW size \in Size, NEW write \in BOOLEAN,
         AllocateVirtual(pid, size, write)
  PROVE  MemoryInv'
<1> DEFINE start == next_addr[pid]
           pages == PageCount(size)
           available == IF Cardinality(Free) < pages THEN Cardinality(Free) ELSE pages
           table(f) == [v \in DOMAIN f |-> [phys |-> f[v], write |-> write]]
           r == [start |-> start, end |-> start + size, write |-> write]
<1>1. CASE UNCHANGED memoryVars
  BY <1>1 DEF memoryVars, MemoryInv, MappedOnce
<1>2. CASE ~ UNCHANGED memoryVars
  <2>1. PICK f \in Placements(start, available) :
          /\ allocated' = allocated \cup {f[v] : v \in DOMAIN f}
          /\ mappings' = [mappings EXCEPT ![pid] = Mapped(@, table(f))]
    BY <1>2 DEF AllocateVirtual
  <2>2. \/ UNCHANGED <<regions, next_addr>>
        \/ /\ available = pages
           /\ next_addr' = [next_addr EXCEPT ![pid] = AddrAfter(start, pages)]
           /\ regions' = [regions EXCEPT ![pid] = Append(@, r)]
    BY <1>2 DEF AllocateVirtual
  <2>3. size \in Nat /\ pages \in Nat /\ available \in Nat
    <3>1. size \in Nat
      BY MemoryAssumption
    <3>2. pages \in Nat
      BY <3>1, PageCountCovers
    <3>3. IsFiniteSet(Free)
      BY MemoryAssumption, FS_Subset DEF Free
    <3>4. Cardinality(Free) \in Nat
      BY <3>3, FS_CardinalityType
    <3> HIDE DEF pages
    <3> QED
      BY <3>1, <3>2, <3>4
  <2>4. Laid(regions[pid], start) /\ HasPages(regions[pid], mappings[pid]) /\ start \in Nat
    BY DEF MemoryInv, Laid
  <2> DEFINE new == table(f)
  <2>5. /\ DOMAIN f = {PageAt(start, i) : i \in 0 .. available - 1}
        /\ \A v \in DOMAIN f : f[v] \in Free
        /\ \A v, w \in DOMAIN f : v # w => f[v] # f[w]
    BY DEF Placements
  <2>6. DOMAIN new = DOMAIN f /\ \A v \in DOMAIN new : new[v].phys = f[v] /\ new[v].write = write
    OBVIOUS
  <2> HIDE DEF start, pages, available, new
  <2>7. \A v \in DOMAIN new : v \in Nat /\ start <= v
    BY <2>3, <2>4, <2>5, <2>6, PageAtLies
  <2>8. allocated' = allocated \cup {new[v].phys : v \in DOMAIN new} /\ mappings' = [mappings EXCEPT ![pid] = Mapped(@, new)]
    <3>1. {new[v].phys : v \in DOMAIN new} = {f[v] : v \in DOMAIN f}
      BY <2>6
    <3> QED
      BY <2>1, <3>1 DEF new
  <2>9. \A v \in DOMAIN new : new[v].phys \in Free
    BY <2>5, <2>6
  <2>10. \A v, w \in DOMAIN new : new[v].phys = new[w].phys => v = w
    BY <2>5, <2>6
  <2>11. MappedOnce' /\ allocated' \subseteq Frame /\ DOMAIN mappings' = Principal
    BY <2>8, <2>9, <2>10, FreshPagesMapOnce
  <2>12. mappings'[pid] = Mapped(mappings[pid], new) /\ \A p \in Principal \ {pid} : mappings'[p] = mappings[p]
    BY <2>8 DEF MemoryInv
  <2>13. HasPages(regions[pid], mappings'[pid])
    BY <2>4, <2>7, <2>12, MapBehindKeeps
  <2>14. CASE UNCHANGED <<regions, next_addr>>
    <3>1. DOMAIN regions' = Principal /\ DOMAIN next_addr' = Principal /\ regions' = regions /\ next_addr' = next_addr
      BY <2>14 DEF MemoryInv
    <3>2. Laid(regions'[pid], next_addr'[pid]) /\ HasPages(regions'[pid], mappings'[pid])
      BY <2>4, <2>13, <3>1 DEF start
    <3> QED
      BY <2>11, <2>12, <3>1, <3>2, ProcessStep
  <2>15. CASE /\ available = pages
              /\ next_addr' = [next_addr EXCEPT ![pid] = AddrAfter(start, pages)]
              /\ regions' = [regions EXCEPT ![pid] = Append(@, r)]
    <3>1. /\ DOMAIN regions' = Principal /\ DOMAIN next_addr' = Principal
          /\ regions'[pid] = Append(regions[pid], r) /\ next_addr'[pid] = AddrAfter(start, pages)
          /\ \A p \in Principal \ {pid} : regions'[p] = regions[p] /\ next_addr'[p] = next_addr[p]
      BY <2>15 DEF MemoryInv
    <3>2. Laid(Append(regions[pid], r), AddrAfter(start, pages))
      BY <2>3, <2>4, AppendLaid DEF pages
    <3>3. /\ r \in Region /\ regions[pid] \in Seq(Region)
          /\ r.start = start /\ r.end - r.start = size /\ r.write = write
      BY <2>3, <2>4 DEF Region, Laid
    <3>4. ASSUME NEW i \in 0 .. PageCount(r.end - r.start) - 1
          PROVE  PageAt(r.start, i) \in DOMAIN mappings'[pid] /\ mappings'[pid][PageAt(r.start, i)].write = r.write
      <4>1. i \in 0 .. available - 1
        BY <2>15, <3>3, <3>4 DEF pages
      <4>2. PageAt(r.start, i) \in DOMAIN new
        BY <2>5, <2>6, <3>3, <4>1
      <4> DEFINE v == PageAt(r.start, i)
      <4> HIDE DEF v, r
      <4>3. /\ DOMAIN Mapped(mappings[pid], new) = DOMAIN mappings[pid] \cup DOMAIN new
            /\ \A u \in DOMAIN new : Mapped(mappings[pid], new)[u] = new[u]
        BY MappedIs
      <4>4. v \in DOMAIN Mapped(mappings[pid], new) /\ Mapped(mappings[pid], new)[v] = new[v]
        BY <4>2, <4>3 DEF v
      <4>5. new[v].write = r.write
        BY <2>6, <3>3, <4>2 DEF v
      <4> QED
        BY <2>12, <4>4, <4>5 DEF v
    <3>5. HasPages(Append(regions[pid], r), mappings'[pid])
      <4> HIDE DEF r
      <4> QED
        BY <2>13, <3>3, <3>4, AppendHasPages
    <3> HIDE DEF r
    <3>6. Laid(regions'[pid], next_addr'[pid]) /\ HasPages(regions'[pid], mappings'[pid])
      BY <3>1, <3>2, <3>5 DEF r
    <3> QED
      BY <2>11, <2>12, <3>1, <3>6, ProcessStep
  <2> QED
    BY <2>2, <2>14, <2>15
<1> QED
  BY <1>1, <1>2

----------------------------------------------------------------------------
(* What is left of a sequence when an element is removed. *)
Without(s, k) == SubSeq(s, 1, k - 1) \o SubSeq(s, k + 1, Len(s))

(* The elements before it keep their places, the others move down. *)
LEMMA RemoveAt ==
  ASSUME NEW S, NEW s \in Seq(S), NEW k \in 1 .. Len(s)
  PROVE  /\ Without(s, k) \in Seq(S) /\ Len(Without(s, k)) = Len(s) - 1
         /\ \A j \in 1 .. Len(s) - 1 : Without(s, k)[j] = s[IF j < k THEN j ELSE j + 1]
<1> DEFINE t == Without(s, k)
           u == SubSeq(s, 1, k - 1)
           v == SubSeq(s, k + 1, Len(s))
<1>1. Len(s) \in Nat
  OBVIOUS
<1>2. u \in Seq(S) /\ Len(u) = k - 1 /\ \A i \in 1 .. k - 1 : u[i] = s[i]
  BY <1>1, SubSeqProperties
<1>3. v \in Seq(S) /\ Len(v) = Len(s) - k /\ \A i \in 1 .. Len(s) - k : v[i] = s[k + i]
  <2>1. CASE k = Len(s)
    BY <1>1, <2>1
  <2>2. CASE k < Len(s)
    <3>1. v \in Seq(S) /\ Len(v) = Len(s) - (k + 1) + 1
      BY <1>1, <2>2, SubSeqProperties
    <3>2. \A i \in 1 .. Len(s) - (k + 1) + 1 : v[i] = s[(k + 1) + i - 1]
      BY <1>1, <2>2, SubSeqProperties
    <3>3. Len(s) - (k + 1) + 1 = Len(s) - k
      BY <1>1
    <3>4. \A i \in 1 .. Len(s) - k : (k + 1) + i - 1 = k + i
      BY <1>1
    <3> HIDE DEF v
    <3> QED
      BY <3>1, <3>2, <3>3, <3>4
  <2> QED
    BY <1>1, <2>1, <2>2
<1>4. t = u \o v
  BY DEF Without
<1> HIDE DEF t, u, v
<1>5. t \in Seq(S) /\ Len(t) = Len(u) + Len(v)
  BY <1>2, <1>3, <1>4, ConcatProperties
<1>6. Len(t) = Len(s) - 1
  BY <1>1, <1>2, <1>3, <1>5
<1>7. ASSUME NEW j \in 1 .. Len(s) - 1
      PROVE  t[j] = s[IF j < k THEN j ELSE j + 1]
  <2>0. j \in 1 .. Len(u) + Len(v)
    BY <1>5, <1>6
  <2>1. CASE j < k
    <3>1. j <= Len(u) /\ j \in 1 .. k - 1
      BY <1>1, <1>2, <2>1
    <3>2. t[j] = u[j]
      BY <1>2, <1>3, <1>4, <2>0, <3>1, ConcatProperties
    <3> QED
      BY <1>2, <2>1, <3>1, <3>2
  <2>2. CASE ~ (j < k)
    <3>1. j - Len(u) \in 1 .. Len(s) - k /\ k + (j - Len(u)) = j + 1 /\ ~ (j <= Len(u))
      BY <1>1, <1>2, <2>2
    <3>2. t[j] = v[j - Len(u)]
      BY <1>2, <1>3, <1>4, <2>0, <3>1, ConcatProperties
    <3>3. v[j - Len(u)] = s[k + (j - Len(u))]
      BY <1>3, <3>1
    <3> QED
      BY <2>2, <3>1, <3>2, <3>3
  <2> QED
    BY <2>1, <2>2
<1> QED
  BY <1>5, <1>6, <1>7 DEF t

(* The regions that are left stay where they are. *)
LEMMA RemoveLaid ==
  ASSUME NEW rs, NEW next, Laid(rs, next), NEW k \in 1 .. Len(rs)
  PROVE  Laid(Without(rs, k), next)
<1> DEFINE t == Without(rs, k)
           old(j) == IF j < k THEN j ELSE j + 1
<1>1. rs \in Seq(Region) /\ Len(rs) \in Nat
  BY DEF Laid
<1>2. t \in Seq(Region) /\ Len(t) = Len(rs) - 1 /\ \A j \in 1 .. Len(rs) - 1 : t[j] = rs[old(j)]
  BY <1>1, RemoveAt
<1> HIDE DEF t
<1>3. \A j \in 1 .. Len(t) : old(j) \in 1 .. Len(rs) /\ t[j] = rs[old(j)]
  BY <1>1, <1>2
<1>4. \A i, j \in 1 .. Len(t) : i < j => old(i) < old(j)
  BY <1>1, <1>2
<1> HIDE DEF old
<1>5. \A j \in 1 .. Len(t) : t[j].start % PAGE_SIZE = 0 /\ t[j].start <= t[j].end /\ PagesEnd(t[j]) <= next
  BY <1>3 DEF Laid
<1>6. \A i, j \in 1 .. Len(t) : i < j => PagesEnd(t[i]) <= t[j].start
  BY <1>3, <1>4 DEF Laid
<1>7. Laid(t, next)
  BY <1>2, <1>5, <1>6 DEF Laid
<1> QED
  BY <1>7 DEF t

(* deallocate_virtual, which finds every page of the region mapped. *)
LEMMA DeallocateKeeps ==
  ASSUME MemoryInv, NEW pid \in Principal, NEW vaddr, DeallocateVirtual(pid, vaddr)
  PROVE  MemoryInv'
<1> DEFINE rs == regions[pid]
           table == mappings[pid]
           pagesOf(k) == {PageAt(rs[k].start, i) : i \in 0 .. PageCount(rs[k].end - rs[k].start) - 1}
           unmapped(k) == {PageAt(rs[k].start, i) : i \in {i \in 0 .. PageCount(rs[k].end - rs[k].start) - 1 :
                                                     \A j \in 0 .. i : PageAt(rs[k].start, j) \in DOMAIN table}}
<1>1. PICK k \in 1 .. Len(rs) :
        /\ mappings' = [mappings EXCEPT ![pid] = Unmapped(@, unmapped(k))]
        /\ allocated' = allocated \ {table[v].phys : v \in unmapped(k)}
        /\ regions' = [regions EXCEPT ![pid] = SubSeq(@, 1, k - 1) \o SubSeq(@, k + 1, Len(@))]
        /\ next_addr' = next_addr
  BY DEF DeallocateVirtual
<1>2. Laid(rs, next_addr[pid]) /\ HasPages(rs, table) /\ pid \in DOMAIN mappings /\ pid \in DOMAIN regions
  BY DEF MemoryInv
<1> DEFINE gone == unmapped(k)
           t == Without(rs, k)
<1>3. gone \subseteq DOMAIN table
  <2>1. PageCount(rs[k].end - rs[k].start) \in Nat
    BY <1>2, RegionIs
  <2> QED
    BY <2>1
<1>4. \A v \in gone : v \in Nat /\ rs[k].start <= v /\ v < PagesEnd(rs[k])
  BY <1>2, RegionPages
<1>5. /\ mappings' = [mappings EXCEPT ![pid] = Unmapped(@, gone)]
      /\ allocated' = allocated \ {table[v].phys : v \in gone}
      /\ regions' = [regions EXCEPT ![pid] = t]
  BY <1>1 DEF Without
<1> HIDE DEF gone, t, table, rs
<1>6. /\ DOMAIN mappings' = Principal /\ DOMAIN regions' = Principal /\ DOMAIN next_addr' = Principal
      /\ regions'[pid] = t /\ mappings'[pid] = Unmapped(table, gone)
      /\ \A p \in Principal \ {pid} : mappings'[p] = mappings[p] /\ regions'[p] = regions[p] /\ next_addr'[p] = next_addr[p]
  BY <1>1, <1>5 DEF MemoryInv, table
<1>7. Laid(t, next_addr[pid])
  BY <1>2, RemoveLaid DEF t
<1>8. HasPages(t, Unmapped(table, gone))
  <2> SUFFICES ASSUME NEW j \in 1 .. Len(t), NEW i \in 0 .. PageCount(t[j].end - t[j].start) - 1
               PROVE  /\ PageAt(t[j].start, i) \in DOMAIN Unmapped(table, gone)
                      /\ Unmapped(table, gone)[PageAt(t[j].start, i)].write = t[j].write
    BY DEF HasPages
  <2>1. rs \in Seq(Region) /\ Len(rs) \in Nat
    BY <1>2 DEF Laid
  <2> DEFINE l == IF j < k THEN j ELSE j + 1
  <2>2. Len(t) = Len(rs) - 1 /\ \A n \in 1 .. Len(rs) - 1 : t[n] = rs[IF n < k THEN n ELSE n + 1]
    BY <2>1, RemoveAt DEF t
  <2>3. l \in 1 .. Len(rs) /\ l # k /\ t[j] = rs[l]
    BY <2>1, <2>2
  <2> HIDE DEF l
  <2> DEFINE v == PageAt(t[j].start, i)
  <2>4. v \in Nat /\ rs[l].start <= v /\ v < PagesEnd(rs[l])
    BY <1>2, <2>3, RegionPages
  <2>5. v \in DOMAIN table /\ table[v].write = t[j].write
    BY <1>2, <2>3 DEF HasPages
  <2> HIDE DEF v
  <2>6. v \notin gone
    BY <1>2, <1>4, <2>3, <2>4, RegionsApart
  <2> QED
    BY <2>5, <2>6 DEF v, Unmapped
<1>9. MappedOnce'
  <2>1. ASSUME NEW p \in Principal, NEW v \in DOMAIN mappings'[p]
        PROVE  v \in DOMAIN mappings[p] /\ mappings'[p][v] = mappings[p][v] /\ (p = pid => v \notin gone)
    BY <1>6 DEF Unmapped, table
  <2>2. ASSUME NEW p \in Principal, NEW v \in DOMAIN mappings'[p]
        PROVE  mappings'[p][v].phys \in allocated'
    <3>1. mappings[p][v].phys \in allocated
      BY <2>1, <2>2 DEF MemoryInv, MappedOnce
    <3>2. ASSUME NEW w \in gone, table[w].phys = mappings[p][v].phys PROVE FALSE
      BY <1>3, <2>1, <2>2, <3>2 DEF MemoryInv, MappedOnce, table
    <3> QED
      BY <1>5, <2>1, <2>2, <3>1, <3>2
  <2>3. ASSUME NEW p \in Principal, NEW q \in Principal, NEW v \in DOMAIN mappings'[p], NEW w \in DOMAIN mappings'[q],
               mappings'[p][v].phys = mappings'[q][w].phys
        PROVE  p = q /\ v = w
    <3>1. mappings[p][v].phys = mappings[q][w].phys /\ v \in DOMAIN mappings[p] /\ w \in DOMAIN mappings[q]
      BY <2>1, <2>3
    <3> QED
      BY <3>1 DEF MemoryInv, MappedOnce
  <2> QED
    BY <2>2, <2>3 DEF MappedOnce
<1>10. allocated' \subseteq Frame
  BY <1>5 DEF MemoryInv
<1>11. Laid(regions'[pid], next_addr'[pid]) /\ HasPages(regions'[pid], mappings'[pid])
  BY <1>1, <1>6, <1>7, <1>8
<1> QED
  BY <1>6, <1>9, <1>10, <1>11, ProcessStep

(* handle_page_fault: the page it maps anew has the region's access. *)
LEMMA PageFaultKeeps ==
  ASSUME MemoryInv, NEW pid \in Principal, NEW vaddr \in Nat, NEW is_write \in BOOLEAN,
         HandlePageFault(pid, vaddr, is_write)
  PROVE  MemoryInv'
<1> DEFINE rs == regions[pid]
           v == vaddr - (vaddr % PAGE_SIZE)
           fresh(page, k) == [u \in {v} |-> [phys |-> page, write |-> rs[k].write]]
<1>1. PICK k \in 1 .. Len(rs), page \in Free :
        /\ rs[k].start <= vaddr /\ vaddr < rs[k].end
        /\ allocated' = allocated \cup {page}
        /\ mappings' = [mappings EXCEPT ![pid] = Mapped(@, fresh(page, k))]
        /\ regions' = regions /\ next_addr' = next_addr
  BY DEF HandlePageFault
<1> DEFINE new == fresh(page, k)
<1>2. DOMAIN new = {v} /\ new[v].phys = page /\ new[v].write = rs[k].write
  OBVIOUS
<1>3. Laid(rs, next_addr[pid]) /\ HasPages(rs, mappings[pid])
  BY DEF MemoryInv
<1>4. v \in Nat /\ rs[k].start <= v /\ v < PagesEnd(rs[k])
  <2>1. rs[k].start \in Nat /\ rs[k].end \in Nat /\ PagesEnd(rs[k]) \in Nat /\ rs[k].end <= PagesEnd(rs[k])
    BY <1>3, RegionIs
  <2>2. rs[k].start % PAGE_SIZE = 0
    BY <1>3 DEF Laid
  <2>3. v \in Nat /\ rs[k].start <= v /\ v <= vaddr
    BY <1>1, <2>1, <2>2, PageStarts
  <2> HIDE DEF v
  <2> QED
    BY <1>1, <2>1, <2>3
<1>5. mappings' = [mappings EXCEPT ![pid] = Mapped(@, new)]
  BY <1>1
<1> HIDE DEF v, new, rs
<1>6. allocated' = allocated \cup {new[u].phys : u \in DOMAIN new}
  BY <1>1, <1>2
<1>7. MappedOnce' /\ allocated' \subseteq Frame /\ DOMAIN mappings' = Principal
  <2>1. \A u \in DOMAIN new : new[u].phys \in Free
    BY <1>2
  <2>2. \A u, w \in DOMAIN new : new[u].phys = new[w].phys => u = w
    BY <1>2
  <2> QED
    BY <1>5, <1>6, <2>1, <2>2, FreshPagesMapOnce
<1>8. /\ mappings'[pid] = Mapped(mappings[pid], new) /\ regions'[pid] = rs /\ next_addr' = next_addr
      /\ DOMAIN regions' = Principal /\ DOMAIN next_addr' = Principal
      /\ \A p \in Principal \ {pid} : mappings'[p] = mappings[p] /\ regions'[p] = regions[p]
  BY <1>1, <1>5 DEF MemoryInv, rs
<1>9. HasPages(rs, Mapped(mappings[pid], new))
  <2> SUFFICES ASSUME NEW j \in 1 .. Len(rs), NEW i \in 0 .. PageCount(rs[j].end - rs[j].start) - 1
               PROVE  /\ PageAt(rs[j].start, i) \in DOMAIN Mapped(mappings[pid], new)
                      /\ Mapped(mappings[pid], new)[PageAt(rs[j].start, i)].write = rs[j].write
    BY DEF HasPages
  <2>0. /\ DOMAIN Mapped(mappings[pid], new) = DOMAIN mappings[pid] \cup DOMAIN new
        /\ \A u \in DOMAIN new : Mapped(mappings[pid], new)[u] = new[u]
        /\ \A u \in DOMAIN mappings[pid] \ DOMAIN new : Mapped(mappings[pid], new)[u] = mappings[pid][u]
    BY MappedIs
  <2> DEFINE w == PageAt(rs[j].start, i)
  <2>1. w \in Nat /\ rs[j].start <= w /\ w < PagesEnd(rs[j])
    BY <1>3, RegionPages
  <2>2. w \in DOMAIN mappings[pid] /\ mappings[pid][w].write = rs[j].write
    BY <1>3 DEF HasPages
  <2> HIDE DEF w
  <2>3. CASE w = v
    <3>1. j = k
      BY <1>3, <1>4, <2>1, <2>3, RegionsApart
    <3>2. v \in DOMAIN Mapped(mappings[pid], new) /\ Mapped(mappings[pid], new)[v] = new[v]
      BY <1>2, <2>0
    <3> QED
      BY <1>2, <2>3, <3>1, <3>2 DEF w
  <2>4. CASE w # v
    <3>1. w \in DOMAIN Mapped(mappings[pid], new) /\ Mapped(mappings[pid], new)[w] = mappings[pid][w]
      BY <1>2, <2>0, <2>2, <2>4
    <3> QED
      BY <2>2, <3>1 DEF w
  <2> QED
    BY <2>3, <2>4
<1>10. Laid(regions'[pid], next_addr'[pid]) /\ HasPages(regions'[pid], mappings'[pid])
  BY <1>3, <1>8, <1>9
<1> QED
  BY <1>7, <1>8, <1>10, ProcessStep

----------------------------------------------------------------------------
(* MemoryInv holds of new contexts, *)
LEMMA MemoryInitInv == MemoryInit => MemoryInv
<1> SUFFICES ASSUME MemoryInit PROVE MemoryInv
  OBVIOUS
<1>1. ASSUME NEW pid \in Principal PROVE Laid(regions[pid], next_addr[pid]) /\ HasPages(regions[pid], mappings[pid])
  BY MemoryAssumption DEF MemoryInit, Laid, HasPages
<1>2. MappedOnce
  BY DEF MemoryInit, MappedOnce
<1> QED
  BY <1>1, <1>2 DEF MemoryInit, MemoryInv

(* is inductive, *)
LEMMA MemoryNextKeeps == MemoryInv /\ [MemoryNext]_processVars => MemoryInv'
<1> SUFFICES ASSUME MemoryInv, [MemoryNext]_processVars PROVE MemoryInv'
  OBVIOUS
<1>1. CASE UNCHANGED memoryVars
  BY <1>1 DEF memoryVars, MemoryInv, MappedOnce
<1>2. \A vaddr \in 0 .. MaxAddr : vaddr \in Nat
  BY MemoryAssumption
<1> QED
  BY <1>1, <1>2, AllocateKeeps, DeallocateKeeps, PageFaultKeeps DEF MemoryNext, MemoryCapabilityCall, processVars

(* and so holds in every reachable state. *)
LEMMA MemoryInvariance == MemorySpec => []MemoryInv
  BY MemoryInitInv, MemoryNextKeeps, PTL DEF MemorySpec

(* No physical page is mapped twice, in one process or in two, and none    *)
(* that was given back is still mapped, after any sequence of allocations, *)
(* failures half way, deallocations and page faults.                       *)
THEOREM MemoryIsolation == MemorySpec => []MappedOnce
<1>1. MemoryInv => MappedOnce
  BY DEF MemoryInv
<1> QED
  BY <1>1, MemoryInvariance, PTL

(* Every page of every region is mapped, with the region's access, so      *)
(* deallocate_virtual never stops half way.                                *)
THEOREM MemoryRegionsMapped == MemorySpec => []RegionsAreMapped
<1>1. MemoryInv => RegionsAreMapped
  BY DEF MemoryInv, HasPages, RegionsAreMapped
<1> QED
  BY <1>1, MemoryInvariance, PTL

(* Allocations only ask the broker; the rest are its own operations. *)
LEMMA MemoryCallsBroker == [MemoryNext]_processVars => [BrokerNext]_brokerVars
<1> SUFFICES ASSUME [MemoryNext]_processVars PROVE [BrokerNext]_brokerVars
  OBVIOUS
<1>1. CASE MemoryCapabilityCall
  <2>1. Needed(TRUE) \in SUBSET Permission /\ Needed(FALSE) \in SUBSET Permission
    BY MemoryAssumption DEF Needed
  <2>2. MaxTime + 1 \in 1 .. MaxTime + 1
    BY BrokerAssumption
  <2> QED
    BY <1>1, <2>1, <2>2 DEF MemoryCapabilityCall, BrokerNext
<1>2. CASE UNCHANGED brokerVars
  BY <1>2
<1> QED
  BY <1>1, <1>2 DEF MemoryNext, AllocateVirtual, DeallocateVirtual, HandlePageFault, processVars

(* The memory contexts drive the broker only through its operations. *)
THEOREM MemoryUsesTheBroker == MemorySpec => BrokerSpec
<1>1. MemoryInit => BrokerInit
  BY DEF MemoryInit
<1> QED
  BY <1>1, MemoryCallsBroker, PTL DEF MemorySpec, BrokerSpec

(* With memory contexts in use nobody gains more authority over the heap   *)
(* than a directly issued, unexpired token allows.                         *)
THEOREM MemoryConfines == MemorySpec => []AuthorityIsRooted
  BY MemoryUsesTheBroker, BrokerConfines, PTL

=============================================================================
