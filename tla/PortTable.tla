----------------------------- MODULE PortTable -----------------------------
(***************************************************************************)
(* PortTable of reference-rs/src/ipc.rs over the capability broker.  A     *)
(* port's queue is used by one call at a time (&mut self), so it is the    *)
(* bounded FIFO SpscRing implements.  A message is its sender.  On IPC     *)
(* resources only create_port issues tokens, which do not expire           *)
(* (u64::MAX); on others anyone may be issued one that does.  Holders      *)
(* delegate their tokens and anyone may revoke them.  Error returns that   *)
(* change nothing are not distinguished.                                   *)
(***************************************************************************)
EXTENDS CapabilityBroker, Sequences

CONSTANTS MaxPorts,   \* Bound: how many ports are ever created.
          MaxIssued,  \* Bound: how many tokens are issued for other resources.
          Requests,   \* Bound: the permissions that are asked for.
          Capacity

PortId == 1 .. MaxPorts

(* A resource is a port id, and the path "port:{id}" covers just that port. *)
PortResourcePath(id) == {id}

ASSUME PortAssumption ==
  /\ MaxPorts \in Nat /\ MaxIssued \in Nat /\ Capacity \in Nat
  /\ {"read", "write", "delegate"} \subseteq Permission
  /\ PortId \subseteq Resource /\ Requests \subseteq SUBSET Permission
  /\ \A id \in PortId : PortResourcePath(id) \in Scope /\ CoveredBy[PortResourcePath(id)] = {id}

VARIABLES ports, next_port_id

vars == <<brokerVars, ports, next_port_id>>

Port == [owner_pid : Principal, queue : Seq(Principal)]

Init == BrokerInit /\ ports = <<>> /\ next_port_id = 1

----------------------------------------------------------------------------
(* Variant: the id of a deleted port is used again. *)
CreatePortReusesId(owner_pid) ==
  \E id \in PortId \ DOMAIN ports :
    /\ ports' = [p \in DOMAIN ports \cup {id} |->
                   IF p = id THEN [owner_pid |-> owner_pid, queue |-> <<>>] ELSE ports[p]]
    /\ Issue(owner_pid, PortResourcePath(id), {"read", "write", "delegate"}, MaxTime + 1)
    /\ UNCHANGED next_port_id

CreatePort(owner_pid) ==
  /\ next_port_id \in PortId
  /\ ports' = [p \in DOMAIN ports \cup {next_port_id} |->
                 IF p = next_port_id THEN [owner_pid |-> owner_pid, queue |-> <<>>] ELSE ports[p]]
  /\ next_port_id' = next_port_id + 1
  /\ Issue(owner_pid, PortResourcePath(next_port_id), {"read", "write", "delegate"}, MaxTime + 1)

DeletePort(id) ==
  /\ id \in DOMAIN ports
  /\ ports' = [p \in DOMAIN ports \ {id} |-> ports[p]]
  /\ UNCHANGED <<brokerVars, next_port_id>>

(* The capability is checked first, then the port, then the queue.         *)
(* Variant: any permission is enough.                                      *)
SendMessageUnchecked(sender, id) ==
  /\ LET sends == CheckAccess(sender, id, {}) = "Allowed" /\ id \in DOMAIN ports /\ Len(ports[id].queue) < Capacity
     IN  ports' = IF sends THEN [ports EXCEPT ![id].queue = Append(@, sender)] ELSE ports
  /\ UNCHANGED <<brokerVars, next_port_id>>

SendMessage(sender, id) ==
  /\ LET sends == CheckAccess(sender, id, {"write"}) = "Allowed" /\ id \in DOMAIN ports /\ Len(ports[id].queue) < Capacity
     IN  ports' = IF sends THEN [ports EXCEPT ![id].queue = Append(@, sender)] ELSE ports
  /\ UNCHANGED <<brokerVars, next_port_id>>

ReceiveMessage(receiver, id) ==
  /\ LET receives == CheckAccess(receiver, id, {"read"}) = "Allowed" /\ id \in DOMAIN ports /\ ports[id].queue # <<>>
     IN  ports' = IF receives THEN [ports EXCEPT ![id].queue = Tail(@)] ELSE ports
  /\ UNCHANGED <<brokerVars, next_port_id>>

(* The other users of the broker, and time. *)
IssuedElsewhere == {i \in DOMAIN tokens : root[i] = i /\ CoveredBy[tokens[i].scope] \cap PortId = {}}

IssueElsewhere(subject, scope, permissions, expires_at) ==
  /\ CoveredBy[scope] \cap PortId = {} /\ Cardinality(IssuedElsewhere) < MaxIssued
  /\ Issue(subject, scope, permissions, expires_at)

CapabilityCall ==
  /\ \/ \E subject \in Principal, scope \in Scope, permissions \in Requests, expires_at \in 1 .. MaxTime + 1 :
          IssueElsewhere(subject, scope, permissions, expires_at)
     \/ TimePasses
     \/ \E id \in TokenId : Revoke(id)
     \/ \E id \in TokenId, delegatee \in Principal, requested \in Requests : Delegate(id, delegatee, requested)
  /\ UNCHANGED <<ports, next_port_id>>

Next ==
  \/ \E owner_pid \in Principal : CreatePort(owner_pid)
  \/ \E id \in PortId : DeletePort(id)
  \/ \E pid \in Principal, id \in PortId : SendMessage(pid, id) \/ ReceiveMessage(pid, id)
  \/ CapabilityCall

Spec == Init /\ [][Next]_vars

----------------------------------------------------------------------------
(* Every variable keeps its type, and no queue exceeds its capacity.       *)
TypeOK ==
  /\ BrokerTypeOK
  /\ next_port_id \in 1 .. MaxPorts + 1 /\ DOMAIN ports \subseteq 1 .. next_port_id - 1
  /\ \A id \in DOMAIN ports : ports[id] \in Port /\ Len(ports[id].queue) <= Capacity

(* Every capability on a port goes back to the one its present owner was   *)
(* issued when the port was created: those left over from a deleted port   *)
(* never open another one.                                                 *)
AuthorityComesFromOwner ==
  \A id \in DOMAIN ports, i \in DOMAIN tokens :
    id \in CoveredBy[tokens[i].scope] => tokens[root[i]].subject = ports[id].owner_pid

(* Every message waiting in a port was sent by someone who was given write *)
(* permission on that very port, whatever has been revoked since.          *)
SendersWereGranted ==
  \A id \in DOMAIN ports : \A n \in 1 .. Len(ports[id].queue) :
    \E i \in DOMAIN tokens : Grants(tokens[i], ports[id].queue[n], id) /\ "write" \in tokens[i].permissions
=============================================================================
