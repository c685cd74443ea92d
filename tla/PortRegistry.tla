---------------------------- MODULE PortRegistry ----------------------------
(***************************************************************************)
(* What the host's ports promise, whoever hands them out: a port gets a    *)
(* user in one step, and only while it has none, and a box claims one port *)
(* at most, which it keeps until it is removed.  The forwards of a box      *)
(* leave all their ports together, when what listens on them ends.         *)
(***************************************************************************)
CONSTANTS
  Boxes,
  Ports

VARIABLE users   \* the users of each port: a box's domain or its forward

Domain(b) == <<b, "domain">>
Forwarder(b) == <<b, "forward">>

Init == users = [p \in Ports |-> {}]

Claim(b, p) ==
  /\ users[p] = {}
  /\ \A q \in Ports : Domain(b) \notin users[q]
  /\ users' = [users EXCEPT ![p] = {Domain(b)}]

Forward(b, p) ==
  /\ users[p] = {}
  /\ users' = [users EXCEPT ![p] = {Forwarder(b)}]

Leave(u) == users' = [q \in Ports |-> users[q] \ {u}]

\* Nothing else changes the users of a port.
Next ==
  /\ users' # users
  /\ \E b \in Boxes :
       \/ \E p \in Ports : Claim(b, p) \/ Forward(b, p)
       \/ Leave(Domain(b)) \/ Leave(Forwarder(b))

Spec == Init /\ [][Next]_users

\* However ports change hands, none ever has two users.
OneUser == \A p \in Ports : \A u, v \in users[p] : u = v
=============================================================================
