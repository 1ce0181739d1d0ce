------------------------------ MODULE RingOrder ------------------------------
(***************************************************************************)
(* What the introducer's virtual ring promises, without its pointers: the  *)
(* ring is a list of nodes that starts with the introducer, a node that    *)
(* joins is put somewhere behind the introducer and a node that leaves is  *)
(* cut out; all the others keep their places.  Nodes whose last address    *)
(* octet is above 1 stay in the order of these octets.                     *)
(***************************************************************************)
EXTENDS Naturals, SequencesExt

CONSTANTS Ip,          \* the addresses nodes may have
          Introducer,  \* the node that keeps the ring
          Octet        \* the last octet of an address

VARIABLE order         \* the ring, from the introducer on

\* The addresses of s that the walk of virtual_ring::insert compares with.
Ordered(s) ==
  \A i, j \in 2..Len(s) :
     i < j /\ Octet[s[i]] > 1 /\ Octet[s[j]] > 1 => Octet[s[i]] <= Octet[s[j]]

Init == order = <<Introducer>>

Join(ip) ==
  /\ ip \notin ToSet(order)
  /\ \E i \in 2..Len(order) + 1 : order' = InsertAt(order, i, ip)
  /\ Ordered(order')

\* The last other node is never cut out: leave() does nothing with two nodes.
Leave(ip) ==
  /\ Len(order) > 2
  /\ \E i \in 2..Len(order) : order[i] = ip /\ order' = RemoveAt(order, i)

Next == \E ip \in Ip : Join(ip) \/ Leave(ip)

Spec == Init /\ [][Next]_order
=============================================================================
