---------------------------- MODULE MCMembership ----------------------------
(* The ordinary nodes of a small ring, where everybody is everybody's      *)
(* neighbour; they joined in the order of their numbers and none has heard *)
(* of those who came later.                                                *)
EXTENDS Membership

MCRing  == [n \in Node |-> Node \ {n}]
MCGiven == [n \in Node |-> {m \in Node : m < n}]
MCLossy == {<<2, 3>>}
=============================================================================
