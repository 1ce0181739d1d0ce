---------------------------- MODULE MCFileStore ----------------------------
(* Octets from 37 on, and file names that move when a node fails.          *)
(* MCLetter is placed on nodes 3, 4, 2 of four, without node 3 on 1, 2, 4, *)
(* and on 1, 2, 3 of three.  MCLetter5 is placed on 4, 5, 3 of five,       *)
(* without node 1 or node 5 on 3, 4, 2.  MCLetter6 is placed on 4, 5, 3 of *)
(* six, without node 5 on 1, 2, 6: on three other nodes.                   *)
EXTENDS FileStore

MCOctet   == [n \in Node |-> 36 + n]
MCLetter  == [f \in File |-> 2]
MCLetter5 == [f \in File |-> 11]
MCLetter6 == [f \in File |-> 8]

\* No live node is suspected, or the master may suspect the node below it.
MCNone     == {}
MCMistaken == {<<N, N-1>>}
=============================================================================
