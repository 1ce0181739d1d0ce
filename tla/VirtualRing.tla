----------------------------- MODULE VirtualRing -----------------------------
(***************************************************************************)
(* The introducer's virtual ring (src/src/virtual_ring.cpp): nodes linked  *)
(* to the two nodes before and the two nodes behind them.  insert() and    *)
(* leave() run in the introducer's only JOIN/LEAVE handler, one after the  *)
(* other, so each is one action.  A node is identified with its address;   *)
(* the pointers of an address outside the ring are NULL, as create_node()  *)
(* makes them and as leave() resets them.  Every right-hand side is the    *)
(* value the code reads at that line, after the lines before it.           *)
(***************************************************************************)
EXTENDS Naturals, FiniteSets

CONSTANTS Ip,          \* the addresses nodes may have
          Introducer,  \* the node that keeps the ring and is its head
          Octet,       \* the last octet of an address
          NULL         \* the null pointer

ASSUME RingAssumption ==
  /\ Introducer \in Ip
  /\ Octet \in [Ip -> Nat]
  /\ NULL \notin Ip

VARIABLES count, next1, next2, prev1, prev2

vars == <<count, next1, next2, prev1, prev2>>

-----------------------------------------------------------------------------
\* The node k steps behind the introducer along next1.
Walk[k \in 0..count] == IF k = 0 THEN Introducer ELSE next1[Walk[k-1]]

Members == {Walk[i] : i \in 0..count-1}

\* Mutant: the constructor does not count the introducer.
InitEmpty ==
  /\ count = 0
  /\ next1 = [ip \in Ip |-> NULL]
  /\ next2 = [ip \in Ip |-> NULL]
  /\ prev1 = [ip \in Ip |-> NULL]
  /\ prev2 = [ip \in Ip |-> NULL]

Init ==
  /\ count = 1
  /\ next1 = [ip \in Ip |-> NULL]
  /\ next2 = [ip \in Ip |-> NULL]
  /\ prev1 = [ip \in Ip |-> NULL]
  /\ prev2 = [ip \in Ip |-> NULL]

\* The second node: its far pointers stay NULL.
InsertSecond(ip) ==
  /\ count = 1
  /\ ip \notin Members
  /\ count' = count + 1
  /\ next1' = [next1 EXCEPT ![Introducer] = ip, ![ip] = Introducer]
  /\ prev1' = [prev1 EXCEPT ![Introducer] = ip, ![ip] = Introducer]
  /\ next2' = [next2 EXCEPT ![ip] = NULL]
  /\ prev2' = [prev2 EXCEPT ![ip] = NULL]

(* The loop that looks for ip's place stops k steps behind the introducer: *)
(* at the first octet that is not smaller (the introducer's counts as 1),  *)
(* or back at the introducer.                                              *)
StopsAt(ip, k) ==
  /\ IF k = 0 THEN Octet[ip] <= 1
              ELSE Octet[ip] > 1
  /\ \A j \in 1..k-1 : Octet[Walk[j]] < Octet[ip]
  /\ k \in 1..count-1 => Octet[Walk[k]] >= Octet[ip]

\* Mutant: ip enters behind the node where the loop stops.
InsertsBehind(ip, pred) ==
  /\ ip \notin Members
  /\ \E k \in 0..count : StopsAt(ip, k) /\ pred = Walk[k]

\* ip may enter between pred, the node before the loop's last one, and next1[pred].
InsertsAfter(ip, pred) ==
  /\ ip \notin Members
  /\ \E k \in 0..count : StopsAt(ip, k) /\ pred = prev1[Walk[k]]

InsertThird(ip, pred) ==
  LET succ == next1[pred] IN
  /\ count = 2
  /\ InsertsAfter(ip, pred)
  /\ count' = count + 1
  /\ next1' = [next1 EXCEPT ![pred] = ip, ![ip] = succ]
  /\ next2' = [next2 EXCEPT ![pred] = succ, ![ip] = next1[succ], ![succ] = ip]
  /\ prev1' = [prev1 EXCEPT ![ip] = pred, ![succ] = ip]
  /\ prev2' = [prev2 EXCEPT ![pred] = ip, ![ip] = prev1[pred], ![succ] = pred]

InsertFourth(ip, pred) ==
  LET succ == next1[pred]
      pre  == prev1[pred]
  IN
  /\ count = 3
  /\ InsertsAfter(ip, pred)
  /\ count' = count + 1
  /\ next1' = [next1 EXCEPT ![pred] = ip, ![ip] = succ]
  /\ next2' = [next2 EXCEPT ![pred] = succ, ![ip] = next1[succ], ![pre] = ip]
  /\ prev1' = [prev1 EXCEPT ![ip] = pred, ![succ] = ip]
  /\ prev2' = [prev2 EXCEPT ![ip] = pre, ![succ] = prev1[succ],
                            ![pre] = prev1'[prev1[pre]]]

\* Mutant: the far pointer of the node before ip leads one step too far.
InsertMoreReaches(ip, pred) ==
  LET succ == next1[pred] IN
  /\ count > 3
  /\ InsertsAfter(ip, pred)
  /\ count' = count + 1
  /\ next1' = [next1 EXCEPT ![pred] = ip, ![ip] = succ]
  /\ next2' = [next2 EXCEPT ![pred] = next2[succ], ![ip] = next1[succ],
                            ![prev1[pred]] = ip]
  /\ prev1' = [prev1 EXCEPT ![ip] = pred, ![succ] = ip]
  /\ prev2' = [prev2 EXCEPT ![ip] = prev1[pred], ![succ] = pred,
                            ![next1[succ]] = ip]

InsertMore(ip, pred) ==
  LET succ == next1[pred] IN
  /\ count > 3
  /\ InsertsAfter(ip, pred)
  /\ count' = count + 1
  /\ next1' = [next1 EXCEPT ![pred] = ip, ![ip] = succ]
  /\ next2' = [next2 EXCEPT ![pred] = succ, ![ip] = next1[succ],
                            ![prev1[pred]] = ip]
  /\ prev1' = [prev1 EXCEPT ![ip] = pred, ![succ] = ip]
  /\ prev2' = [prev2 EXCEPT ![ip] = prev1[pred], ![succ] = pred,
                            ![next1[succ]] = ip]

\* Mutant: the node two behind the leaving one keeps its prev2.
LeaveForgetsFar(ip) ==
  LET s1 == prev1[ip] IN
  /\ count > 2
  /\ ip \in Members \ {Introducer}
  /\ count' = count - 1
  /\ next1' = [next1 EXCEPT ![s1] = next1[ip], ![ip] = NULL]
  /\ next2' = [next2 EXCEPT ![s1] = next2[ip], ![prev1[s1]] = next1[ip],
                            ![ip] = NULL]
  /\ prev1' = [prev1 EXCEPT ![next1[ip]] = s1, ![ip] = NULL]
  /\ prev2' = [prev2 EXCEPT ![next1[ip]] = prev1[s1], ![ip] = NULL]

(* leave(): the introducer never sends LEAVE, and with two nodes the call  *)
(* has no effect.                                                          *)
Leave(ip) ==
  LET s1 == prev1[ip] IN
  /\ count > 2
  /\ ip \in Members \ {Introducer}
  /\ count' = count - 1
  /\ next1' = [next1 EXCEPT ![s1] = next1[ip], ![ip] = NULL]
  /\ next2' = [next2 EXCEPT ![s1] = next2[ip], ![prev1[s1]] = next1[ip],
                            ![ip] = NULL]
  /\ prev1' = [prev1 EXCEPT ![next1[ip]] = s1, ![ip] = NULL]
  /\ prev2' = [prev2 EXCEPT ![next1[ip]] = prev1[s1], ![next2[ip]] = s1,
                            ![ip] = NULL]

Insert(ip) ==
  \/ InsertSecond(ip)
  \/ \E pred \in Ip :
       InsertThird(ip, pred) \/ InsertFourth(ip, pred) \/ InsertMore(ip, pred)

Next == \E ip \in Ip : Insert(ip) \/ Leave(ip)

Spec == Init /\ [][Next]_vars

-----------------------------------------------------------------------------
\* Mutant: the second node behind ip is not sent to it.
NeighboursThree(ip) == {next1[ip], prev1[ip], prev2[ip]} \ {NULL, ip}

\* Mutant: only the nodes next to ip are sent to it.
NeighboursNear(ip) == {next1[ip], prev1[ip]} \ {NULL, ip}

\* The set of addresses that intro_handler and update_nodes send to ip.
Neighbours(ip) == {next1[ip], next2[ip], prev1[ip], prev2[ip]} \ {NULL, ip}

Pointer == [Ip -> Ip \cup {NULL}]

(* The variables have their types: a pointer of a node leads to an address *)
(* or to NULL, and the ring always holds the introducer.                   *)
TypeOK ==
  /\ count \in Nat \ {0}
  /\ next1 \in Pointer /\ next2 \in Pointer
  /\ prev1 \in Pointer /\ prev2 \in Pointer

After(i)  == IF i = count-1 THEN 0 ELSE i + 1
Before(i) == IF i = 0 THEN count-1 ELSE i - 1

(* After any mix of insert() and leave() calls the walk of `count` steps   *)
(* that the code makes along next1 meets `count` different nodes, and the  *)
(* other three pointers of each agree with it.  With two nodes the far     *)
(* pointers are NULL or the node itself; with one, all are NULL.           *)
RingOK ==
  LET Pos == 0..count-1 IN
  /\ \A i, j \in Pos : Walk[i] = Walk[j] => i = j
  /\ count > 1 => \A i \in Pos :
       /\ next1[Walk[i]] = Walk[After(i)]
       /\ prev1[Walk[i]] = Walk[Before(i)]
  /\ count > 2 => \A i \in Pos :
       /\ next2[Walk[i]] = Walk[After(After(i))]
       /\ prev2[Walk[i]] = Walk[Before(Before(i))]
  /\ count = 2 => \A i \in Pos :
       {next2[Walk[i]], prev2[Walk[i]]} \subseteq {NULL, Walk[i]}
  /\ \A ip \in Ip : ip \notin Members \/ count = 1 =>
       {next1[ip], next2[ip], prev1[ip], prev2[ip]} = {NULL}

(* Every node is given as neighbours only nodes that are given it as a     *)
(* neighbour, so that it is heartbeaten by exactly the nodes it watches,   *)
(* and it is given four of them as soon as the ring has four others.       *)
WatchedByNeighbours ==
  \A ip \in Members :
    /\ Neighbours(ip) \subseteq Members
    /\ \A n \in Neighbours(ip) : ip \in Neighbours(n)
    /\ Cardinality(Neighbours(ip)) = IF count > 4 THEN 4 ELSE count - 1

(* insert() brings no two older nodes together: of two neighbours the one  *)
(* that joined later was given the other when it did, unless a node left   *)
(* since.  Nodes in a growing ring need no gossip to know their neighbours.*)
JoinsSeparate ==
  [][count' > count =>
       \A a, b \in Members : b \in Neighbours(a)' => b \in Neighbours(a)]_vars

(* A set of nodes that no heartbeat leaves: the neighbours outside `lost`  *)
(* of its nodes are in it.                                                 *)
Closed(S, lost) == \A ip \in S : Neighbours(ip) \ lost \subseteq S

(* The introducer's heartbeats carry no membership list, so gossip must    *)
(* get around without it.  When any two nodes have failed as well          *)
(* (README.md: "Tolerant upto 2 machine failures at a time"), what one of  *)
(* the remaining nodes knows still reaches all of them.                    *)
GossipSurvivesTwoFailures ==
  \A a, b \in Members :
    LET lost == {a, b, Introducer}
        rest == Members \ lost
    IN  \A S \in SUBSET rest : Closed(S, lost) => S \in {{}, rest}

-----------------------------------------------------------------------------
\* The ring as the list RingOrder speaks about.
Abstract == INSTANCE RingOrder WITH order <- [i \in 1..count |-> Walk[i-1]]

(* The pointer surgery implements the list: a node enters at one place in  *)
(* the order of the octets, a leaving node is cut out, no other node       *)
(* moves, appears or is lost.                                              *)
ImplementsOrder == Abstract!Spec

=============================================================================
