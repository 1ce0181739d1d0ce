------------------------------ MODULE Placement ------------------------------
(***************************************************************************)
(* Where a file goes: where_to() of src/src/client.cpp and the helpers it  *)
(* reads the master's membership list with.  member_list is a std::map     *)
(* ordered by the address string; nodes are numbered 1..N in that order,   *)
(* so that begin() is the least known node and ++ the next greater one.    *)
(*                                                                         *)
(* where_to() also dereferences member_list.end().  What it finds there is *)
(* whatever the memory behind the map's header holds: the failed_ flag     *)
(* read from it is a parameter (endFailed), and copying the address string *)
(* from it gives END, on which the caller's request never gets an answer.  *)
(***************************************************************************)
EXTENDS Integers, Sequences, FiniteSets, FiniteSetsExt

CONSTANTS N,      \* nodes are 1..N, in the order of their address strings
          Octet   \* the last octet of each node's address

Node == 1..N
END  == 0         \* the address "read" from member_list.end()

ASSUME PlacementAssumption == N \in Nat \ {0} /\ Octet \in [Node -> Nat]

\* C++ integer division truncates towards zero: the sign follows the left operand.
CRem(a, b) == IF a >= 0 THEN a % b ELSE -((-a) % b)

\* Mutant: where_to() adds one where it should subtract it.
DivisorPlus(alive) == Cardinality(alive) + 1

(* number_of_active_nodes() - 1: where_to() divides by it, and the process *)
(* of a master with one live node dies of SIGFPE.                          *)
Divisor(alive) == Cardinality(alive) - 1

\* The octet that a file name with first character 'a' + letter hashes to.
HashOctet(letter, alive) ==
  37 + (IF alive = {} THEN 0 ELSE CRem(letter, Divisor(alive)))

-----------------------------------------------------------------------------
(* The three addresses where_to() answers with.  `known` are the nodes in  *)
(* the list, `alive` those of them whose failed_ flag is not set.          *)
Eligible(letter, alive) == {n \in alive : Octet[n] >= HashOctet(letter, alive)}

\* The next live node behind n, from the top of the list again if there is none.
NextAlive(n, alive) ==
  LET behind == {m \in alive : m > n}
  IN  IF behind # {} THEN Min(behind) ELSE Min(alive)

\* Mutant: the search in front of n goes on from the wrong end.
PrevAliveFromBegin(n, known, alive, endFailed) ==
  LET between == {m \in alive : Min(known) < m /\ m < n}
  IN  CASE between # {} -> Max(between)
        [] between = {} /\ endFailed -> Min(alive)
        [] OTHER -> END

(* The last live node in front of n, but never begin() itself: there the   *)
(* search starts again from end(), whose flag decides what it returns.     *)
PrevAlive(n, known, alive, endFailed) ==
  LET between == {m \in alive : Min(known) < m /\ m < n}
  IN  CASE between # {} -> Max(between)
        [] between = {} /\ endFailed -> Max(alive)
        [] OTHER -> END

WhereTo(letter, known, alive, endFailed) ==
  LET primary == Min(Eligible(letter, alive))
      first   == IF known = {} THEN END ELSE Min(known)
      second  == IF known \ {first} = {} THEN END ELSE Min(known \ {first})
  IN  IF Eligible(letter, alive) # {}
        THEN <<primary, NextAlive(primary, alive),
               PrevAlive(primary, known, alive, endFailed)>>
        ELSE <<END, first, second>>
=============================================================================
