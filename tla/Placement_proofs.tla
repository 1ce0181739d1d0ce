--------------------------- MODULE Placement_proofs ---------------------------
(***************************************************************************)
(* What where_to() answers, for any number of nodes, any octets and any    *)
(* names: live nodes only, three of them when four live; and on machines   *)
(* with octets from 37 on it has an answer as long as two live.  And what  *)
(* the failure of one node changes in an answer.                           *)
(***************************************************************************)
EXTENDS Placement, FiniteSetTheorems, NaturalsInduction,
        WellFoundedInduction, TLAPS

Less == {p \in Nat \X Nat : p[1] < p[2]}

\* A non-empty set of nodes has a least one: std::map's begin() of it.
LEMMA LeastNode ==
  ASSUME NEW S, S \subseteq Node, S # {}
  PROVE  Min(S) \in S /\ \A n \in S : Min(S) <= n
  <1>1. IsWellFoundedOn(Less, Nat)
    BY NatLessThanWellFounded DEF OpToRel, Less
  <1>2. S \subseteq Nat
    BY PlacementAssumption DEF Node
  <1>3. PICK m \in S : \A k \in S : ~(<<k, m>> \in Less)
    BY <1>1, <1>2, WFMin
  <1>4. ASSUME NEW k \in S PROVE m <= k
    <2>1. k \in Nat /\ m \in Nat
      BY <1>2
    <2>2. k < m => <<k, m>> \in Less
      BY <2>1 DEF Less
    <2>3. QED
      BY <1>3, <2>1, <2>2
  <1>5. QED
    BY <1>4 DEF Min

\* And a greatest one: the mirror image of the set has a least one.
LEMMA GreatestNode ==
  ASSUME NEW S, S \subseteq Node, S # {}
  PROVE  Max(S) \in S /\ \A n \in S : Max(S) >= n
  <1> DEFINE T == {n \in Node : N + 1 - n \in S}
  <1>1. N \in Nat /\ \A n \in S : n \in Nat /\ n \in 1..N
    BY PlacementAssumption DEF Node
  <1>2. \A n \in S : N + 1 - n \in T
    BY <1>1 DEF Node
  <1>3. T \subseteq Node /\ T # {}
    BY <1>2
  <1>4. Min(T) \in T /\ \A n \in T : Min(T) <= n
    BY <1>3, LeastNode
  <1>5. PICK m \in S : m = N + 1 - Min(T)
    BY <1>4
  <1>6. Min(T) \in Nat
    BY <1>1, <1>4 DEF Node
  <1>7. \A n \in S : m >= n
    BY <1>1, <1>2, <1>4, <1>5, <1>6
  <1>8. QED
    BY <1>7 DEF Max

\* Sets of nodes are finite.
LEMMA NodesFinite ==
  ASSUME NEW S, S \subseteq Node
  PROVE  IsFiniteSet(S) /\ Cardinality(S) \in Nat
  <1>1. IsFiniteSet(Node)
    BY FS_Interval, PlacementAssumption DEF Node
  <1>2. IsFiniteSet(S)
    BY <1>1, FS_Subset
  <1>3. QED
    BY <1>2, FS_CardinalityType

\* Three names make at most three nodes.
LEMMA AtMostThree ==
  ASSUME NEW S, NEW a, NEW b, NEW c, S \subseteq {a, b, c}
  PROVE  Cardinality(S) <= 3
  <1>1. IsFiniteSet({a}) /\ Cardinality({a}) = 1
    BY FS_Singleton
  <1>2. IsFiniteSet({a} \cup {b}) /\ Cardinality({a} \cup {b}) <= 2
    BY <1>1, FS_AddElement
  <1>3. {a} \cup {b} = {a, b} /\ {a, b} \cup {c} = {a, b, c}
    OBVIOUS
  <1>4. Cardinality({a, b}) \in Nat
    BY <1>2, <1>3, FS_CardinalityType
  <1>5. IsFiniteSet({a, b, c}) /\ Cardinality({a, b, c}) <= 3
    <2>1. IsFiniteSet({a, b}) /\ Cardinality({a, b}) <= 2
      BY <1>2, <1>3
    <2>2. /\ IsFiniteSet({a, b} \cup {c})
          /\ Cardinality({a, b} \cup {c}) = IF c \in {a, b} THEN Cardinality({a, b})
                                            ELSE Cardinality({a, b}) + 1
      BY <2>1, FS_AddElement
    <2>3. IsFiniteSet({a, b, c}) /\ Cardinality({a, b, c}) \in {Cardinality({a, b}), Cardinality({a, b}) + 1}
      BY <1>3, <2>2
    <2>4. QED
      BY <1>4, <2>1, <2>3
  <1>6. Cardinality(S) <= Cardinality({a, b, c}) /\ IsFiniteSet(S)
    BY <1>5, FS_Subset
  <1>7. QED
    BY <1>5, <1>6, FS_CardinalityType

\* Two different names among three make at least two nodes.
LEMMA TwoDifferent ==
  ASSUME NEW a, NEW b, NEW c, a # b
  PROVE  Cardinality({a, b, c}) >= 2
  <1>1. IsFiniteSet({a}) /\ Cardinality({a}) = 1
    BY FS_Singleton
  <1>2. IsFiniteSet({a} \cup {b}) /\ Cardinality({a} \cup {b}) = 2
    BY <1>1, FS_AddElement
  <1>3. IsFiniteSet({a} \cup {b} \cup {c}) /\ Cardinality({a} \cup {b} \cup {c}) \in {2, 3}
    BY <1>2, FS_AddElement
  <1>4. {a, b, c} = {a} \cup {b} \cup {c}
    OBVIOUS
  <1> QED
    BY <1>3, <1>4

\* Three different names make three nodes.
LEMMA ThreeDifferent ==
  ASSUME NEW a, NEW b, NEW c, a # b, a # c, b # c
  PROVE  Cardinality({a, b, c}) = 3
  <1>1. IsFiniteSet({a}) /\ Cardinality({a}) = 1
    BY FS_Singleton
  <1>2. IsFiniteSet({a} \cup {b}) /\ Cardinality({a} \cup {b}) = 2
    BY <1>1, FS_AddElement
  <1>3. {a} \cup {b} = {a, b} /\ {a, b} \cup {c} = {a, b, c}
    OBVIOUS
  <1>4. QED
    BY <1>2, <1>3, FS_AddElement
-----------------------------------------------------------------------------
(* The walk forward from a live node ends at a live node, and at another   *)
(* one as soon as two nodes live.                                          *)
LEMMA NextIsAlive ==
  ASSUME NEW alive, alive \subseteq Node, NEW n \in alive
  PROVE  LET b == {m \in alive : m > n} IN
         /\ NextAlive(n, alive) \in alive
         /\ b # {} => NextAlive(n, alive) = Min(b) /\ NextAlive(n, alive) \in b
         /\ b = {} => NextAlive(n, alive) = Min(alive)
  <1> DEFINE b == {m \in alive : m > n}
  <1>1. Min(alive) \in alive
    BY LeastNode
  <1>2. b # {} => Min(b) \in b
    BY LeastNode
  <1>3. QED
    BY <1>1, <1>2 DEF NextAlive

\* With two live nodes the walk forward does not come back to where it began.
LEMMA NextIsAnother ==
  ASSUME NEW alive, alive \subseteq Node, NEW n \in alive, Cardinality(alive) >= 2
  PROVE  NextAlive(n, alive) # n
  <1> DEFINE b == {m \in alive : m > n}
  <1>1. CASE b # {}
    <2>1. NextAlive(n, alive) \in b
      BY <1>1, NextIsAlive
    <2> QED
      BY <2>1, PlacementAssumption DEF Node
  <1>2. CASE b = {}
    <2>1. NextAlive(n, alive) = Min(alive)
      BY <1>2, NextIsAlive
    <2>2. PICK m \in alive : m # n
      <3>1. Cardinality({n}) = 1
        BY FS_Singleton
      <3>2. alive # {n}
        BY <3>1
      <3> QED
        BY <3>2
    <2>3. Min(alive) \in alive /\ \A k \in alive : Min(alive) <= k
      BY LeastNode
    <2> QED
      BY <1>2, <2>1, <2>2, <2>3, PlacementAssumption DEF Node
  <1> QED
    BY <1>1, <1>2

(* The walk back from a live node ends at a live node or at end(): in      *)
(* front of n, or at the last live node if only begin() is in front.       *)
LEMMA PrevIsAlive ==
  ASSUME NEW keys, NEW alive, alive \subseteq Node, NEW n \in alive, NEW e \in BOOLEAN,
         PrevAlive(n, keys, alive, e) # END
  PROVE  LET b == {m \in alive : Min(keys) < m /\ m < n}
             p == PrevAlive(n, keys, alive, e) IN
         /\ p \in alive
         /\ b # {} => p = Max(b) /\ p \in b
         /\ b = {} => p = Max(alive)
  <1> DEFINE b == {m \in alive : Min(keys) < m /\ m < n}
  <1>1. Max(alive) \in alive
    BY GreatestNode
  <1>2. b # {} => Max(b) \in b
    BY GreatestNode
  <1>3. CASE b # {}
    BY <1>2, <1>3 DEF PrevAlive
  <1>4. CASE b = {}
    <2>1. CASE e
      BY <1>1, <1>4, <2>1 DEF PrevAlive
    <2>2. CASE ~e
      BY <1>4, <2>2 DEF PrevAlive
    <2>3. QED
      BY <2>1, <2>2
  <1>5. QED
    BY <1>3, <1>4

(* The two walks of where_to() do not meet: if the node found in front of  *)
(* n were n itself or the node found behind it, at most three nodes, begin()*)
(* among them, would live.                                                 *)
LEMMA WalksDoNotMeet ==
  ASSUME NEW keys, keys \subseteq Node, NEW alive, alive \subseteq keys,
         Cardinality(alive) >= 4, NEW n \in alive, NEW e \in BOOLEAN,
         PrevAlive(n, keys, alive, e) # END
  PROVE  /\ n # NextAlive(n, alive)
         /\ n # PrevAlive(n, keys, alive, e)
         /\ NextAlive(n, alive) # PrevAlive(n, keys, alive, e)
  <1> DEFINE x == NextAlive(n, alive)
             p == PrevAlive(n, keys, alive, e)
             begin == Min(keys)
             after == {m \in alive : m > n}
             before == {m \in alive : begin < m /\ m < n}
  <1>1. alive \subseteq Node /\ begin \in Nat /\ \A m \in alive : m \in Nat
    <2>1. \A m \in keys : m \in Nat
      BY PlacementAssumption DEF Node
    <2>2. begin \in keys
      BY LeastNode
    <2>3. QED
      BY <2>1, <2>2
  <1>2. begin \in keys /\ \A m \in alive : begin <= m
    BY LeastNode
  <1>3. \A a, b, c : ~(alive \subseteq {a, b, c})
    <2>1. SUFFICES ASSUME NEW a, NEW b, NEW c, alive \subseteq {a, b, c} PROVE FALSE
      OBVIOUS
    <2>2. Cardinality(alive) <= 3 /\ Cardinality(alive) \in Nat
      BY <1>1, <2>1, AtMostThree, NodesFinite
    <2>3. QED
      BY <2>2
  <1>4. alive = before \cup after \cup (alive \cap {begin, n})
    BY <1>1, <1>2
  <1>5. /\ x \in alive
        /\ after # {} => x \in after /\ \A m \in after : x <= m
        /\ after = {} => \A m \in alive : x <= m
    <2>1. /\ x \in alive
          /\ after # {} => x = Min(after)
          /\ after = {} => x = Min(alive)
      BY <1>1, NextIsAlive
    <2>2. after # {} => Min(after) \in after /\ \A m \in after : Min(after) <= m
      BY <1>1, LeastNode
    <2>3. \A m \in alive : Min(alive) <= m
      BY <1>1, LeastNode
    <2>4. QED
      BY <2>1, <2>2, <2>3
  <1>6. /\ p \in alive
        /\ before # {} => p \in before /\ \A m \in before : p >= m
        /\ before = {} => \A m \in alive : p >= m
    <2>1. /\ p \in alive
          /\ before # {} => p = Max(before)
          /\ before = {} => p = Max(alive)
      <3>1. before # {} => p = Max(before)
        BY DEF PrevAlive
      <3>2. before = {} => p = Max(alive)
        BY DEF PrevAlive
      <3>3. p \in alive
        BY <1>1, PrevIsAlive
      <3> QED
        BY <3>1, <3>2, <3>3
    <2>2. before # {} => Max(before) \in before /\ \A m \in before : Max(before) >= m
      BY <1>1, GreatestNode
    <2>3. \A m \in alive : Max(alive) >= m
      BY <1>1, GreatestNode
    <2>4. QED
      BY <2>1, <2>2, <2>3
  <1> SUFFICES n # x /\ n # p /\ x # p
    OBVIOUS
  <1> HIDE DEF x, p, begin
  <1>7. CASE after # {} /\ before # {}
    BY <1>1, <1>5, <1>6, <1>7
  <1>8. CASE after = {} /\ before # {}
    <2>1. before # {p}
      BY <1>3, <1>4, <1>8
    <2>2. PICK m \in before : m # p
      BY <1>6, <1>8, <2>1
    <2>3. x <= m /\ m < p /\ p < n
      BY <1>1, <1>5, <1>6, <1>8, <2>2
    <2>4. QED
      BY <1>1, <1>5, <1>6, <2>3
  <1>9. CASE after # {} /\ before = {}
    <2>1. after # {x}
      BY <1>3, <1>4, <1>9
    <2>2. PICK m \in after : m # x
      BY <1>5, <1>9, <2>1
    <2>3. n < x /\ x < m /\ m <= p
      BY <1>1, <1>5, <1>6, <1>9, <2>2
    <2>4. QED
      BY <1>1, <1>5, <1>6, <2>3
  <1>10. CASE after = {} /\ before = {}
    <2>1. alive \subseteq {begin, n, n}
      BY <1>4, <1>10
    <2>2. QED
      BY <1>3, <2>1
  <1>11. QED
    BY <1>7, <1>8, <1>9, <1>10

\* The nodes an answer names.
Named(ips) == {ips[i] : i \in 1..3}

(* where_to() answers with live nodes, unless it reads an address from     *)
(* end(), and with three different ones if four live.                      *)
LEMMA AnswerIsAlive ==
  ASSUME NEW letter, NEW keys, keys \subseteq Node, NEW alive, alive \subseteq keys,
         NEW e \in BOOLEAN, NEW ips, ips = WhereTo(letter, keys, alive, e),
         END \notin {ips[i] : i \in 1..3}
  PROVE  /\ ips \in [1..3 -> Node]
         /\ Named(ips) \subseteq alive
         /\ Cardinality(alive) >= 2 => Cardinality(Named(ips)) >= 2
         /\ Cardinality(alive) >= 4 => Cardinality(Named(ips)) = 3
  <1> DEFINE n == Min(Eligible(letter, alive))
             x == NextAlive(n, alive)
             p == PrevAlive(n, keys, alive, e)
  <1>1. Eligible(letter, alive) # {}
    <2>1. SUFFICES ASSUME Eligible(letter, alive) = {} PROVE ips[1] = END
      OBVIOUS
    <2>2. QED
      BY <2>1 DEF WhereTo
  <1>2. ips = <<n, x, p>>
    BY <1>1 DEF WhereTo
  <1> HIDE DEF n, x, p
  <1>3. p # END /\ {ips[i] : i \in 1..3} = {n, x, p}
    BY <1>2
  <1>4. alive \subseteq Node
    OBVIOUS
  <1>5. n \in alive
    <2>1. Eligible(letter, alive) \subseteq alive
      BY DEF Eligible
    <2>2. n \in Eligible(letter, alive)
      BY <1>1, <1>4, <2>1, LeastNode DEF n
    <2>3. QED
      BY <2>1, <2>2
  <1>6. x \in alive
    BY <1>4, <1>5, NextIsAlive DEF x
  <1>7. p \in alive
    BY <1>3, <1>4, <1>5, PrevIsAlive DEF p
  <1>8. ips \in [1..3 -> Node]
    BY <1>2, <1>4, <1>5, <1>6, <1>7
  <1>9. Cardinality(alive) >= 4 => Cardinality({n, x, p}) = 3
    <2>1. SUFFICES ASSUME Cardinality(alive) >= 4 PROVE Cardinality({n, x, p}) = 3
      OBVIOUS
    <2>2. n # x /\ n # p /\ x # p
      BY <1>3, <1>5, <2>1, WalksDoNotMeet DEF x, p
    <2>3. QED
      BY <2>2, ThreeDifferent
  <1>10. Cardinality(alive) >= 2 => Cardinality({n, x, p}) >= 2
    <2>1. SUFFICES ASSUME Cardinality(alive) >= 2 PROVE Cardinality({n, x, p}) >= 2
      OBVIOUS
    <2>2. n # x
      BY <1>4, <1>5, <2>1, NextIsAnother DEF x
    <2>3. QED
      BY <2>2, TwoDifferent
  <1>11. QED
    BY <1>3, <1>5, <1>6, <1>7, <1>8, <1>9, <1>10 DEF Named

-----------------------------------------------------------------------------
(* The machines where_to() is written for: last octets from 37 on, each    *)
(* given once.                                                             *)
Deployment ==
  /\ \A n \in Node : Octet[n] >= 37
  /\ \A m, n \in Node : Octet[m] = Octet[n] => m = n

(* The hash of a name stays below 37 plus the number of live nodes less    *)
(* one, also for names that start before 'a'.                              *)
LEMMA HashBound ==
  ASSUME NEW letter \in Int, NEW d \in Nat \ {0}
  PROVE  CRem(letter, d) \in Int /\ CRem(letter, d) <= d - 1
  <1>1. CASE letter >= 0
    <2>1. letter % d \in 0..d-1
      BY <1>1
    <2>2. QED
      BY <1>1, <2>1 DEF CRem
  <1>2. CASE letter < 0
    <2>1. (-letter) % d \in 0..d-1
      BY <1>2
    <2>2. CRem(letter, d) = -((-letter) % d)
      BY <1>2 DEF CRem
    <2>3. QED
      BY <2>1, <2>2
  <1>3. QED
    BY <1>1, <1>2

(* k different octets from 37 on do not fit below 36 + k, so that one of   *)
(* them reaches every hash.                                                *)
LEMMA SomeEligible ==
  ASSUME Deployment, NEW letter \in Int, NEW alive, alive \subseteq Node,
         Cardinality(alive) >= 2
  PROVE  Eligible(letter, alive) # {}
  <1> DEFINE k == Cardinality(alive)
             h == HashOctet(letter, alive)
             low == 37..h-1
  <1>1. IsFiniteSet(alive) /\ k \in Nat /\ k >= 2
    BY NodesFinite
  <1>2. alive # {}
    BY <1>1, FS_EmptySet
  <1>3. h \in Int /\ h <= 35 + k
    <2>1. Divisor(alive) = k - 1
      BY DEF Divisor
    <2>2. CRem(letter, k - 1) \in Int /\ CRem(letter, k - 1) <= k - 2
      BY <1>1, HashBound
    <2>3. h = 37 + CRem(letter, k - 1)
      BY <1>2, <2>1 DEF HashOctet
    <2>4. QED
      BY <1>1, <2>2, <2>3
  <1> HIDE DEF h
  <1>4. SUFFICES ASSUME \A n \in alive : Octet[n] < h PROVE FALSE
    <2>1. \A n \in alive : Octet[n] \in Nat
      BY PlacementAssumption
    <2>2. QED
      BY <1>3, <2>1 DEF Eligible, h
  <1>5. IsFiniteSet(low) /\ Cardinality(low) < k
    <2>1. h - 1 \in Int /\ 37 \in Int
      BY <1>3
    <2>2. IsFiniteSet(low) /\ Cardinality(low) = IF 37 > h - 1 THEN 0 ELSE h - 1 - 37 + 1
      BY <2>1, FS_Interval
    <2>3. QED
      BY <1>1, <1>3, <2>2
  <1>6. [n \in alive |-> Octet[n]] \in [alive -> low]
    <2>1. \A n \in alive : Octet[n] \in Nat /\ Octet[n] >= 37
      BY PlacementAssumption DEF Deployment
    <2>2. QED
      BY <1>3, <1>4, <2>1
  <1>7. \E m, n \in alive : m # n /\ Octet[m] = Octet[n]
    <2>1. \A g \in [alive -> low] : \E m, n \in alive : m # n /\ g[m] = g[n]
      BY <1>1, <1>5, FS_PigeonHole
    <2>2. QED
      BY <1>6, <2>1
  <1>8. QED
    BY <1>7 DEF Deployment

-----------------------------------------------------------------------------
(* What one failure changes in an answer, where the octets go up with the  *)
(* address strings and the hash of the name stays what it was.             *)
Ascending == \A m, n \in Node : m < n => Octet[m] <= Octet[n]

\* The placement by a list of all nodes without those in `lost`.
AnswerWithout(letter, lost) == WhereTo(letter, Node, Node \ lost, TRUE)

LEMMA MinIs ==
  ASSUME NEW S, S \subseteq Node, NEW n \in S, \A m \in S : n <= m
  PROVE  Min(S) = n
  <1>1. Min(S) \in S /\ \A m \in S : Min(S) <= m
    BY LeastNode
  <1>2. S \subseteq Nat
    BY PlacementAssumption DEF Node
  <1>3. Min(S) \in Nat /\ n \in Nat
    BY <1>1, <1>2
  <1> QED BY <1>1, <1>3

LEMMA MaxIs ==
  ASSUME NEW S, S \subseteq Node, NEW n \in S, \A m \in S : n >= m
  PROVE  Max(S) = n
  <1>1. Max(S) \in S /\ \A m \in S : Max(S) >= m
    BY GreatestNode
  <1>2. S \subseteq Nat
    BY PlacementAssumption DEF Node
  <1>3. Max(S) \in Nat /\ n \in Nat
    BY <1>1, <1>2
  <1> QED BY <1>1, <1>3

(* An answer that is sent does not depend on what the flag behind end()    *)
(* reads as.                                                               *)
LEMMA SentWithoutEnd ==
  ASSUME NEW letter, NEW keys, NEW alive,
         END \notin Named(WhereTo(letter, keys, alive, FALSE))
  PROVE  WhereTo(letter, keys, alive, FALSE) = WhereTo(letter, keys, alive, TRUE)
  <1> DEFINE n == Min(Eligible(letter, alive))
             between == {m \in alive : Min(keys) < m /\ m < n}
  <1>1. CASE Eligible(letter, alive) = {}
    BY <1>1 DEF WhereTo
  <1>2. CASE Eligible(letter, alive) # {}
    <2>1. WhereTo(letter, keys, alive, FALSE)
            = <<n, NextAlive(n, alive), PrevAlive(n, keys, alive, FALSE)>>
      BY <1>2 DEF WhereTo
    <2>2. WhereTo(letter, keys, alive, TRUE)
            = <<n, NextAlive(n, alive), PrevAlive(n, keys, alive, TRUE)>>
      BY <1>2 DEF WhereTo
    <2>3. between # {}
      <3> SUFFICES ASSUME between = {} PROVE FALSE
        OBVIOUS
      <3>1. PrevAlive(n, keys, alive, FALSE) = END
        BY DEF PrevAlive
      <3> HIDE DEF n
      <3>2. PICK ips : ips = WhereTo(letter, keys, alive, FALSE)
        OBVIOUS
      <3>3. ips[3] = END
        <4>1. <<n, NextAlive(n, alive), PrevAlive(n, keys, alive, FALSE)>>
                = <<n, NextAlive(n, alive), END>>
          BY <3>1
        <4>2. ips = <<n, NextAlive(n, alive), END>>
          BY <2>1, <3>2, <4>1
        <4> QED BY <4>2
      <3>4. END \in {ips[i] : i \in 1..3}
        BY <3>3
      <3> QED BY <3>2, <3>4 DEF Named
    <2>4. PrevAlive(n, keys, alive, FALSE) = PrevAlive(n, keys, alive, TRUE)
      BY <2>3 DEF PrevAlive
    <2> QED BY <2>1, <2>2, <2>4
  <1> QED BY <1>1, <1>2

(* With all nodes alive the walks of where_to() end beside the primary, or *)
(* at the other end of the list.                                           *)
LEMMA NextOfAll ==
  ASSUME NEW n \in Node
  PROVE  NextAlive(n, Node) = IF n < N THEN n + 1 ELSE 1
  <1> DEFINE behind == {m \in Node : m > n}
  <1>1. n \in 1..N /\ N \in Nat /\ Node = 1..N
    BY PlacementAssumption DEF Node
  <1>2. CASE n < N
    <2>1. n + 1 \in behind /\ behind \subseteq Node /\ \A m \in behind : n + 1 <= m
      BY <1>1, <1>2
    <2>2. Min(behind) = n + 1
      BY <2>1, MinIs
    <2> QED BY <1>2, <2>1, <2>2 DEF NextAlive
  <1>3. CASE ~(n < N)
    <2>1. behind = {} /\ 1 \in Node /\ \A m \in Node : 1 <= m
      BY <1>1, <1>3
    <2>2. Min(Node) = 1
      BY <2>1, MinIs
    <2> QED BY <1>3, <2>1, <2>2 DEF NextAlive
  <1> QED BY <1>2, <1>3

LEMMA PrevOfAll ==
  ASSUME NEW n \in Node
  PROVE  PrevAlive(n, Node, Node, TRUE) = IF n >= 3 THEN n - 1 ELSE N
  <1> DEFINE between == {k \in Node : Min(Node) < k /\ k < n}
  <1>1. n \in 1..N /\ N \in Nat /\ Node = 1..N
    BY PlacementAssumption DEF Node
  <1>2. 1 \in Node /\ N \in Node /\ \A k \in Node : 1 <= k /\ N >= k
    BY <1>1
  <1>3. Min(Node) = 1 /\ Max(Node) = N
    BY <1>2, MinIs, MaxIs
  <1>4. CASE n >= 3
    <2>1. n - 1 \in between /\ between \subseteq Node /\ \A k \in between : n - 1 >= k
      BY <1>1, <1>3, <1>4
    <2>2. Max(between) = n - 1
      BY <2>1, MaxIs
    <2> QED BY <1>4, <2>1, <2>2 DEF PrevAlive
  <1>5. CASE ~(n >= 3)
    <2>1. between = {}
      BY <1>1, <1>3, <1>5
    <2> QED BY <1>3, <1>5, <2>1 DEF PrevAlive
  <1> QED BY <1>4, <1>5

(* The failure of a node where they do not end leaves them as they were.   *)
LEMMA NextStays ==
  ASSUME NEW n \in Node, NEW m \in Node, m # n, NextAlive(n, Node) # m
  PROVE  NextAlive(n, Node \ {m}) = NextAlive(n, Node)
  <1> DEFINE alive  == Node \ {m}
             behind == {k \in alive : k > n}
  <1>1. n \in 1..N /\ m \in 1..N /\ N \in Nat /\ Node = 1..N
    BY PlacementAssumption DEF Node
  <1>2. NextAlive(n, Node) = IF n < N THEN n + 1 ELSE 1
    BY NextOfAll
  <1>3. CASE n < N
    <2>1. n + 1 \in behind /\ behind \subseteq Node /\ \A k \in behind : n + 1 <= k
      BY <1>1, <1>2, <1>3
    <2>2. Min(behind) = n + 1
      BY <2>1, MinIs
    <2>3. NextAlive(n, alive) = n + 1
      BY <2>1, <2>2 DEF NextAlive
    <2> QED BY <1>2, <1>3, <2>3
  <1>4. CASE ~(n < N)
    <2>1. behind = {} /\ 1 \in alive /\ alive \subseteq Node /\ \A k \in alive : 1 <= k
      BY <1>1, <1>2, <1>4
    <2>2. Min(alive) = 1
      BY <2>1, MinIs
    <2>3. NextAlive(n, alive) = 1
      BY <2>1, <2>2 DEF NextAlive
    <2> QED BY <1>2, <1>4, <2>3
  <1> QED BY <1>3, <1>4

LEMMA PrevStays ==
  ASSUME NEW n \in Node, NEW m \in Node, m # n, PrevAlive(n, Node, Node, TRUE) # m
  PROVE  PrevAlive(n, Node, Node \ {m}, TRUE) = PrevAlive(n, Node, Node, TRUE)
  <1> DEFINE alive   == Node \ {m}
             between == {k \in alive : Min(Node) < k /\ k < n}
  <1>1. n \in 1..N /\ m \in 1..N /\ N \in Nat /\ Node = 1..N
    BY PlacementAssumption DEF Node
  <1>2. 1 \in Node /\ \A k \in Node : 1 <= k
    BY <1>1
  <1>3. Min(Node) = 1
    BY <1>2, MinIs
  <1>4. PrevAlive(n, Node, Node, TRUE) = IF n >= 3 THEN n - 1 ELSE N
    BY PrevOfAll
  <1>5. CASE n >= 3
    <2>1. n - 1 \in between /\ between \subseteq Node /\ \A k \in between : n - 1 >= k
      <3>1. m # n - 1
        BY <1>4, <1>5
      <3> QED BY <1>1, <1>3, <1>5, <3>1
    <2>2. Max(between) = n - 1
      BY <2>1, MaxIs
    <2>3. PrevAlive(n, Node, alive, TRUE) = n - 1
      BY <2>1, <2>2 DEF PrevAlive
    <2> QED BY <1>4, <1>5, <2>3
  <1>6. CASE ~(n >= 3)
    <2>1. between = {} /\ N \in alive /\ alive \subseteq Node /\ \A k \in alive : N >= k
      <3>1. m # N
        BY <1>4, <1>6
      <3> QED BY <1>1, <1>3, <1>6, <3>1
    <2>2. Max(alive) = N
      BY <2>1, MaxIs
    <2>3. PrevAlive(n, Node, alive, TRUE) = N
      BY <2>1, <2>2 DEF PrevAlive
    <2> QED BY <1>4, <1>6, <2>3
  <1> QED BY <1>5, <1>6

(* If the primary itself fails, the walk from the node behind it passes    *)
(* its place.                                                              *)
LEMMA PrevPasses ==
  ASSUME N >= 4, NEW n \in Node, n < N
  PROVE  PrevAlive(n + 1, Node, Node \ {n}, TRUE) = PrevAlive(n, Node, Node, TRUE)
  <1> DEFINE alive   == Node \ {n}
             between == {k \in alive : Min(Node) < k /\ k < n + 1}
  <1>1. n \in 1..N /\ N \in Nat /\ Node = 1..N
    BY PlacementAssumption DEF Node
  <1>2. 1 \in Node /\ \A k \in Node : 1 <= k
    BY <1>1
  <1>3. Min(Node) = 1
    BY <1>2, MinIs
  <1>4. PrevAlive(n, Node, Node, TRUE) = IF n >= 3 THEN n - 1 ELSE N
    BY PrevOfAll
  <1>5. CASE n >= 3
    <2>1. n - 1 \in between /\ between \subseteq Node /\ \A k \in between : n - 1 >= k
      BY <1>1, <1>3, <1>5
    <2>2. Max(between) = n - 1
      BY <2>1, MaxIs
    <2>3. PrevAlive(n + 1, Node, alive, TRUE) = n - 1
      BY <2>1, <2>2 DEF PrevAlive
    <2> QED BY <1>4, <1>5, <2>3
  <1>6. CASE ~(n >= 3)
    <2>1. between = {} /\ N \in alive /\ alive \subseteq Node /\ \A k \in alive : N >= k
      BY <1>1, <1>3, <1>6
    <2>2. Max(alive) = N
      BY <2>1, MaxIs
    <2>3. PrevAlive(n + 1, Node, alive, TRUE) = N
      BY <2>1, <2>2 DEF PrevAlive
    <2> QED BY <1>4, <1>6, <2>3
  <1> QED BY <1>5, <1>6

-----------------------------------------------------------------------------
\* Where the walks lead from a primary, with all nodes alive.
Beside(n) == <<n, NextAlive(n, Node), PrevAlive(n, Node, Node, TRUE)>>

\* They lead to two other nodes.
LEMMA BesideIsThree ==
  ASSUME N >= 4, NEW n \in Node
  PROVE  /\ NextAlive(n, Node) \in Node \ {n}
         /\ PrevAlive(n, Node, Node, TRUE) \in Node \ {n, NextAlive(n, Node)}
  <1> DEFINE x == NextAlive(n, Node)
             p == PrevAlive(n, Node, Node, TRUE)
  <1>1. n \in 1..N /\ N \in Nat /\ Node = 1..N
    BY PlacementAssumption DEF Node
  <1>2. x = (IF n < N THEN n + 1 ELSE 1) /\ p = (IF n >= 3 THEN n - 1 ELSE N)
    BY NextOfAll, PrevOfAll
  <1> HIDE DEF x, p
  <1>3. x \in Node \ {n} /\ p \in Node \ {n, x}
    BY <1>1, <1>2
  <1> QED BY <1>3 DEF x, p

LEMMA NamesOfThree == \A a, b, c : Named(<<a, b, c>>) = {a, b, c}
  BY DEF Named

(* One node that fails leaves the others that an answer names in it, and   *)
(* brings in one other at most: if the primary fails, the node behind it,  *)
(* which the answer named as well, takes its place.                        *)
LEMMA FailureKeepsOthers ==
  ASSUME N >= 4, Ascending, NEW letter \in Int, NEW m \in Node,
         HashOctet(letter, Node \ {m}) = HashOctet(letter, Node),
         Eligible(letter, Node \ {m}) # {}
  PROVE  \E n \in Node : /\ AnswerWithout(letter, {}) = Beside(n)
                         /\ Named(Beside(n)) \ {m} \subseteq Named(AnswerWithout(letter, {m}))
  <1> DEFINE alive == Node \ {m}
             E == Eligible(letter, Node)
             F == Eligible(letter, alive)
             h == HashOctet(letter, Node)
             n == Min(E)
             x == NextAlive(n, Node)
             p == PrevAlive(n, Node, Node, TRUE)
             k == Min(F)
  <1>1. F = E \ {m} /\ E \subseteq Node /\ E # {}
    BY DEF Eligible
  <1>2. n \in E /\ \A a \in E : n <= a
    BY <1>1, LeastNode
  <1>3. k \in F /\ \A a \in F : k <= a
    BY <1>1, LeastNode
  <1>4. AnswerWithout(letter, {}) = Beside(n)
    <2>1. Node \ {} = Node
      OBVIOUS
    <2> QED BY <1>1, <2>1 DEF AnswerWithout, WhereTo, Beside
  <1>5. AnswerWithout(letter, {m}) = <<k, NextAlive(k, alive), PrevAlive(k, Node, alive, TRUE)>>
    BY DEF AnswerWithout, WhereTo
  <1>6. n \in Node /\ k \in Node /\ n \in 1..N /\ k \in 1..N /\ N \in Nat /\ Node = 1..N
    BY <1>1, <1>2, <1>3, PlacementAssumption DEF Node
  <1>7. k # n => m = n
    <2> HIDE DEF E, F, n, k
    <2> QED BY <1>1, <1>2, <1>3, <1>6
  <1>8. m = n => n < N /\ k = n + 1
    <2> SUFFICES ASSUME m = n PROVE n < N /\ k = n + 1
      OBVIOUS
    <2>1. n < k
      <3> HIDE DEF E, F, n, k
      <3> QED BY <1>1, <1>2, <1>3, <1>6
    <2>2. n + 1 \in Node /\ n + 1 # n
      BY <1>6, <2>1
    <2>3. n + 1 \in E
      <3>1. Octet[n] <= Octet[n + 1]
        BY <1>6, <2>2 DEF Ascending
      <3>2. Octet[n] \in Nat /\ Octet[n + 1] \in Nat /\ h \in Int
        <4>1. Octet[n] \in Nat /\ Octet[n + 1] \in Nat
          BY <1>6, <2>2, PlacementAssumption
        <4>2. Cardinality(Node) = N
          BY <1>6, FS_Interval
        <4>3. CRem(letter, N - 1) \in Int
          BY <1>6, HashBound
        <4>4. Node # {} /\ Divisor(Node) = N - 1
          BY <1>6, <4>2 DEF Divisor
        <4> QED BY <4>1, <4>3, <4>4 DEF HashOctet
      <3>3. Octet[n] >= h
        BY <1>2 DEF Eligible
      <3> HIDE DEF h
      <3>4. Octet[n + 1] >= h
        BY <3>1, <3>2, <3>3
      <3> QED BY <2>2, <3>4 DEF Eligible, h
    <2>4. n + 1 \in F
      BY <1>1, <2>2, <2>3
    <2> HIDE DEF E, F, n, k
    <2> QED BY <1>3, <1>6, <2>1, <2>4
  <1>9. x \in Node \ {n} /\ p \in Node \ {n, x}
    BY <1>6, BesideIsThree
  <1>10. Named(Beside(n)) = {n, x, p}
    BY NamesOfThree DEF Beside
  <1>11. Named(AnswerWithout(letter, {m}))
           = {k, NextAlive(k, alive), PrevAlive(k, Node, alive, TRUE)}
    BY <1>5, NamesOfThree
  <1>12. CASE m # n
    <2>1. k = n
      BY <1>7, <1>12
    <2>2. x # m => NextAlive(k, alive) = x
      BY <1>6, <1>12, <2>1, NextStays
    <2>3. p # m => PrevAlive(k, Node, alive, TRUE) = p
      <3>1. PrevAlive(n, Node, Node, TRUE) # m =>
              PrevAlive(n, Node, Node \ {m}, TRUE) = PrevAlive(n, Node, Node, TRUE)
        <4> HIDE DEF n
        <4> QED BY <1>6, <1>12, PrevStays
      <3> QED BY <2>1, <3>1
    <2> HIDE DEF n, x, p, k, alive
    <2> QED BY <1>4, <1>6, <1>10, <1>11, <2>1, <2>2, <2>3
  <1>13. CASE m = n
    <2>1. n < N /\ k = n + 1
      BY <1>8, <1>13
    <2>2. x = k
      BY <1>6, <2>1, NextOfAll
    <2>3. PrevAlive(k, Node, alive, TRUE) = p
      BY <1>6, <1>13, <2>1, PrevPasses
    <2> HIDE DEF n, x, p, k, alive
    <2> QED BY <1>4, <1>6, <1>10, <1>11, <1>13, <2>2, <2>3
  <1> QED BY <1>12, <1>13

LEMMA AnswerAfterFailure ==
  ASSUME N >= 4, Ascending, NEW letter \in Int, NEW m \in Node,
         HashOctet(letter, Node \ {m}) = HashOctet(letter, Node),
         END \notin Named(AnswerWithout(letter, {m}))
  PROVE  /\ Named(AnswerWithout(letter, {})) \ {m} \subseteq Named(AnswerWithout(letter, {m}))
         /\ \A a, b \in Named(AnswerWithout(letter, {m})) \ Named(AnswerWithout(letter, {})) :
              a = b
  <1>1. Eligible(letter, Node \ {m}) # {}
    <2> SUFFICES ASSUME Eligible(letter, Node \ {m}) = {} PROVE FALSE
      OBVIOUS
    <2>1. PICK a, b : AnswerWithout(letter, {m}) = <<END, a, b>>
      BY DEF AnswerWithout, WhereTo
    <2> QED BY <2>1, NamesOfThree
  <1>2. PICK n \in Node :
          /\ AnswerWithout(letter, {}) = Beside(n)
          /\ Named(Beside(n)) \ {m} \subseteq Named(AnswerWithout(letter, {m}))
    BY <1>1, FailureKeepsOthers
  <1>3. PICK a, b, c : a # b /\ a # c /\ b # c /\ Named(Beside(n)) = {a, b, c}
    <2> DEFINE x == NextAlive(n, Node)
               p == PrevAlive(n, Node, Node, TRUE)
    <2>1. x # n /\ p # n /\ p # x
      BY BesideIsThree
    <2>2. Named(Beside(n)) = {n, x, p}
      BY NamesOfThree DEF Beside
    <2> HIDE DEF x, p
    <2> QED BY <2>1, <2>2
  <1>4. PICK i, j, k : Named(AnswerWithout(letter, {m})) = {i, j, k}
    <2>1. \A ips : Named(ips) = {ips[1], ips[2], ips[3]}
      BY DEF Named
    <2> QED BY <2>1
  <1> QED BY <1>2, <1>3, <1>4

(* An answer from a list of all nodes names two of them at least.          *)
LEMMA TwoHomes ==
  ASSUME N >= 4, NEW letter
  PROVE  \E a, b \in Named(AnswerWithout(letter, {})) \cap Node : a # b
  <1>1. 1 \in Node /\ 2 \in Node /\ \A k \in Node : 1 <= k /\ (k # 1 => 2 <= k)
    BY PlacementAssumption DEF Node
  <1>2. Node \ {} = Node
    OBVIOUS
  <1>3. CASE Eligible(letter, Node) = {}
    <2>1. Min(Node) = 1 /\ Min(Node \ {1}) = 2
      <3>1. 2 \in Node \ {1} /\ Node \ {1} \subseteq Node /\ \A k \in Node \ {1} : 2 <= k
        BY <1>1
      <3> QED BY <1>1, <3>1, MinIs
    <2>2. AnswerWithout(letter, {}) = <<END, 1, 2>>
      BY <1>1, <1>2, <1>3, <2>1 DEF AnswerWithout, WhereTo
    <2> QED BY <1>1, <2>2, NamesOfThree
  <1>4. CASE Eligible(letter, Node) # {}
    <2> DEFINE n == Min(Eligible(letter, Node))
               x == NextAlive(n, Node)
               p == PrevAlive(n, Node, Node, TRUE)
    <2>1. n \in Node
      <3>1. Eligible(letter, Node) \subseteq Node
        BY DEF Eligible
      <3>2. n \in Eligible(letter, Node)
        BY <1>4, <3>1, LeastNode
      <3> QED BY <3>1, <3>2
    <2>2. AnswerWithout(letter, {}) = <<n, x, p>>
      BY <1>2, <1>4 DEF AnswerWithout, WhereTo
    <2>3. Named(AnswerWithout(letter, {})) = {n, x, p}
      BY <2>2, NamesOfThree
    <2>4. x \in Node /\ x # n
      BY <2>1, BesideIsThree
    <2> HIDE DEF n, x, p
    <2> QED BY <2>1, <2>3, <2>4
  <1> QED BY <1>3, <1>4

(* The hash of a name that begins with one of the first N - 2 letters does *)
(* not change when a node fails.                                           *)
LEMMA FirstLetters ==
  ASSUME N >= 4, NEW letter \in 0..N-3, NEW m \in Node
  PROVE  HashOctet(letter, Node \ {m}) = HashOctet(letter, Node)
  <1>1. N \in Nat /\ letter \in Nat /\ letter < N - 2
    BY PlacementAssumption
  <1>2. IsFiniteSet(Node) /\ Cardinality(Node) = N
    BY <1>1, FS_Interval DEF Node
  <1>3. Cardinality(Node \ {m}) = N - 1
    BY <1>1, <1>2, FS_RemoveElement
  <1>4. Divisor(Node) = N - 1 /\ Divisor(Node \ {m}) = N - 2
    BY <1>1, <1>2, <1>3 DEF Divisor
  <1>5. Node # {} /\ Node \ {m} # {}
    BY <1>1, <1>3, FS_EmptySet
  <1>6. letter % (N - 1) = letter /\ letter % (N - 2) = letter
    BY <1>1
  <1>7. CRem(letter, N - 1) = letter /\ CRem(letter, N - 2) = letter
    BY <1>1, <1>6 DEF CRem
  <1> QED BY <1>4, <1>5, <1>7 DEF HashOctet
=============================================================================
