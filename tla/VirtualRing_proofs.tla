-------------------------- MODULE VirtualRing_proofs --------------------------
(***************************************************************************)
(* TypeOK and RingOK hold for every set of addresses, every introducer and *)
(* all octets.  RingOK speaks of the walk along next1 from the introducer; *)
(* the inductive invariant IInv says instead that SOME list of the members *)
(* agrees with all four pointers.  A list can be turned so that the place  *)
(* where insert() or leave() works is at its end, where the change is one  *)
(* Append or one removal; WalkFollowsRing leads back to the walk.          *)
(***************************************************************************)
EXTENDS VirtualRing, NaturalsInduction, WellFoundedInduction, FiniteSetTheorems, TLAPS

Pos == 0..count-1

(* ord lists the members in the order of the ring, from any of them on.    *)
Ring(ord) ==
  /\ ord \in [Pos -> Ip]
  /\ \A i, j \in Pos : ord[i] = ord[j] => i = j
  /\ count > 1 => \A i \in Pos : next1[ord[i]] = ord[After(i)]
  /\ count > 1 => \A i \in Pos : prev1[ord[i]] = ord[Before(i)]
  /\ count > 2 => \A i \in Pos : next2[ord[i]] = ord[After(After(i))]
  /\ count > 2 => \A i \in Pos : prev2[ord[i]] = ord[Before(Before(i))]
  /\ count = 2 => \A i \in Pos : next2[ord[i]] \in {NULL, ord[i]}
  /\ count = 2 => \A i \in Pos : prev2[ord[i]] \in {NULL, ord[i]}
  /\ \A ip \in Ip : count = 1 \/ (\A i \in Pos : ord[i] # ip) =>
       next1[ip] = NULL /\ next2[ip] = NULL /\ prev1[ip] = NULL /\ prev2[ip] = NULL

SameMembers(ord, r) ==
  /\ \A i \in Pos : \E k \in Pos : ord[i] = r[k]
  /\ \A i \in Pos : \E k \in Pos : r[i] = ord[k]

\* The same list from the introducer on.
Linked(ord) == Ring(ord) /\ ord[0] = Introducer

(* The inductive invariant: some list of the members, the introducer among *)
(* them, agrees with every pointer.                                        *)
IInv == TypeOK /\ \E ord : Ring(ord) /\ \E i \in Pos : ord[i] = Introducer

Less == {p \in Nat \X Nat : p[1] < p[2]}

(* A non-empty set of positions has a least one: the first position where  *)
(* the walk would leave the list, in the next lemma.                       *)
LEMMA MinimalFailure ==
  ASSUME NEW n \in Nat, NEW S, S \subseteq 0..n, S # {}
  PROVE  \E m \in S : \A k \in S : ~(k < m)
  <1>1. IsWellFoundedOn(Less, Nat)
    BY NatLessThanWellFounded DEF OpToRel, Less
  <1>2. S \subseteq Nat
    OBVIOUS
  <1>3. PICK m \in S : \A k \in S : ~(<<k, m>> \in Less)
    BY <1>1, <1>2, WFMin
  <1>4. QED
    BY <1>2, <1>3 DEF Less

(* The walk of insert() and leave() along next1 from the introducer visits *)
(* the members in the order of the list, and is back after `count` steps.  *)
LEMMA WalkFollowsRing ==
  ASSUME TypeOK, NEW ord, Linked(ord)
  PROVE  /\ \A i \in Pos : Walk[i] = ord[i]
         /\ count > 1 => Walk[count] = Introducer
  <1> DEFINE w == [k \in 0..count |-> IF k < count THEN ord[k] ELSE next1[ord[count-1]]]
  <1>1. count \in Nat /\ count > 0
    BY DEF TypeOK
  <1>2. \A k \in 0..count : k # 0 => w[k] = next1[w[k-1]]
    BY <1>1 DEF Linked, Ring, Pos, After
  <1>3. w = [k \in 0..count |-> IF k = 0 THEN Introducer ELSE next1[w[k-1]]]
    <2>1. \A k \in 0..count : w[k] = IF k = 0 THEN Introducer ELSE next1[w[k-1]]
      BY <1>1, <1>2 DEF Linked, Ring
    <2> QED BY <2>1
  <1>4. Walk = [k \in 0..count |-> IF k = 0 THEN Introducer ELSE next1[Walk[k-1]]]
    <2> HIDE DEF w
    <2> QED BY <1>3 DEF Walk
  <1>5. \A k \in 0..count : Walk[k] = w[k]
    <2> DEFINE Bad == {k \in 0..count : Walk[k] # w[k]}
    <2>1. SUFFICES ASSUME Bad # {} PROVE FALSE
      OBVIOUS
    <2>2. PICK m \in Bad : \A k \in Bad : ~(k < m)
      BY <1>1, <2>1, MinimalFailure
    <2>3. m # 0
      BY <1>1, <1>3, <1>4
    <2>4. m-1 \in 0..count /\ m-1 < m
      BY <1>1, <2>3
    <2>5. Walk[m-1] = w[m-1]
      BY <2>2, <2>4
    <2>6. Walk[m] = next1[Walk[m-1]]
      <3> HIDE DEF w
      <3> QED BY <1>4, <2>3
    <2>7. w[m] = next1[w[m-1]]
      <3> HIDE DEF w
      <3> QED BY <1>2, <2>3
    <2> QED BY <2>5, <2>6, <2>7
  <1>6. QED
    BY <1>1, <1>5 DEF Linked, Ring, Pos, After

(* A ring can be listed from any of its members on.                        *)
LEMMA Rotate ==
  ASSUME TypeOK, NEW ord, Ring(ord), NEW s \in Pos
  PROVE  \E r : /\ Ring(r) /\ r[0] = ord[s]
               /\ \A i \in Pos : \E j \in Pos : ord[i] = r[j]
  <1> DEFINE rot(i) == IF i + s < count THEN i + s ELSE i + s - count
             r == [i \in Pos |-> ord[rot(i)]]
  <1>1. count \in Nat /\ count > 0
    BY DEF TypeOK
  <1>2. \A i \in Pos : /\ rot(i) \in Pos /\ After(i) \in Pos /\ Before(i) \in Pos
                      /\ rot(After(i)) = After(rot(i))
                      /\ rot(Before(i)) = Before(rot(i))
    BY <1>1 DEF Pos, After, Before
  <1>3. \A i, j \in Pos : rot(i) = rot(j) => i = j
    BY <1>1 DEF Pos
  <1>4. \A i \in Pos : \E j \in Pos : rot(j) = i
    <2> TAKE i \in Pos
    <2>1. i >= s => i-s \in Pos /\ rot(i-s) = i
      BY <1>1 DEF Pos
    <2>2. i < s => i-s+count \in Pos /\ rot(i-s+count) = i
      BY <1>1 DEF Pos
    <2>3. i >= s \/ i < s
      BY <1>1 DEF Pos
    <2> HIDE DEF rot
    <2> QED BY <2>1, <2>2, <2>3
  <1>5. 0 \in Pos /\ rot(0) = s
    BY <1>1 DEF Pos
  <1> HIDE DEF rot
  <1>6. \A i \in Pos : r[i] = ord[rot(i)]
    OBVIOUS
  <1>7. \A i \in Pos : \E j \in Pos : ord[i] = r[j]
    BY <1>4
  <1>8. r \in [Pos -> Ip]
    BY <1>2 DEF Ring
  <1> HIDE DEF r
  <1>9. \A i, j \in Pos : r[i] = r[j] => i = j
    BY <1>2, <1>3, <1>6 DEF Ring
  <1>10. \A ip \in Ip : count = 1 \/ (\A i \in Pos : r[i] # ip) =>
       next1[ip] = NULL /\ next2[ip] = NULL /\ prev1[ip] = NULL /\ prev2[ip] = NULL
    BY <1>7 DEF Ring
  <1>11. count > 1 => \A i \in Pos : next1[r[i]] = r[After(i)] /\ prev1[r[i]] = r[Before(i)]
    <2>1. count > 1 => \A i \in Pos : /\ next1[ord[i]] = ord[After(i)]
                                     /\ prev1[ord[i]] = ord[Before(i)]
      BY DEF Ring
    <2>2. \A i \in Pos : /\ r[After(i)] = ord[After(rot(i))]
                        /\ r[Before(i)] = ord[Before(rot(i))]
      BY <1>2, <1>6
    <2> QED BY <1>2, <1>6, <2>1, <2>2
  <1>12. \A i \in Pos : /\ ord[After(After(rot(i)))] = r[After(After(i))]
                       /\ ord[Before(Before(rot(i)))] = r[Before(Before(i))]
    BY <1>2, <1>6
  <1>13. count > 2 => \A i \in Pos : /\ next2[r[i]] = r[After(After(i))]
                                    /\ prev2[r[i]] = r[Before(Before(i))]
    <2>1. count > 2 => \A i \in Pos : /\ next2[ord[i]] = ord[After(After(i))]
                                     /\ prev2[ord[i]] = ord[Before(Before(i))]
      BY DEF Ring
    <2>2. \A i \in Pos : rot(i) \in Pos
      BY <1>2
    <2> QED BY <1>6, <1>12, <2>1, <2>2
  <1>14. count = 2 => \A i \in Pos : /\ next2[r[i]] \in {NULL, r[i]}
                                    /\ prev2[r[i]] \in {NULL, r[i]}
    BY <1>2, <1>6 DEF Ring
  <1>15. Ring(r)
    BY <1>8, <1>9, <1>10, <1>11, <1>13, <1>14 DEF Ring
  <1>16. QED
    BY <1>5, <1>6, <1>7, <1>15

(* insert() puts an address that is not in the ring behind a member.       *)
LEMMA InsertPlace ==
  ASSUME TypeOK, NEW ord, Linked(ord), count > 1,
         NEW ip \in Ip, NEW pred, InsertsAfter(ip, pred)
  PROVE  (\A i \in Pos : ord[i] # ip) /\ \E j \in Pos : pred = ord[j]
  <1>1. count \in Nat /\ count > 1 /\ 0 \in Pos
    BY DEF TypeOK, Pos
  <1>2. \A i \in Pos : Walk[i] = ord[i]
    BY WalkFollowsRing
  <1>3. Walk[count] = ord[0]
    BY WalkFollowsRing DEF Linked
  <1>4. PICK k \in 0..count : pred = prev1[Walk[k]]
    BY DEF InsertsAfter
  <1>5. PICK i \in Pos : Walk[k] = ord[i]
    BY <1>1, <1>2, <1>3, <1>4 DEF Pos
  <1>6. pred = ord[Before(i)] /\ Before(i) \in Pos
    BY <1>1, <1>4, <1>5 DEF Linked, Ring, Pos, Before
  <1>7. QED
    BY <1>2, <1>6 DEF InsertsAfter, Members, Pos

(* ip enters the ring between a member pred and its successor.             *)
LEMMA InsertLinks ==
  ASSUME RingAssumption, TypeOK, NEW r, Ring(r), count > 1,
         NEW ip \in Ip, \A i \in Pos : r[i] # ip,
         InsertThird(ip, r[count-1]) \/ InsertFourth(ip, r[count-1])
                                    \/ InsertMore(ip, r[count-1])
  PROVE  TypeOK' /\ \E new : Ring(new)' /\ \A i \in Pos : new[i] = r[i]
  <1> DEFINE c == count
             pred == r[c-1]
             succ == r[0]
  <1>1. c \in Nat /\ c > 1 /\ count' = c + 1 /\ count' \in Nat
    BY DEF TypeOK, InsertThird, InsertFourth, InsertMore
  <1>2. /\ 0 \in Pos /\ 1 \in Pos /\ c-1 \in Pos /\ c-2 \in Pos
        /\ After(c-1) = 0 /\ After(0) = 1 /\ Before(0) = c-1 /\ Before(c-1) = c-2
        /\ c > 2 => c-3 \in Pos /\ Before(c-2) = c-3
    BY <1>1 DEF Pos, After, Before
  <1>3. /\ next1[pred] = succ /\ prev1[pred] = r[c-2]
        /\ next1[succ] = r[1] /\ prev1[succ] = pred
        /\ c > 2 => prev1[r[c-2]] = r[c-3]
    BY <1>1, <1>2 DEF Ring
  <1>4. \A i \in Pos : r[i] \in Ip /\ r[i] # ip
    BY DEF Ring
  <1>5. \A i, j \in Pos : r[i] = r[j] => i = j
    BY DEF Ring
  <1>6. \A x \in Ip : next1'[x] = IF x = ip THEN succ ELSE IF x = pred THEN ip
                                 ELSE next1[x]
    BY <1>1, <1>2, <1>3, <1>5 DEF TypeOK, Pointer, InsertThird, InsertFourth, InsertMore
  <1>7. \A x \in Ip : prev1'[x] = IF x = ip THEN pred ELSE IF x = succ THEN ip
                                 ELSE prev1[x]
    BY <1>1, <1>2, <1>3, <1>5 DEF TypeOK, Pointer, InsertThird, InsertFourth, InsertMore
  <1>8. \A x \in Ip : next2'[x] = IF x = ip THEN r[1] ELSE IF x = pred THEN succ
                                 ELSE IF x = r[c-2] THEN ip ELSE next2[x]
    <2>1. CASE InsertThird(ip, pred)
      BY <1>1, <1>2, <1>3, <1>4, <1>5, <2>1 DEF TypeOK, Pointer, InsertThird
    <2>2. CASE InsertFourth(ip, pred)
      BY <1>1, <1>2, <1>3, <1>4, <1>5, <2>2 DEF TypeOK, Pointer, InsertFourth
    <2>3. CASE InsertMore(ip, pred)
      BY <1>1, <1>2, <1>3, <1>4, <1>5, <2>3 DEF TypeOK, Pointer, InsertMore
    <2> QED BY <2>1, <2>2, <2>3
  <1>9. \A x \in Ip : prev2'[x] = IF x = ip THEN r[c-2] ELSE IF x = succ THEN pred
                                 ELSE IF x = r[1] THEN ip ELSE prev2[x]
    <2>1. CASE InsertThird(ip, pred)
      BY <1>1, <1>2, <1>3, <1>4, <1>5, <2>1 DEF TypeOK, Pointer, InsertThird
    <2>2. CASE InsertFourth(ip, pred)
      BY <1>1, <1>2, <1>3, <1>4, <1>5, <2>2 DEF TypeOK, Pointer, InsertFourth
    <2>3. CASE InsertMore(ip, pred)
      BY <1>1, <1>2, <1>3, <1>4, <1>5, <2>3 DEF TypeOK, Pointer, InsertMore
    <2> QED BY <2>1, <2>2, <2>3

  <1>10. TypeOK'
    BY <1>1, <1>2, <1>4, <1>6, <1>7, <1>8, <1>9 DEF TypeOK, Pointer, InsertThird,
       InsertFourth, InsertMore
  <1>11. PICK new : new = [i \in 0..c |-> IF i = c THEN ip ELSE r[i]]
    OBVIOUS
  <1>12. /\ \A i \in Pos : new[i] = r[i] /\ i \in 0..c /\ i # c
         /\ new[c] = ip
    BY <1>1, <1>11 DEF Pos
  <1>13. \A i, j \in 0..c : new[i] = new[j] => i = j
    BY <1>1, <1>4, <1>5, <1>12 DEF Pos
  <1>14. \A i \in 0..c : /\ next1'[new[i]] = new[IF i = c THEN 0 ELSE i+1]
                        /\ prev1'[new[i]] = new[IF i = 0 THEN c ELSE i-1]
    <2> TAKE i \in 0..c
    <2>1. CASE i = c
      BY <1>1, <1>2, <1>4, <1>6, <1>7, <1>12, <2>1
    <2>2. CASE i = c-1
      BY <1>1, <1>2, <1>3, <1>4, <1>5, <1>6, <1>7, <1>12, <2>2
    <2>3. CASE i = 0
      BY <1>1, <1>2, <1>3, <1>4, <1>5, <1>6, <1>7, <1>12, <2>3
    <2>4. CASE i \in 1..c-2
      <3>1. /\ i \in Pos /\ i+1 \in Pos /\ i-1 \in Pos
            /\ After(i) = i+1 /\ Before(i) = i-1 /\ i # 0 /\ i # c-1
        BY <1>1, <2>4 DEF Pos, After, Before
      <3>2. next1[r[i]] = r[i+1] /\ prev1[r[i]] = r[i-1]
        BY <1>1, <3>1 DEF Ring
      <3>3. r[i] \in Ip /\ r[i] # ip /\ r[i] # pred /\ r[i] # succ
        BY <1>2, <1>4, <1>5, <3>1
      <3> QED BY <1>6, <1>7, <1>12, <3>1, <3>2, <3>3
    <2> QED BY <1>1, <2>1, <2>2, <2>3, <2>4

  <1>15. \A i \in 0..c : next2'[new[i]] = IF i = c THEN new[1]
                                      ELSE IF i = c-1 THEN new[0] ELSE new[i+2]
    <2> TAKE i \in 0..c
    <2>1. CASE i \in {c, c-1, c-2}
      BY <1>1, <1>2, <1>4, <1>5, <1>8, <1>12, <2>1
    <2>2. CASE i \in 0..c-3
      <3>1. /\ i \in Pos /\ i+2 \in Pos /\ c > 2 /\ i \notin {c, c-1, c-2}
            /\ After(After(i)) = i+2
        BY <1>1, <2>2 DEF Pos, After
      <3>2. next2[r[i]] = r[i+2]
        BY <3>1 DEF Ring
      <3>3. r[i] \in Ip /\ r[i] \notin {ip, pred, r[c-2]}
        BY <1>2, <1>4, <1>5, <3>1
      <3> QED BY <1>8, <1>12, <3>1, <3>2, <3>3
    <2> QED BY <1>1, <2>1, <2>2
  <1>16. \A i \in 0..c : prev2'[new[i]] = IF i = 0 THEN new[c-1]
                                      ELSE IF i = 1 THEN new[c] ELSE new[i-2]
    <2> TAKE i \in 0..c
    <2>1. CASE i \in {0, 1, c}
      BY <1>1, <1>2, <1>4, <1>5, <1>9, <1>12, <2>1
    <2>2. CASE i \in 2..c-1
      <3>1. /\ i \in Pos /\ i-2 \in Pos /\ c > 2 /\ i \notin {0, 1, c}
            /\ Before(Before(i)) = i-2
        BY <1>1, <2>2 DEF Pos, Before
      <3>2. prev2[r[i]] = r[i-2]
        BY <3>1 DEF Ring
      <3>3. r[i] \in Ip /\ r[i] \notin {ip, succ, r[1]}
        BY <1>2, <1>4, <1>5, <3>1
      <3> QED BY <1>9, <1>12, <3>1, <3>2, <3>3
    <2> QED BY <1>1, <2>1, <2>2
  <1>17. \A x \in Ip : (\A i \in 0..c : new[i] # x) =>
       next1'[x] = NULL /\ next2'[x] = NULL /\ prev1'[x] = NULL /\ prev2'[x] = NULL
    <2> SUFFICES ASSUME NEW x \in Ip, \A i \in 0..c : new[i] # x
                 PROVE  next1'[x] = NULL /\ next2'[x] = NULL /\ prev1'[x] = NULL
                                        /\ prev2'[x] = NULL
      OBVIOUS
    <2>1. x # ip /\ \A i \in Pos : r[i] # x
      BY <1>1, <1>12
    <2>2. next1[x] = NULL /\ next2[x] = NULL /\ prev1[x] = NULL /\ prev2[x] = NULL
      BY <2>1 DEF Ring
    <2> QED BY <1>2, <1>6, <1>7, <1>8, <1>9, <2>1, <2>2
  <1>18. Ring(new)'
    <2>1. Pos' = 0..c /\ new \in [Pos' -> Ip]
      BY <1>1, <1>4, <1>11 DEF Pos
    <2>2. \A i \in 0..c : next1'[new[i]] = new[After(i)'] /\ prev1'[new[i]] = new[Before(i)']
      BY <1>1, <1>14 DEF After, Before
    <2>3. \A i \in 0..c : /\ next2'[new[i]] = new[After(After(i))']
                         /\ prev2'[new[i]] = new[Before(Before(i))']
      BY <1>1, <1>15, <1>16 DEF After, Before
    <2>4. count' > 2
      BY <1>1
    <2> QED BY <1>1, <1>13, <1>17, <2>1, <2>2, <2>3, <2>4 DEF Ring
  <1>19. QED
    BY <1>10, <1>12, <1>18

(* ip, the last of r, leaves the ring.                                     *)
LEMMA LeaveLinks ==
  ASSUME RingAssumption, TypeOK, NEW r, Ring(r), count > 2,
         Leave(r[count-1])
  PROVE  TypeOK' /\ \E new : Ring(new)' /\ \A i \in 0..count-2 : i \in Pos' /\ new[i] = r[i]
  <1> DEFINE c == count
             ip == r[c-1]
  <1>1. c \in Nat /\ c > 2 /\ count' = c - 1 /\ count' \in Nat \ {0}
    BY DEF TypeOK, Leave
  <1>2. /\ {0, 1, c-1, c-2, c-3} \subseteq Pos
        /\ After(c-1) = 0 /\ After(0) = 1 /\ Before(c-1) = c-2 /\ Before(c-2) = c-3
        /\ c-1 # 0 /\ c-1 # 1 /\ c-1 # c-2 /\ c-1 # c-3
    BY <1>1 DEF Pos, After, Before
  <1>3. /\ next1[ip] = r[0] /\ next2[ip] = r[1]
        /\ prev1[ip] = r[c-2] /\ prev1[r[c-2]] = r[c-3]
    BY <1>1, <1>2 DEF Ring
  <1>4. \A i \in Pos : r[i] \in Ip
    BY DEF Ring
  <1>5. \A i, j \in Pos : r[i] = r[j] => i = j
    BY DEF Ring
  <1>6. \A x \in Ip : next1'[x] = IF x = ip THEN NULL ELSE IF x = r[c-2] THEN r[0]
                                 ELSE next1[x]
    BY <1>1, <1>2, <1>3, <1>4, <1>5 DEF TypeOK, Pointer, Leave
  <1>7. \A x \in Ip : prev1'[x] = IF x = ip THEN NULL ELSE IF x = r[0] THEN r[c-2]
                                 ELSE prev1[x]
    BY <1>1, <1>2, <1>3, <1>4, <1>5 DEF TypeOK, Pointer, Leave
  <1>8. \A x \in Ip : next2'[x] = IF x = ip THEN NULL ELSE IF x = r[c-3] THEN r[0]
                                 ELSE IF x = r[c-2] THEN r[1] ELSE next2[x]
    BY <1>1, <1>2, <1>3, <1>4, <1>5 DEF TypeOK, Pointer, Leave
  <1>9. \A x \in Ip : prev2'[x] = IF x = ip THEN NULL ELSE IF x = r[1] THEN r[c-2]
                                 ELSE IF x = r[0] THEN r[c-3] ELSE prev2[x]
    BY <1>1, <1>2, <1>3, <1>4, <1>5 DEF TypeOK, Pointer, Leave
  <1>10. TypeOK'
    BY <1>1, <1>2, <1>4, <1>6, <1>7, <1>8, <1>9 DEF TypeOK, Pointer, Leave
  <1>11. PICK new : new = [i \in 0..c-2 |-> r[i]]
    OBVIOUS
  <1>12. \A i \in 0..c-2 : new[i] = r[i] /\ i \in Pos /\ i # c-1 /\ new[i] # ip
    BY <1>1, <1>2, <1>5, <1>11 DEF Pos
  <1>13. 0 \in 0..c-2 /\ 1 \in 0..c-2 /\ c-2 \in 0..c-2 /\ c-3 \in 0..c-2
    BY <1>1
  <1>14. \A i \in 0..c-2 : /\ next1'[new[i]] = new[IF i = c-2 THEN 0 ELSE i+1]
                          /\ prev1'[new[i]] = new[IF i = 0 THEN c-2 ELSE i-1]
    <2> TAKE i \in 0..c-2
    <2>1. CASE i = c-2
      <3>1. next1'[new[i]] = new[0]
        BY <1>2, <1>4, <1>6, <1>12, <1>13, <2>1
      <3>2. prev1'[new[i]] = new[i-1] /\ i # 0
        BY <1>1, <1>2, <1>3, <1>4, <1>5, <1>7, <1>12, <1>13, <2>1
      <3> QED BY <2>1, <3>1, <3>2
    <2>2. CASE i = 0
      <3>1. next1[r[0]] = r[1]
        BY <1>1, <1>2 DEF Ring
      <3>2. next1'[new[i]] = new[1] /\ i # c-2
        BY <1>1, <1>2, <1>4, <1>5, <1>6, <1>12, <1>13, <2>2, <3>1
      <3>3. prev1'[new[i]] = new[c-2]
        BY <1>2, <1>4, <1>5, <1>7, <1>12, <1>13, <2>2
      <3> QED BY <2>2, <3>2, <3>3
    <2>3. CASE i \in 1..c-3
      <3>1. /\ i \in Pos /\ i+1 \in 0..c-2 /\ i-1 \in 0..c-2
            /\ After(i) = i+1 /\ Before(i) = i-1 /\ i # 0 /\ i # c-2
        BY <1>1, <2>3 DEF Pos, After, Before
      <3>2. next1[r[i]] = r[i+1] /\ prev1[r[i]] = r[i-1]
        BY <1>1, <3>1 DEF Ring
      <3>3. r[i] \in Ip /\ r[i] \notin {ip, r[0], r[c-2]}
        BY <1>2, <1>4, <1>5, <1>12, <3>1
      <3> QED BY <1>6, <1>7, <1>12, <3>1, <3>2, <3>3
    <2> QED BY <1>1, <2>1, <2>2, <2>3
  <1>15. c > 3 => \A i \in 0..c-2 :
           next2'[new[i]] = IF i = c-2 THEN new[1] ELSE IF i = c-3 THEN new[0] ELSE new[i+2]
    <2> SUFFICES ASSUME c > 3, NEW i \in 0..c-2
                 PROVE  next2'[new[i]] = IF i = c-2 THEN new[1]
                                         ELSE IF i = c-3 THEN new[0] ELSE new[i+2]
      OBVIOUS
    <2>1. CASE i \in {c-2, c-3}
      BY <1>1, <1>2, <1>4, <1>5, <1>8, <1>12, <1>13, <2>1
    <2>2. CASE i \in 0..c-4
      <3>1. /\ i \in Pos /\ i+2 \in 0..c-2 /\ i \notin {c-2, c-3}
            /\ After(After(i)) = i+2
        BY <1>1, <2>2 DEF Pos, After
      <3>2. next2[r[i]] = r[i+2]
        BY <1>1, <3>1 DEF Ring
      <3>3. r[i] \in Ip /\ r[i] \notin {ip, r[c-2], r[c-3]}
        BY <1>2, <1>4, <1>5, <1>12, <3>1
      <3> QED BY <1>8, <1>12, <3>1, <3>2, <3>3
    <2> QED BY <1>1, <2>1, <2>2
  <1>16. c > 3 => \A i \in 0..c-2 :
           prev2'[new[i]] = IF i = 0 THEN new[c-3] ELSE IF i = 1 THEN new[c-2] ELSE new[i-2]
    <2> SUFFICES ASSUME c > 3, NEW i \in 0..c-2
                 PROVE  prev2'[new[i]] = IF i = 0 THEN new[c-3]
                                         ELSE IF i = 1 THEN new[c-2] ELSE new[i-2]
      OBVIOUS
    <2>1. CASE i \in {0, 1}
      BY <1>1, <1>2, <1>4, <1>5, <1>9, <1>12, <1>13, <2>1
    <2>2. CASE i \in 2..c-2
      <3>1. /\ i \in Pos /\ i-2 \in 0..c-2 /\ i \notin {0, 1}
            /\ Before(Before(i)) = i-2
        BY <1>1, <2>2 DEF Pos, Before
      <3>2. prev2[r[i]] = r[i-2]
        BY <1>1, <3>1 DEF Ring
      <3>3. r[i] \in Ip /\ r[i] \notin {ip, r[0], r[1]}
        BY <1>2, <1>4, <1>5, <1>12, <3>1
      <3> QED BY <1>9, <1>12, <3>1, <3>2, <3>3
    <2> QED BY <1>1, <2>1, <2>2
  <1>17. c = 3 => \A i \in 0..c-2 : next2'[new[i]] = new[i] /\ prev2'[new[i]] = new[i]
    BY <1>1, <1>2, <1>4, <1>5, <1>8, <1>9, <1>12, <1>13
  <1>18. \A x \in Ip : (\A i \in 0..c-2 : new[i] # x) =>
       next1'[x] = NULL /\ next2'[x] = NULL /\ prev1'[x] = NULL /\ prev2'[x] = NULL
    <2> SUFFICES ASSUME NEW x \in Ip, \A i \in 0..c-2 : new[i] # x
                 PROVE  next1'[x] = NULL /\ next2'[x] = NULL /\ prev1'[x] = NULL
                                        /\ prev2'[x] = NULL
      OBVIOUS
    <2>1. x = ip \/ \A i \in Pos : r[i] # x
      BY <1>1, <1>12 DEF Pos
    <2>2. x # ip => next1[x] = NULL /\ next2[x] = NULL /\ prev1[x] = NULL /\ prev2[x] = NULL
      BY <2>1 DEF Ring
    <2> QED BY <1>2, <1>6, <1>7, <1>8, <1>9, <2>1, <2>2
  <1>19. Ring(new)'
    <2>1. Pos' = 0..c-2 /\ new \in [Pos' -> Ip]
      BY <1>1, <1>4, <1>11 DEF Pos
    <2>2. \A i \in 0..c-2 : next1'[new[i]] = new[After(i)'] /\ prev1'[new[i]] = new[Before(i)']
      BY <1>1, <1>14 DEF After, Before
    <2>3. c > 3 => \A i \in 0..c-2 : /\ next2'[new[i]] = new[After(After(i))']
                                    /\ prev2'[new[i]] = new[Before(Before(i))']
      BY <1>1, <1>15, <1>16 DEF After, Before
    <2>4. \A i, j \in 0..c-2 : new[i] = new[j] => i = j
      BY <1>5, <1>12
    <2>5. (count' > 2 => c > 3) /\ (count' = 2 => c = 3) /\ count' # 1
      BY <1>1
    <2> QED BY <1>17, <1>18, <2>1, <2>2, <2>3, <2>4, <2>5 DEF Ring
  <1>20. QED
    BY <1>1, <1>10, <1>12, <1>19 DEF Pos

(* The list of IInv can be turned so that the introducer comes first, as   *)
(* the walk of the code has it.                                            *)
LEMMA FromIntroducer ==
  ASSUME IInv
  PROVE  \E ord : Linked(ord)
  <1>1. PICK ord : Ring(ord) /\ \E i \in Pos : ord[i] = Introducer
    BY DEF IInv
  <1>2. PICK i \in Pos : ord[i] = Introducer
    BY <1>1
  <1>3. PICK r : /\ Ring(r) /\ r[0] = ord[i]
                 /\ \A k \in Pos : \E j \in Pos : ord[k] = r[j]
    <2>1. TypeOK
      BY DEF IInv
    <2> QED BY <1>1, <1>2, <2>1, Rotate, Zenon
  <1>4. QED
    BY <1>2, <1>3 DEF Linked

(* The list can be turned so that the member where insert() or leave()     *)
(* works comes last.                                                       *)
LEMMA RotateToLast ==
  ASSUME TypeOK, NEW ord, Ring(ord), count > 1, NEW j \in Pos
  PROVE  \E r : Ring(r) /\ r[count-1] = ord[j] /\ SameMembers(ord, r)
  <1>1. count \in Nat /\ count > 1
    BY DEF TypeOK
  <1>2. After(j) \in Pos /\ Before(After(j)) = j /\ 0 \in Pos /\ Before(0) = count-1
    BY <1>1 DEF Pos, After, Before
  <1>3. PICK r : /\ Ring(r) /\ r[0] = ord[After(j)]
                 /\ \A i \in Pos : \E k \in Pos : ord[i] = r[k]
    BY <1>2, Rotate
  <1>4. prev1[r[0]] = r[count-1] /\ prev1[ord[After(j)]] = ord[j]
    BY <1>1, <1>2, <1>3 DEF Ring
  <1>5. \A i \in Pos : \E k \in Pos : r[i] = ord[k]
    <2> SUFFICES ASSUME NEW i \in Pos, \A k \in Pos : ord[k] # r[i]
                 PROVE  FALSE
      OBVIOUS
    <2>1. r[i] \in Ip /\ next1[r[i]] = NULL
      BY <1>3 DEF Ring
    <2>2. After(i) \in Pos
      BY <1>1 DEF Pos, After
    <2>3. next1[r[i]] = r[After(i)] /\ r[After(i)] \in Ip
      BY <1>1, <1>3, <2>2 DEF Ring
    <2> QED BY <2>1, <2>2, <2>3, RingAssumption
  <1>6. QED
    BY <1>3, <1>4, <1>5 DEF SameMembers

(* The branch of insert() for the second node makes a ring of two.         *)
LEMMA InsertSecondStep ==
  ASSUME RingAssumption, IInv, NEW ip \in Ip, InsertSecond(ip)
  PROVE  IInv'
  <1>1. PICK ord : Linked(ord)
    BY FromIntroducer
  <1>2. count = 1 /\ count' = 2 /\ Pos = {0} /\ Pos' = {0, 1} /\ TypeOK
    BY DEF InsertSecond, IInv, Pos
  <1>3. Members = {Introducer} /\ ip # Introducer
    BY <1>1, <1>2, WalkFollowsRing DEF Members, Linked, InsertSecond, Pos
  <1>4. \A x \in Ip : next1[x] = NULL /\ next2[x] = NULL /\ prev1[x] = NULL /\ prev2[x] = NULL
    BY <1>1, <1>2 DEF Linked, Ring
  <1>5. PICK new : new = [i \in {0, 1} |-> IF i = 0 THEN Introducer ELSE ip]
    OBVIOUS
  <1>6. Ring(new)'
    BY <1>2, <1>3, <1>4, <1>5 DEF Ring, After, Before, InsertSecond, TypeOK, Pointer,
       RingAssumption
  <1>7. TypeOK'
    BY <1>2 DEF TypeOK, Pointer, InsertSecond, RingAssumption
  <1>8. QED
    BY <1>2, <1>5, <1>6, <1>7 DEF IInv

(* The branches of insert() for the third, the fourth and any further node *)
(* turn a ring into a ring.                                                *)
LEMMA InsertLaterStep ==
  ASSUME RingAssumption, IInv, NEW ip \in Ip, NEW pred \in Ip,
         InsertThird(ip, pred) \/ InsertFourth(ip, pred) \/ InsertMore(ip, pred)
  PROVE  IInv'
  <1>1. PICK ord : Linked(ord)
    BY FromIntroducer
  <1>2. count \in Nat /\ count > 1 /\ TypeOK /\ count' = count + 1 /\ InsertsAfter(ip, pred)
    BY DEF IInv, TypeOK, InsertThird, InsertFourth, InsertMore
  <1>3. PICK j \in Pos : pred = ord[j]
    BY <1>1, <1>2, InsertPlace
  <1>4. PICK r : Ring(r) /\ r[count-1] = ord[j] /\ SameMembers(ord, r)
    BY <1>1, <1>2, <1>3, RotateToLast DEF Linked
  <1>5. \A i \in Pos : r[i] # ip
    BY <1>1, <1>2, <1>4, InsertPlace DEF SameMembers
  <1>6. PICK k \in Pos : r[k] = Introducer
    BY <1>1, <1>2, <1>4 DEF Linked, Pos, SameMembers
  <1>7. TypeOK' /\ \E new : Ring(new)' /\ \A i \in Pos : new[i] = r[i]
    BY <1>2, <1>3, <1>4, <1>5, InsertLinks
  <1>8. Pos \subseteq Pos'
    BY <1>2 DEF Pos
  <1>9. QED
    BY <1>6, <1>7, <1>8 DEF IInv

(* leave() turns a ring into a ring.                                       *)
LEMMA LeaveStep ==
  ASSUME RingAssumption, IInv, NEW ip \in Ip, Leave(ip)
  PROVE  IInv'
  <1>1. PICK ord : Linked(ord)
    BY FromIntroducer
  <1>2. count \in Nat /\ count > 2 /\ TypeOK /\ ip # Introducer /\ ip \in Members
    BY DEF IInv, TypeOK, Leave
  <1>3. PICK j \in Pos : ip = ord[j]
    BY <1>1, <1>2, WalkFollowsRing DEF Members, Pos
  <1>4. PICK r : Ring(r) /\ r[count-1] = ord[j] /\ SameMembers(ord, r)
    BY <1>1, <1>2, <1>3, RotateToLast DEF Linked
  <1>5. PICK k \in Pos : r[k] = Introducer
    BY <1>1, <1>2, <1>4 DEF Linked, Pos, SameMembers
  <1>6. k \in 0..count-2
    BY <1>2, <1>3, <1>4, <1>5 DEF Pos
  <1>7. TypeOK' /\ \E new : Ring(new)' /\ \A i \in 0..count-2 : i \in Pos' /\ new[i] = r[i]
    BY <1>2, <1>3, <1>4, LeaveLinks
  <1>8. QED
    BY <1>5, <1>6, <1>7 DEF IInv

(* The pointers that insert() and leave() write always form a ring that    *)
(* the introducer is part of.                                              *)
THEOREM Invariance == Spec => []IInv
  <1> USE RingAssumption
  <1>1. Init => IInv
    <2> SUFFICES ASSUME Init PROVE IInv
      OBVIOUS
    <2>1. PICK ord : ord = [i \in {0} |-> Introducer]
      OBVIOUS
    <2>2. count = 1 /\ Pos = {0}
      BY DEF Init, Pos
    <2>3. Ring(ord)
      BY <2>1, <2>2 DEF Init, Ring, RingAssumption
    <2>4. TypeOK
      BY DEF Init, TypeOK, Pointer, RingAssumption
    <2> QED BY <2>1, <2>2, <2>3, <2>4 DEF IInv
  <1>2. IInv /\ [Next]_vars => IInv'
    <2> SUFFICES ASSUME IInv, [Next]_vars PROVE IInv'
      OBVIOUS
    <2>1. ASSUME NEW ip \in Ip, InsertSecond(ip) PROVE IInv'
      BY <2>1, InsertSecondStep
    <2>2. ASSUME NEW ip \in Ip, NEW pred \in Ip,
                 InsertThird(ip, pred) \/ InsertFourth(ip, pred) \/ InsertMore(ip, pred)
          PROVE  IInv'
      BY <2>2, InsertLaterStep
    <2>3. ASSUME NEW ip \in Ip, Leave(ip) PROVE IInv'
      BY <2>3, LeaveStep
    <2>4. CASE UNCHANGED vars
      <3>1. PICK ord : Ring(ord) /\ \E i \in Pos : ord[i] = Introducer
        BY DEF IInv
      <3>2. Ring(ord)' /\ Pos' = Pos
        BY <2>4, <3>1 DEF vars, Ring, Pos, After, Before
      <3>3. TypeOK'
        BY <2>4 DEF vars, TypeOK, IInv
      <3> QED BY <3>1, <3>2, <3>3 DEF IInv
    <2> QED BY <2>1, <2>2, <2>3, <2>4 DEF Next, Insert
  <1>3. QED
    BY <1>1, <1>2, PTL DEF Spec

(* insert() and leave() never write anything but addresses and NULL, and   *)
(* never count down to an empty ring.                                      *)
THEOREM TypeCorrect == Spec => []TypeOK
  <1>1. IInv => TypeOK
    BY DEF IInv
  <1>2. QED
    BY <1>1, Invariance, PTL

(* After any calls of insert() and leave() the walk of `count` steps along *)
(* next1 meets every member once, the other pointers agree with it, and    *)
(* addresses outside the ring have no pointers.                            *)
THEOREM RingCorrect == Spec => []RingOK
  <1>1. IInv => RingOK
    <2> SUFFICES ASSUME IInv PROVE RingOK
      OBVIOUS
    <2>1. PICK ord : Linked(ord)
      BY FromIntroducer
    <2>2. \A i \in Pos : Walk[i] = ord[i]
      BY <2>1, WalkFollowsRing DEF IInv
    <2>3. \A i \in Pos : After(i) \in Pos /\ Before(i) \in Pos
      BY DEF Pos, After, Before, IInv, TypeOK
    <2>4. Members = {ord[i] : i \in Pos}
      BY <2>2 DEF Members, Pos
    <2> QED BY <2>1, <2>2, <2>3, <2>4 DEF RingOK, Linked, Ring, Pos
  <1>2. QED
    BY <1>1, Invariance, PTL

(* A step along next1 from a member, which is an address with a pointer,   *)
(* leads to a member: a walk stays in the ring.                            *)
LEMMA MembersLinked ==
  ASSUME RingAssumption, IInv, count > 1
  PROVE  /\ next1[Introducer] \in Ip
         /\ \A ip \in Ip : next1[ip] # NULL => next1[ip] \in Ip /\ next1[next1[ip]] \in Ip
  <1>1. PICK ord : Linked(ord)
    BY FromIntroducer
  <1>2. \A i \in Pos : After(i) \in Pos /\ next1[ord[i]] = ord[After(i)] /\ ord[i] \in Ip
    <2>1. \A i \in Pos : After(i) \in Pos
      BY DEF Pos, After, IInv, TypeOK
    <2>2. \A i \in Pos : next1[ord[i]] = ord[After(i)] /\ ord[i] \in Ip
      BY <1>1 DEF Linked, Ring
    <2> QED BY <2>1, <2>2
  <1>3. 0 \in Pos
    BY DEF Pos, IInv, TypeOK
  <1>4. ASSUME NEW ip \in Ip, next1[ip] # NULL PROVE \E i \in Pos : ord[i] = ip
    BY <1>1, <1>4 DEF Linked, Ring
  <1>5. QED
    BY <1>1, <1>2, <1>3, <1>4 DEF Linked

\* In a ring of one the introducer is the only member.
LEMMA AloneInRing ==
  ASSUME IInv, count = 1
  PROVE  Members = {Introducer}
  <1>1. PICK ord : Linked(ord)
    BY FromIntroducer
  <1>2. QED
    BY <1>1, WalkFollowsRing DEF Members, Linked, Pos, IInv

(* The walk is a path along next1 that begins at the introducer and does   *)
(* not come back to it before all members have been met.                   *)
LEMMA WalkIsPath ==
  ASSUME RingAssumption, IInv
  PROVE  /\ Walk[0] = Introducer
         /\ \A i \in 0..count-1 : Walk[i] \in Ip
         /\ count > 1 => \A i \in 0..count-1 : Walk[i+1] = next1[Walk[i]]
         /\ \A i \in 1..count-1 : Walk[i] # Introducer
  <1>1. PICK ord : Linked(ord)
    BY FromIntroducer
  <1>2. count \in Nat \ {0} /\ TypeOK
    BY DEF IInv, TypeOK
  <1>3. /\ \A i \in Pos : Walk[i] = ord[i]
        /\ count > 1 => Walk[count] = Introducer
    BY <1>1, <1>2, WalkFollowsRing
  <1>4. /\ ord[0] = Introducer /\ \A i \in Pos : ord[i] \in Ip
        /\ \A i \in Pos : ord[i] = ord[0] => i = 0
        /\ count > 1 => \A i \in Pos : next1[ord[i]] = ord[After(i)]
    BY <1>1, <1>2 DEF Linked, Ring, Pos
  <1>5. \A i \in Pos : IF i = count-1 THEN After(i) = 0 ELSE After(i) = i+1 /\ i+1 \in Pos
    BY <1>2 DEF Pos, After
  <1>6. \A i \in Pos : count > 1 => Walk[i+1] = next1[Walk[i]]
    BY <1>2, <1>3, <1>4, <1>5 DEF Pos
  <1> QED
    BY <1>2, <1>3, <1>4, <1>6 DEF Pos

(* How the positions of the four neighbours of a member lie.               *)
LEMMA Positions ==
  ASSUME TypeOK, count > 1, NEW i \in Pos
  PROVE  /\ After(i) \in Pos /\ Before(i) \in Pos
         /\ After(Before(i)) = i /\ Before(After(i)) = i /\ After(i) # i
         /\ count = 2 => After(i) = Before(i)
         /\ count > 2 => After(i) # Before(i) /\ After(After(i)) # i /\ Before(Before(i)) # i
         /\ count > 2 => After(After(i)) # After(i) /\ Before(Before(i)) # Before(i)
         /\ count = 3 => After(After(i)) = Before(i) /\ Before(Before(i)) = After(i)
         /\ count > 3 => After(After(i)) # Before(i) /\ Before(Before(i)) # After(i)
         /\ count = 4 => After(After(i)) = Before(Before(i))
         /\ count > 4 => After(After(i)) # Before(Before(i))
  BY DEF Pos, After, Before, TypeOK

\* Another name makes a set of addresses one larger.
LEMMA OneMore ==
  ASSUME NEW k \in Nat, NEW S, IsFiniteSet(S), Cardinality(S) = k, NEW a, a \notin S
  PROVE  IsFiniteSet(S \cup {a}) /\ Cardinality(S \cup {a}) = k + 1
  BY FS_AddElement

(* The neighbours of a member are one, two, three or four different nodes, *)
(* by the size of the ring.                                                *)
LEMMA NeighboursByPosition ==
  ASSUME RingAssumption, IInv, count > 1, NEW ord, Linked(ord), NEW i \in Pos
  PROVE  /\ Neighbours(ord[i]) = IF count = 2 THEN {ord[After(i)]} ELSE
              {ord[After(i)], ord[Before(i)], ord[After(After(i))], ord[Before(Before(i))]} \ {ord[i]}
         /\ Cardinality(Neighbours(ord[i])) = IF count > 4 THEN 4 ELSE count - 1
  <1> DEFINE a == ord[After(i)]
             b == ord[Before(i)]
             aa == ord[After(After(i))]
             bb == ord[Before(Before(i))]
  <1>0. count \in Nat /\ TypeOK
    BY DEF IInv, TypeOK
  <1>1. /\ After(i) \in Pos /\ Before(i) \in Pos
        /\ After(After(i)) \in Pos /\ Before(Before(i)) \in Pos
    BY <1>0, Positions
  <1>2. \A j \in Pos : ord[j] \in Ip /\ ord[j] # NULL
    BY DEF Linked, Ring, RingAssumption
  <1>3. \A j, k \in Pos : ord[j] = ord[k] => j = k
    BY DEF Linked, Ring
  <1>4. next1[ord[i]] = a /\ prev1[ord[i]] = b
    BY DEF Linked, Ring
  <1>5. count > 2 => next2[ord[i]] = aa /\ prev2[ord[i]] = bb
    BY DEF Linked, Ring
  <1>6. count = 2 => {next2[ord[i]], prev2[ord[i]]} \subseteq {NULL, ord[i]}
    BY DEF Linked, Ring
  <1>7. a # ord[i] /\ b # ord[i]
    BY <1>0, <1>1, <1>3, Positions
  <1>8. CASE count = 2
    <2>1. a = b
      BY <1>0, <1>8, Positions
    <2>2. Neighbours(ord[i]) = {a}
      BY <1>1, <1>2, <1>4, <1>6, <1>7, <1>8, <2>1 DEF Neighbours
    <2> QED BY <2>2, <1>8, FS_Singleton
  <1>9. CASE count > 2
    <2>1. Neighbours(ord[i]) = {a, b, aa, bb} \ {ord[i]}
      BY <1>1, <1>2, <1>4, <1>5, <1>9 DEF Neighbours
    <2>2. a # b /\ aa # ord[i] /\ bb # ord[i] /\ aa # a /\ bb # b
      BY <1>0, <1>1, <1>3, <1>9, Positions
    <2>3. IsFiniteSet({a}) /\ Cardinality({a}) = 1
      BY FS_Singleton
    <2>4. IsFiniteSet({a} \cup {b}) /\ Cardinality({a} \cup {b}) = 2
      BY <2>2, <2>3, OneMore
    <2>5. CASE count = 3
      <3>1. aa = b /\ bb = a
        BY <1>0, <2>5, Positions
      <3>2. Neighbours(ord[i]) = {a} \cup {b}
        BY <2>1, <1>7, <3>1
      <3> QED BY <2>1, <2>4, <2>5, <3>2
    <2>6. CASE count > 3
      <3>1. aa # b /\ bb # a
        BY <1>0, <1>1, <1>3, <2>6, Positions
      <3>2. /\ IsFiniteSet(({a} \cup {b}) \cup {aa})
            /\ Cardinality(({a} \cup {b}) \cup {aa}) = 3
        BY <2>2, <2>4, <3>1, OneMore
      <3>3. CASE count = 4
        <4>1. aa = bb
          BY <1>0, <3>3, Positions
        <4>2. Neighbours(ord[i]) = ({a} \cup {b}) \cup {aa}
          BY <2>1, <2>2, <1>7, <4>1
        <4> QED BY <2>1, <3>2, <3>3, <4>2
      <3>4. CASE count > 4
        <4>1. aa # bb
          BY <1>0, <1>1, <1>3, <3>4, Positions
        <4>2. Cardinality((({a} \cup {b}) \cup {aa}) \cup {bb}) = 4
          BY <2>2, <3>1, <3>2, <4>1, OneMore
        <4>3. Neighbours(ord[i]) = (({a} \cup {b}) \cup {aa}) \cup {bb}
          BY <2>1, <2>2, <1>7
        <4> QED BY <2>1, <3>4, <4>2, <4>3
      <3> QED BY <1>0, <2>6, <3>3, <3>4
    <2> QED BY <1>0, <1>9, <2>5, <2>6
  <1> QED BY <1>0, <1>8, <1>9

(* Two nodes on both sides of a new one were neighbours before it came.    *)
LEMMA OlderNeighbours ==
  ASSUME TypeOK, count > 1, count' = count + 1, NEW r, Ring(r), NEW new, Ring(new)',
         \A k \in Pos : new[k] = r[k],
         NEW i \in Pos, NEW j \in Pos, r[j] \in Neighbours(r[i])'
  PROVE  r[j] \in Neighbours(r[i])
  <1> DEFINE c == count
  <1>1. /\ c \in Nat /\ c > 1 /\ c' = c + 1 /\ i \in 0..c-1 /\ j \in 0..c-1
        /\ Pos = 0..c-1 /\ Pos' = 0..c /\ i \in Pos' /\ j \in Pos' /\ c' > 2
    BY DEF Pos, TypeOK
  <1>2. /\ next1'[r[i]] = new[After(i)'] /\ next2'[r[i]] = new[After(After(i))']
        /\ prev1'[r[i]] = new[Before(i)'] /\ prev2'[r[i]] = new[Before(Before(i))']
    BY <1>1 DEF Ring
  <1>3. /\ next1[r[i]] = r[After(i)] /\ prev1[r[i]] = r[Before(i)]
        /\ c > 2 => next2[r[i]] = r[After(After(i))] /\ prev2[r[i]] = r[Before(Before(i))]
    BY <1>1 DEF Ring
  <1>4. \A k \in Pos' : new[k] = r[j] => k = j
    BY <1>1 DEF Ring
  <1>5. /\ After(i)' \in Pos' /\ After(After(i))' \in Pos'
        /\ Before(i)' \in Pos' /\ Before(Before(i))' \in Pos'
    BY <1>1 DEF After, Before
  <1>6. r[j] # NULL /\ r[j] # r[i] /\ j \in {After(i)', After(After(i))', Before(i)', Before(Before(i))'}
    BY <1>2, <1>4, <1>5 DEF Neighbours
  <1>7. \/ j = After(i) \/ j = Before(i)
        \/ c > 2 /\ (j = After(After(i)) \/ j = Before(Before(i)))
    BY <1>1, <1>6 DEF After, Before
  <1> QED BY <1>3, <1>6, <1>7 DEF Neighbours

(* In rings of any size a join brings no two older nodes together.         *)
THEOREM JoinsOnlySeparate == Spec => JoinsSeparate
  <1>1. ASSUME IInv, Next, count' > count, NEW a \in Members, NEW b \in Members,
               b \in Neighbours(a)'
        PROVE  b \in Neighbours(a)
    <2>1. PICK ord : Linked(ord)
      BY <1>1, FromIntroducer
    <2>2. count \in Nat \ {0} /\ TypeOK
      BY <1>1 DEF IInv, TypeOK
    <2>3. Members = {ord[i] : i \in Pos}
      BY <2>1, <2>2, WalkFollowsRing DEF Members, Pos
    <2>4. PICK ip \in Ip : Insert(ip)
      BY <1>1, <2>2 DEF Next, Leave
    <2>5. CASE InsertSecond(ip)
      <3>1. a = b
        BY <1>1, <2>5, AloneInRing DEF InsertSecond
      <3> QED BY <1>1, <3>1 DEF Neighbours
    <2>6. CASE ~InsertSecond(ip)
      <3>1. PICK pred \in Ip :
              InsertThird(ip, pred) \/ InsertFourth(ip, pred) \/ InsertMore(ip, pred)
        BY <2>4, <2>6 DEF Insert
      <3>2. count > 1 /\ count' = count + 1 /\ InsertsAfter(ip, pred)
        BY <2>2, <3>1 DEF InsertThird, InsertFourth, InsertMore
      <3>3. PICK j \in Pos : pred = ord[j]
        BY <2>1, <2>2, <3>2, InsertPlace
      <3>4. PICK r : Ring(r) /\ r[count-1] = ord[j] /\ SameMembers(ord, r)
        BY <2>1, <2>2, <3>2, <3>3, RotateToLast DEF Linked
      <3>5. \A i \in Pos : r[i] # ip
        BY <2>1, <2>2, <3>2, <3>4, InsertPlace DEF SameMembers
      <3>6. PICK new : Ring(new)' /\ \A i \in Pos : new[i] = r[i]
        BY <2>2, <3>1, <3>2, <3>3, <3>4, <3>5, InsertLinks, RingAssumption
      <3>7. \A x \in Members : \E i \in Pos : x = r[i]
        BY <2>3, <3>4 DEF SameMembers
      <3>8. PICK i \in Pos : a = r[i]
        BY <1>1, <3>7
      <3>9. PICK k \in Pos : b = r[k]
        BY <1>1, <3>7
      <3> QED BY <1>1, <2>2, <3>2, <3>4, <3>6, <3>8, <3>9, OlderNeighbours
    <2> QED BY <2>5, <2>6
  <1>2. IInv /\ [Next]_vars => [count' > count =>
          \A a, b \in Members : b \in Neighbours(a)' => b \in Neighbours(a)]_vars
    BY <1>1
  <1>3. QED
    BY <1>2, Invariance, PTL DEF Spec, JoinsSeparate

(* Watching is mutual in rings of any size: whoever is sent somebody as a  *)
(* neighbour is sent to it as well, and it is four as soon as there are    *)
(* four others.                                                            *)
THEOREM WatchingIsMutual == Spec => []WatchedByNeighbours
  <1>1. ASSUME IInv PROVE WatchedByNeighbours
    <2>1. PICK ord : Linked(ord)
      BY <1>1, FromIntroducer
    <2>2. count \in Nat \ {0} /\ TypeOK
      BY <1>1 DEF IInv, TypeOK
    <2>3. Members = {ord[i] : i \in Pos}
      BY <2>1, <2>2, WalkFollowsRing DEF Members, Pos
    <2>4. CASE count = 1
      <3>1. \A ip \in Members : Neighbours(ip) = {}
        BY <2>1, <2>3, <2>4 DEF Linked, Ring, Neighbours, Pos
      <3> QED BY <2>4, <3>1, FS_EmptySet DEF WatchedByNeighbours
    <2>5. CASE count > 1
      <3> SUFFICES ASSUME NEW i \in Pos
                   PROVE /\ Neighbours(ord[i]) \subseteq Members
                         /\ \A n \in Neighbours(ord[i]) : ord[i] \in Neighbours(n)
                         /\ Cardinality(Neighbours(ord[i])) = IF count > 4 THEN 4 ELSE count - 1
        BY <2>3 DEF WatchedByNeighbours
      <3>1. /\ After(i) \in Pos /\ Before(i) \in Pos
            /\ After(After(i)) \in Pos /\ Before(Before(i)) \in Pos
        BY <2>2, <2>5, Positions
      <3>2. Neighbours(ord[i]) \subseteq {ord[After(i)], ord[Before(i)], ord[After(After(i))], ord[Before(Before(i))]}
        <4>1. Neighbours(ord[i]) = IF count = 2 THEN {ord[After(i)]} ELSE
                {ord[After(i)], ord[Before(i)], ord[After(After(i))], ord[Before(Before(i))]} \ {ord[i]}
          BY RingAssumption, <1>1, <2>1, <2>5, NeighboursByPosition
        <4> QED BY <4>1
      <3>3. Neighbours(ord[i]) \subseteq Members
        BY <2>3, <3>1, <3>2
      <3>4. /\ Before(After(i)) = i /\ After(Before(i)) = i
            /\ Before(Before(After(After(i)))) = i /\ After(After(Before(Before(i)))) = i
        BY <2>2, <2>5, <3>1, Positions
      <3>5. ASSUME NEW j \in Pos, ord[j] # ord[i],
                   i \in {After(j), Before(j)} \/ (count > 2 /\ i \in {After(After(j)), Before(Before(j))})
            PROVE  ord[i] \in Neighbours(ord[j])
        <4>1. CASE count = 2
          <5>1. i = After(j)
            BY <2>2, <3>5, <4>1, Positions
          <5> QED BY RingAssumption, <1>1, <2>1, <2>5, <4>1, <5>1, NeighboursByPosition
        <4>2. CASE count > 2
          <5>1. Neighbours(ord[j]) =
                  {ord[After(j)], ord[Before(j)], ord[After(After(j))], ord[Before(Before(j))]} \ {ord[j]}
            <6>1. count # 2
              BY <2>2, <4>2
            <6> QED BY RingAssumption, <1>1, <2>1, <2>5, <6>1, NeighboursByPosition
          <5>2. ord[i] \in {ord[After(j)], ord[Before(j)], ord[After(After(j))], ord[Before(Before(j))]}
            BY <3>5
          <5> QED BY <3>5, <5>1, <5>2
        <4> QED BY <2>2, <2>5, <4>1, <4>2
      <3>6. ASSUME NEW n \in Neighbours(ord[i]) PROVE ord[i] \in Neighbours(n)
        <4>1. n # ord[i]
          BY <3>6 DEF Neighbours
        <4>2. CASE n = ord[After(i)]
          BY <3>1, <3>4, <3>5, <4>1, <4>2
        <4>3. CASE n = ord[Before(i)]
          BY <3>1, <3>4, <3>5, <4>1, <4>3
        <4>4. CASE count > 2 /\ n = ord[After(After(i))]
          BY <3>1, <3>4, <3>5, <4>1, <4>4
        <4>5. CASE count > 2 /\ n = ord[Before(Before(i))]
          BY <3>1, <3>4, <3>5, <4>1, <4>5
        <4>6. count = 2 => n = ord[After(i)]
          BY RingAssumption, <1>1, <2>1, <2>5, <3>6, NeighboursByPosition
        <4> QED BY <2>2, <2>5, <3>2, <4>2, <4>3, <4>4, <4>5, <4>6
      <3>7. Cardinality(Neighbours(ord[i])) = IF count > 4 THEN 4 ELSE count - 1
        BY RingAssumption, <1>1, <2>1, <2>5, NeighboursByPosition
      <3> QED BY <3>3, <3>6, <3>7
    <2> QED BY <2>2, <2>4, <2>5
  <1>2. QED
    BY <1>1, Invariance, PTL

(* Where a set S that no heartbeat leaves meets the other live nodes T on  *)
(* the way round the ring, two neighbours in a row have been lost; the way *)
(* back from T to S has such a place too.                                  *)
LEMMA TwoGaps ==
  ASSUME RingAssumption, TypeOK, NEW r, Ring(r), count > 2,
         NEW S, NEW T, NEW lost, S \cap T = {}, S \cap lost = {}, T \cap lost = {},
         \A i \in Pos : r[i] \in S \cup T \cup lost,
         Closed(S, lost), r[0] \in S, NEW y \in Pos, r[y] \in T
  PROVE  \E j, k \in Pos : /\ j+1 < k /\ j+1 \in Pos /\ k+1 \in Pos
                          /\ {r[j], r[j+1], r[k], r[k+1]} \subseteq lost
  <1>1. PICK n \in Nat : n = count /\ n > 2 /\ Pos = 0..n-1
    BY DEF TypeOK, Pos
  <1>2. ASSUME NEW i \in Pos, r[i] \in S
        PROVE  {r[After(i)], r[Before(i)], r[After(After(i))], r[Before(Before(i))]} \subseteq S \cup lost
    <2>1. /\ next1[r[i]] = r[After(i)] /\ prev1[r[i]] = r[Before(i)]
          /\ next2[r[i]] = r[After(After(i))] /\ prev2[r[i]] = r[Before(Before(i))]
      BY <1>1 DEF Ring
    <2>2. /\ After(i) \in Pos /\ Before(i) \in Pos
          /\ After(After(i)) \in Pos /\ Before(Before(i)) \in Pos
          /\ i \notin {After(i), Before(i), After(After(i)), Before(Before(i))}
      BY <1>1 DEF After, Before
    <2>3. \A k \in Pos : r[k] # NULL /\ (r[k] = r[i] => k = i)
      BY RingAssumption DEF Ring
    <2>4. {r[After(i)], r[Before(i)], r[After(After(i))], r[Before(Before(i))]} \subseteq Neighbours(r[i])
      BY <2>1, <2>2, <2>3 DEF Neighbours
    <2> QED BY <1>2, <2>4 DEF Closed
  <1>3. PICK j \in {i \in 0..n : i < n /\ r[i] \in T} :
              \A i \in {i \in 0..n : i < n /\ r[i] \in T} : ~(i < j)
    <2> DEFINE Other == {i \in 0..n : i < n /\ r[i] \in T}
    <2>1. Other \subseteq 0..n /\ y \in Other
      BY <1>1
    <2> HIDE DEF Other
    <2>2. \E m \in Other : \A i \in Other : ~(i < m)
      BY <2>1, MinimalFailure
    <2> QED BY <2>2 DEF Other
  <1>4. j \in 1..n-1 /\ r[j] \in T /\ \A i \in 0..j-1 : r[i] \notin T
    BY <1>1, <1>3
  <1>5. r[j-1] \in lost
    <2>1. j-1 \in Pos /\ After(j-1) = j /\ j-1 \in 0..j-1
      BY <1>1, <1>4 DEF After
    <2> QED BY <1>2, <1>4, <2>1
  <1>6. j \in 2..n-1 /\ r[j-2] \in lost
    <2>1. j # 1
      BY <1>5
    <2>2. j-2 \in Pos /\ After(After(j-2)) = j /\ j-2 \in 0..j-1
      BY <1>1, <1>4, <2>1 DEF After
    <2> QED BY <1>2, <1>4, <2>1, <2>2
  <1> DEFINE at(i) == IF i = n THEN 0 ELSE i
  <1>7. PICK k \in {i \in 0..n : j < i /\ r[at(i)] \in S} :
              \A i \in {i \in 0..n : j < i /\ r[at(i)] \in S} : ~(i < k)
    <2> DEFINE Back == {i \in 0..n : j < i /\ r[at(i)] \in S}
    <2>1. Back \subseteq 0..n /\ n \in Back
      BY <1>1, <1>4
    <2> HIDE DEF Back
    <2>2. \E m \in Back : \A i \in Back : ~(i < m)
      BY <2>1, MinimalFailure
    <2> QED BY <2>2 DEF Back
  <1>8. /\ k \in j+1..n /\ at(k) \in Pos /\ r[at(k)] \in S
        /\ \A i \in j..k-1 : r[i] \notin S
    <2>1. k \in j+1..n /\ at(k) \in Pos /\ r[at(k)] \in S
      BY <1>1, <1>4, <1>7
    <2>2. \A i \in j+1..k-1 : i \in 0..n /\ i # n /\ i < k /\ j < i
      BY <1>1, <1>4, <2>1
    <2>3. \A i \in j+1..k-1 : r[i] \notin S
      BY <1>7, <2>2
    <2>4. r[j] \notin S
      BY <1>4
    <2> QED BY <1>4, <2>1, <2>3, <2>4
  <1>9. r[k-1] \in lost
    <2>1. k-1 \in Pos /\ Before(at(k)) = k-1 /\ k-1 \in j..k-1
      BY <1>1, <1>4, <1>8 DEF Before
    <2> HIDE DEF at
    <2> QED BY <1>2, <1>8, <2>1
  <1>10. k-2 \in j+1..n-1 /\ r[k-2] \in lost
    <2>1. k-1 # j
      BY <1>4, <1>9
    <2>2. k-2 \in Pos /\ Before(Before(at(k))) = k-2 /\ k-2 \in j..k-1
      BY <1>1, <1>4, <1>8, <2>1 DEF Before
    <2>3. r[k-2] \in lost
      <3> HIDE DEF at
      <3> QED BY <1>2, <1>8, <2>2
    <2>4. k-2 # j
      BY <1>4, <2>3
    <2> QED BY <1>1, <1>8, <2>1, <2>2, <2>3, <2>4
  <1>11. PICK p, q \in Pos : p = j-2 /\ q = k-2 /\ p+1 = j-1 /\ q+1 = k-1
    BY <1>1, <1>6, <1>8, <1>10
  <1>12. p+1 < q /\ p+1 \in Pos /\ q+1 \in Pos
    BY <1>1, <1>6, <1>8, <1>10, <1>11
  <1>13. {r[p], r[p+1], r[q], r[q+1]} \subseteq lost
    BY <1>5, <1>6, <1>9, <1>10, <1>11
  <1> QED BY <1>12, <1>13

(* Two lost nodes and the introducer, whose heartbeats carry no list, are  *)
(* one too few to cut the ring at two places: what one of the remaining    *)
(* nodes knows reaches all of them, however large the ring is.             *)
THEOREM GossipGetsAround == Spec => []GossipSurvivesTwoFailures
  <1>1. ASSUME IInv PROVE GossipSurvivesTwoFailures
    <2>1. PICK ord : Linked(ord)
      BY <1>1, FromIntroducer
    <2>2. count \in Nat \ {0} /\ TypeOK
      BY <1>1 DEF IInv, TypeOK
    <2>3. Members = {ord[i] : i \in Pos}
      BY <2>1, <2>2, WalkFollowsRing DEF Members, Pos
    <2> SUFFICES ASSUME NEW a \in Members, NEW b \in Members,
                        NEW S \in SUBSET (Members \ {a, b, Introducer}),
                        Closed(S, {a, b, Introducer}), S # {},
                        S # Members \ {a, b, Introducer}
                 PROVE  FALSE
      BY DEF GossipSurvivesTwoFailures
    <2> DEFINE lost == {a, b, Introducer}
               T == Members \ (S \cup lost)
    <2>4. PICK s \in Pos : ord[s] \in S
      BY <2>3
    <2>5. PICK t \in Pos : ord[t] \in T
      BY <2>3
    <2>6. count > 2
      <3>1. 0 \in Pos /\ ord[0] = Introducer
        BY <2>1, <2>2 DEF Linked, Pos
      <3>2. s # 0 /\ t # 0 /\ s # t
        BY <2>4, <2>5, <3>1
      <3> QED BY <2>2, <2>4, <2>5, <3>2 DEF Pos
    <2>7. PICK r : /\ Ring(r) /\ r[0] = ord[s]
                   /\ \A i \in Pos : \E j \in Pos : ord[i] = r[j]
      BY <2>1, <2>2, <2>4, Rotate DEF Linked
    <2>8. \A i \in Pos : r[i] \in S \cup T \cup lost
      <3>1. \A i \in Pos : After(i) \in Pos
        BY <2>2 DEF Pos, After
      <3>2. \A i \in Pos : r[i] \in Ip /\ next1[r[i]] # NULL
        <4>1. \A i \in Pos : r[i] \in Ip
          BY <2>7 DEF Ring
        <4>2. \A i \in Pos : next1[r[i]] = r[After(i)]
          BY <2>2, <2>6, <2>7 DEF Ring
        <4> QED BY <3>1, <4>1, <4>2, RingAssumption
      <3>3. \A ip \in Ip : next1[ip] # NULL => \E j \in Pos : ip = ord[j]
        BY <2>1 DEF Linked, Ring
      <3> QED BY <2>3, <3>2, <3>3
    <2>9. PICK y \in Pos : r[y] \in T
      BY <2>5, <2>7
    <2>10. S \cap T = {} /\ S \cap lost = {} /\ T \cap lost = {} /\ r[0] \in S /\ Closed(S, lost)
      BY <2>4, <2>7
    <2> HIDE DEF lost, T
    <2>11. PICK j, k \in Pos : /\ j+1 < k /\ j+1 \in Pos /\ k+1 \in Pos
                              /\ {r[j], r[j+1], r[k], r[k+1]} \subseteq lost
      BY <2>2, <2>6, <2>7, <2>8, <2>9, <2>10, TwoGaps, RingAssumption
    <2>12. \A u, v \in {j, j+1, k, k+1} : r[u] = r[v] => u = v
      BY <2>7, <2>11 DEF Ring
    <2>13. j \in Nat /\ k \in Nat /\ j # j+1 /\ j+1 # k /\ k # k+1 /\ j # k /\ j # k+1 /\ j+1 # k+1
      BY <2>2, <2>11 DEF Pos
    <2> QED BY <2>11, <2>12, <2>13 DEF lost
  <1>2. QED
    BY <1>1, Invariance, PTL
=============================================================================
