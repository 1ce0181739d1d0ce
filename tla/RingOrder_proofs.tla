--------------------------- MODULE RingOrder_proofs ---------------------------
(***************************************************************************)
(* The pointer surgery of insert() and leave() implements the list of      *)
(* RingOrder, for every set of addresses and all octets.  The lists of     *)
(* VirtualRing_proofs are turned to where the change happens; here the     *)
(* walk stays where the code begins it, at the introducer, and only next1  *)
(* matters: WalkFollows says what walk the changed pointers make.          *)
(***************************************************************************)
EXTENDS VirtualRing_proofs, SequenceTheorems

\* The list of the refinement mapping.
order == [i \in 1..count |-> Walk[i-1]]

\* The places of w behind the introducer are in the order of insert().
Sorted(w, n) ==
  \A i, j \in 1..n-1 :
     i < j /\ Octet[w[i]] > 1 /\ Octet[w[j]] > 1 => Octet[w[i]] <= Octet[w[j]]

(* The inductive invariant: a correct ring, whose walk is sorted.          *)
SInv == IInv /\ Sorted(Walk, count)

-----------------------------------------------------------------------------
(* What a list that was extended or shortened at a place is made of.       *)
LEMMA InsertAtPlace ==
  ASSUME NEW S, NEW s \in Seq(S), NEW e \in S, NEW i \in 1..Len(s)+1
  PROVE  /\ Abstract!InsertAt(s, i, e) \in Seq(S)
         /\ Len(Abstract!InsertAt(s, i, e)) = Len(s) + 1
         /\ \A k \in 1..Len(s)+1 : Abstract!InsertAt(s, i, e)[k] =
              IF k < i THEN s[k] ELSE IF k = i THEN e ELSE s[k-1]
  <1> DEFINE a == SubSeq(s, 1, i-1)
             b == SubSeq(s, i, Len(s))
  <1>1. Len(s) \in Nat /\ \A k \in 1..Len(s) : s[k] \in S
    BY LenProperties, ElementOfSeq
  <1>2. a \in Seq(S) /\ Len(a) = i-1 /\ \A k \in 1..i-1 : a[k] = s[k]
    BY <1>1, SubSeqProperties
  <1>3. b \in Seq(S) /\ Len(b) = Len(s)-i+1 /\ \A k \in 1..Len(s)-i+1 : b[k] = s[i+k-1]
    BY <1>1, SubSeqProperties
  <1>4. <<e>> \in Seq(S) /\ Len(<<e>>) = 1 /\ <<e>>[1] = e
    OBVIOUS
  <1> HIDE DEF a, b
  <1>5. /\ a \o <<e>> \in Seq(S) /\ Len(a \o <<e>>) = i
        /\ \A k \in 1..i : (a \o <<e>>)[k] = IF k < i THEN s[k] ELSE e
    BY <1>1, <1>2, <1>4, ConcatProperties
  <1>6. /\ (a \o <<e>>) \o b \in Seq(S) /\ Len((a \o <<e>>) \o b) = Len(s) + 1
        /\ \A k \in 1..Len(s)+1 : ((a \o <<e>>) \o b)[k] =
              IF k <= i THEN (a \o <<e>>)[k] ELSE b[k-i]
    <2> DEFINE x == a \o <<e>>
    <2>1. x \in Seq(S) /\ Len(x) = i
      BY <1>5
    <2> HIDE DEF x
    <2>2. /\ x \o b \in Seq(S) /\ Len(x \o b) = Len(x) + Len(b)
          /\ \A k \in 1..Len(x)+Len(b) : (x \o b)[k] = IF k <= Len(x) THEN x[k] ELSE b[k-Len(x)]
      BY <1>3, <2>1, ConcatProperties
    <2>3. Len(x) + Len(b) = Len(s) + 1
      BY <1>1, <1>3, <2>1
    <2>4. /\ x \o b \in Seq(S) /\ Len(x \o b) = Len(s) + 1
          /\ \A k \in 1..Len(s)+1 : (x \o b)[k] = IF k <= i THEN x[k] ELSE b[k-i]
      BY <2>1, <2>2, <2>3
    <2> QED BY <2>4 DEF x
  <1>7. \A k \in 1..Len(s)+1 : k > i => b[k-i] = s[k-1]
    BY <1>1, <1>3
  <1>8. Abstract!InsertAt(s, i, e) = (a \o <<e>>) \o b
    BY DEF Abstract!InsertAt, a, b
  <1> QED BY <1>1, <1>5, <1>6, <1>7, <1>8

(* What is left of a list without one place.                               *)
LEMMA RemoveAtPlace ==
  ASSUME NEW S, NEW s \in Seq(S), NEW i \in 1..Len(s)
  PROVE  /\ Abstract!RemoveAt(s, i) \in Seq(S)
         /\ Len(Abstract!RemoveAt(s, i)) = Len(s) - 1
         /\ \A k \in 1..Len(s)-1 : Abstract!RemoveAt(s, i)[k] =
              IF k < i THEN s[k] ELSE s[k+1]
  <1> DEFINE a == SubSeq(s, 1, i-1)
             b == SubSeq(s, i+1, Len(s))
  <1>1. Len(s) \in Nat /\ \A k \in 1..Len(s) : s[k] \in S
    BY LenProperties, ElementOfSeq
  <1>2. a \in Seq(S) /\ Len(a) = i-1 /\ \A k \in 1..i-1 : a[k] = s[k]
    BY <1>1, SubSeqProperties
  <1>3. b \in Seq(S) /\ Len(b) = Len(s)-i /\ \A k \in 1..Len(s)-i : b[k] = s[i+k]
    <2>1. \A k \in i+1..Len(s) : s[k] \in S
      BY <1>1
    <2>2. /\ b \in Seq(S) /\ Len(b) = IF i+1 <= Len(s) THEN Len(s)-(i+1)+1 ELSE 0
          /\ \A k \in 1..Len(s)-(i+1)+1 : b[k] = s[i+1+k-1]
      BY <1>1, <2>1, SubSeqProperties
    <2> HIDE DEF b
    <2> QED BY <1>1, <2>2
  <1> HIDE DEF a, b
  <1>4. /\ a \o b \in Seq(S) /\ Len(a \o b) = Len(s) - 1
        /\ \A k \in 1..Len(s)-1 : (a \o b)[k] = IF k <= i-1 THEN a[k] ELSE b[k-(i-1)]
    <2>1. /\ a \o b \in Seq(S) /\ Len(a \o b) = Len(a) + Len(b)
          /\ \A k \in 1..Len(a)+Len(b) : (a \o b)[k] = IF k <= Len(a) THEN a[k] ELSE b[k-Len(a)]
      BY <1>2, <1>3, ConcatProperties
    <2>2. Len(a) + Len(b) = Len(s) - 1
      BY <1>1, <1>2, <1>3
    <2> QED BY <1>2, <2>1, <2>2
  <1>5. \A k \in 1..Len(s)-1 : k >= i => b[k-(i-1)] = s[k+1]
    BY <1>1, <1>3
  <1>6. Abstract!RemoveAt(s, i) = a \o b
    BY DEF Abstract!RemoveAt, a, b
  <1> QED BY <1>1, <1>2, <1>4, <1>5, <1>6

(* The walk is the list of `count` nodes that next1 leads along.           *)
LEMMA WalkFollows ==
  ASSUME count' \in Nat \ {0}, NEW w, w[0] = Introducer,
         \A i \in 1..count'-1 : w[i] = next1'[w[i-1]]
  PROVE  \A i \in 0..count'-1 : Walk'[i] = w[i]
  <1>0. PICK n \in Nat \ {0} : n = count'
    OBVIOUS
  <1> DEFINE v == [k \in 0..n |-> IF k < n THEN w[k] ELSE next1'[w[n-1]]]
  <1>1. \A k \in 0..n : v[k] = IF k = 0 THEN Introducer ELSE next1'[v[k-1]]
    <2> TAKE k \in 0..n
    <2>1. CASE k = 0
      BY <2>1
    <2>2. CASE k \in 1..n-1
      <3>1. k-1 \in 0..n /\ k-1 < n /\ k < n /\ k # 0
        BY <2>2
      <3> QED BY <1>0, <2>2, <3>1
    <2>3. CASE k = n /\ n > 0
      <3>1. k-1 \in 0..n /\ k-1 < n /\ ~(k < n) /\ k # 0 /\ k-1 = n-1
        BY <2>3
      <3> QED BY <2>3, <3>1
    <2> QED BY <2>1, <2>2, <2>3
  <1>2. v = [k \in 0..n |-> IF k = 0 THEN Introducer ELSE next1'[v[k-1]]]
    BY <1>1
  <1> HIDE DEF v
  <1>3. Walk' = [k \in 0..n |-> IF k = 0 THEN Introducer ELSE next1'[Walk'[k-1]]]
    BY <1>0, <1>2 DEF Walk
  <1>4. \A k \in 0..n : Walk'[k] = v[k]
    <2> DEFINE Bad == {k \in 0..n : Walk'[k] # v[k]}
    <2>1. SUFFICES ASSUME Bad # {} PROVE FALSE
      OBVIOUS
    <2>2. PICK m \in Bad : \A k \in Bad : ~(k < m)
      BY <2>1, MinimalFailure
    <2>3. m # 0
      BY <1>1, <1>3
    <2>4. m-1 \in 0..n /\ m-1 < m
      BY <2>3
    <2>5. Walk'[m-1] = v[m-1]
      BY <2>2, <2>4
    <2>6. Walk'[m] = next1'[Walk'[m-1]]
      BY <1>3, <2>3
    <2>7. v[m] = next1'[v[m-1]]
      BY <1>1, <2>3
    <2> QED BY <2>5, <2>6, <2>7
  <1>5. \A k \in 0..n-1 : v[k] = w[k]
    BY DEF v
  <1>6. \A k \in 0..n-1 : Walk'[k] = w[k]
    <2>1. \A k \in 0..n-1 : k \in 0..n
      OBVIOUS
    <2> QED BY <1>4, <1>5, <2>1
  <1> QED BY <1>0, <1>6

-----------------------------------------------------------------------------
(* In a correct ring the list has one place for each member, and it is     *)
(* sorted where the walk is.                                               *)
LEMMA OrderIsList ==
  ASSUME IInv
  PROVE  /\ order \in Seq(Ip) /\ Len(order) = count
         /\ \A i \in 1..count : order[i] = Walk[i-1]
         /\ Members = Abstract!ToSet(order)
  <1>1. PICK ord : Linked(ord)
    BY FromIntroducer
  <1>2. count \in Nat \ {0} /\ TypeOK
    BY DEF IInv, TypeOK
  <1>3. \A i \in Pos : Walk[i] \in Ip
    BY <1>1, <1>2, WalkFollowsRing DEF Linked, Ring
  <1>4. \A i \in 1..count : Walk[i-1] \in Ip
    BY <1>2, <1>3 DEF Pos
  <1>5. order \in Seq(Ip) /\ Len(order) = count
    BY <1>2, <1>4 DEF order
  <1>6. \A i \in 1..count : order[i] = Walk[i-1]
    BY DEF order
  <1>7. Members = Abstract!ToSet(order)
    <2>1. DOMAIN order = 1..count
      BY DEF order
    <2>2. Abstract!ToSet(order) = {Walk[i-1] : i \in 1..count}
      BY <1>6, <2>1 DEF Abstract!ToSet
    <2>3. \A i \in 0..count-1 : i+1 \in 1..count /\ (i+1)-1 = i
      BY <1>2
    <2>4. \A i \in 1..count : i-1 \in 0..count-1
      BY <1>2
    <2> QED BY <2>2, <2>3, <2>4 DEF Members
  <1> QED BY <1>5, <1>6, <1>7

(* How next1 and prev1 link the walk.                                      *)
LEMMA WalkLinks ==
  ASSUME IInv, count > 1
  PROVE  /\ Walk[0] = Introducer /\ Walk[count] = Introducer
         /\ \A i \in 0..count-1 : Walk[i] \in Ip
         /\ \A i, j \in 0..count-1 : Walk[i] = Walk[j] => i = j
         /\ \A i \in 0..count-2 : next1[Walk[i]] = Walk[i+1]
         /\ \A i \in 1..count-1 : prev1[Walk[i]] = Walk[i-1]
         /\ prev1[Introducer] = Walk[count-1]
  <1>1. count \in Nat /\ count > 1 /\ TypeOK
    BY DEF IInv, TypeOK
  <1>2. PICK ord : Linked(ord)
    BY <1>1, FromIntroducer
  <1>3. /\ \A i \in 0..count-1 : Walk[i] = ord[i] /\ ord[i] \in Ip
        /\ Walk[0] = Introducer /\ Walk[count] = Introducer
    <2>1. (\A i \in Pos : Walk[i] = ord[i]) /\ Walk[count] = Introducer
      BY <1>1, <1>2, WalkFollowsRing
    <2> QED BY <1>1, <1>2, <2>1 DEF Linked, Ring, Pos
  <1>4. /\ \A i, j \in 0..count-1 : Walk[i] = Walk[j] => i = j
        /\ \A i \in 0..count-2 : next1[Walk[i]] = Walk[i+1]
        /\ \A i \in 1..count-1 : prev1[Walk[i]] = Walk[i-1]
        /\ prev1[Introducer] = Walk[count-1]
    <2>1. \A i, j \in 0..count-1 : Walk[i] = Walk[j] => i = j
      BY <1>2, <1>3 DEF Linked, Ring, Pos
    <2>2. \A i \in 0..count-1 : next1[Walk[i]] = ord[After(i)] /\ prev1[Walk[i]] = ord[Before(i)]
      BY <1>1, <1>2, <1>3 DEF Linked, Ring, Pos
    <2>3. /\ \A i \in 0..count-2 : i \in 0..count-1 /\ After(i) = i+1 /\ i+1 \in 0..count-1
          /\ \A i \in 1..count-1 : i \in 0..count-1 /\ Before(i) = i-1 /\ i-1 \in 0..count-1
          /\ Before(0) = count-1 /\ After(count-1) = 0 /\ 0 \in 0..count-1 /\ count-1 \in 0..count-1
      BY <1>1 DEF After, Before
    <2> QED BY <1>3, <2>1, <2>2, <2>3
  <1> QED BY <1>3, <1>4

(* The walk after ip has entered at place p >= 1.                          *)
LEMMA EntersAt ==
  ASSUME SInv, NEW ip \in Ip, ip \notin Members, count' = count + 1,
         NEW p \in 1..count,
         \A i \in 0..count-1 :
            next1'[Walk[i]] = IF i = p-1 THEN ip
                              ELSE IF i < count-1 THEN Walk[i+1] ELSE next1'[Walk[i]],
         p < count => next1'[ip] = Walk[p],
         \A i \in 1..p-1 : Octet[ip] > 1 => Octet[Walk[i]] < Octet[ip],
         \A i \in p..count-1 : Octet[ip] > 1 /\ Octet[Walk[i]] > 1 => Octet[ip] <= Octet[Walk[i]]
  PROVE  Sorted(Walk, count)' /\ Abstract!Join(ip)
  <1> DEFINE w == [i \in 0..count |-> IF i < p THEN Walk[i] ELSE IF i = p THEN ip ELSE Walk[i-1]]
  <1>1. count \in Nat \ {0} /\ IInv /\ Sorted(Walk, count)
    BY DEF SInv, IInv, TypeOK
  <1>2. Walk[0] = Introducer
    <2>1. PICK ord : Linked(ord)
      BY <1>1, FromIntroducer
    <2> QED BY <1>1, <2>1, WalkFollowsRing DEF Linked, Pos, IInv
  <1>3. w[0] = Introducer
    BY <1>1, <1>2
  <1>4. \A i \in 1..count : w[i] = next1'[w[i-1]]
    <2> TAKE i \in 1..count
    <2>1. CASE i < p
      BY <1>1, <2>1
    <2>2. CASE i = p
      BY <1>1, <2>2
    <2>3. CASE i = p+1
      BY <1>1, <2>3
    <2>4. CASE i > p+1
      <3>1. /\ w[i] = Walk[i-1] /\ w[i-1] = Walk[i-2] /\ i-2 \in 0..count-1
            /\ i-2 # p-1 /\ i-2 < count-1 /\ (i-2)+1 = i-1
        BY <1>1, <2>4
      <3> HIDE DEF w
      <3> QED BY <3>1
    <2> QED BY <1>1, <2>1, <2>2, <2>3, <2>4
  <1>5. \A i \in 0..count : Walk'[i] = w[i]
    <2>1. count' \in Nat \ {0} /\ count'-1 = count
      BY <1>1
    <2> HIDE DEF w
    <2> QED BY <1>3, <1>4, <2>1, WalkFollows
  <1>6. Sorted(Walk, count)'
    <2> SUFFICES ASSUME NEW i \in 1..count, NEW j \in 1..count, i < j,
                        Octet[w[i]] > 1, Octet[w[j]] > 1
                 PROVE  Octet[w[i]] <= Octet[w[j]]
      <3>1. count'-1 = count
        BY <1>1
      <3> HIDE DEF w
      <3> QED BY <1>1, <1>5, <3>1 DEF Sorted
    <2>1. \A k \in 0..count-1 : Octet[Walk[k]] \in Nat
      <3>1. PICK ord : Linked(ord)
        BY <1>1, FromIntroducer
      <3>2. \A k \in 0..count-1 : Walk[k] = ord[k] /\ ord[k] \in Ip
        BY <1>1, <3>1, WalkFollowsRing DEF Linked, Ring, Pos, IInv
      <3> QED BY <3>2, RingAssumption
    <2>2. Octet[ip] \in Nat
      BY RingAssumption
    <2>3. CASE j < p
      BY <1>1, <2>3 DEF Sorted
    <2>4. CASE j = p
      BY <1>1, <2>1, <2>2, <2>4
    <2>5. CASE j > p /\ i < p
      BY <1>1, <2>5 DEF Sorted
    <2>6. CASE j > p /\ i = p
      BY <1>1, <2>6
    <2>7. CASE i > p
      BY <1>1, <2>7 DEF Sorted
    <2> QED BY <1>1, <2>3, <2>4, <2>5, <2>6, <2>7
  <1>7. order' = Abstract!InsertAt(order, p+1, ip)
    <2>1. /\ order \in Seq(Ip) /\ Len(order) = count
          /\ \A i \in 1..count : order[i] = Walk[i-1]
      BY <1>1, OrderIsList
    <2>2. /\ Abstract!InsertAt(order, p+1, ip) \in Seq(Ip)
          /\ Len(Abstract!InsertAt(order, p+1, ip)) = count + 1
          /\ \A k \in 1..count+1 : Abstract!InsertAt(order, p+1, ip)[k] =
                IF k < p+1 THEN order[k] ELSE IF k = p+1 THEN ip ELSE order[k-1]
      <3>1. PICK q \in 1..Len(order)+1 : q = p+1
        BY <1>1, <2>1
      <3> HIDE DEF w
      <3>2. /\ Abstract!InsertAt(order, q, ip) \in Seq(Ip)
            /\ Len(Abstract!InsertAt(order, q, ip)) = Len(order) + 1
            /\ \A k \in 1..Len(order)+1 : Abstract!InsertAt(order, q, ip)[k] =
                 IF k < q THEN order[k] ELSE IF k = q THEN ip ELSE order[k-1]
        <4>1. PICK s \in Seq(Ip) : s = order
          BY <2>1
        <4>2. q \in 1..Len(s)+1
          BY <4>1
        <4>3. /\ Abstract!InsertAt(s, q, ip) \in Seq(Ip)
              /\ Len(Abstract!InsertAt(s, q, ip)) = Len(s) + 1
              /\ \A k \in 1..Len(s)+1 : Abstract!InsertAt(s, q, ip)[k] =
                   IF k < q THEN s[k] ELSE IF k = q THEN ip ELSE s[k-1]
          BY <4>2, InsertAtPlace
        <4> QED BY <4>1, <4>3
      <3>3. /\ Abstract!InsertAt(order, q, ip) \in Seq(Ip)
            /\ Len(Abstract!InsertAt(order, q, ip)) = count + 1
            /\ \A k \in 1..count+1 : Abstract!InsertAt(order, q, ip)[k] =
                 IF k < q THEN order[k] ELSE IF k = q THEN ip ELSE order[k-1]
        BY <2>1, <3>2, Zenon
      <3> QED BY <3>1, <3>3, Zenon
    <2>3. \A k \in 1..count+1 : Abstract!InsertAt(order, p+1, ip)[k] = w[k-1]
      BY <1>1, <2>1, <2>2
    <2> HIDE DEF w
    <2>4. order' = [k \in 1..count+1 |-> w[k-1]]
      <3>1. \A k \in 1..count+1 : Walk'[k-1] = w[k-1]
        BY <1>1, <1>5
      <3> QED BY <3>1 DEF order
    <2>5. Abstract!InsertAt(order, p+1, ip) = [k \in 1..count+1 |-> w[k-1]]
      <3> DEFINE s == Abstract!InsertAt(order, p+1, ip)
      <3>1. s \in [1..count+1 -> Ip]
        BY <2>2, LenProperties
      <3> HIDE DEF s
      <3> QED BY <2>3, <3>1 DEF s
    <2> QED BY <2>4, <2>5
  <1>8. Abstract!Ordered(order')
    <2> SUFFICES ASSUME NEW i \in 2..count+1, NEW j \in 2..count+1, i < j,
                        Octet[order'[i]] > 1, Octet[order'[j]] > 1
                 PROVE  Octet[order'[i]] <= Octet[order'[j]]
      <3>1. Len(order') = count + 1
        BY <1>1 DEF order
      <3> QED BY <3>1 DEF Abstract!Ordered
    <2>1. order'[i] = Walk'[i-1] /\ order'[j] = Walk'[j-1]
      BY <1>1 DEF order
    <2>2. i-1 \in 1..count'-1 /\ j-1 \in 1..count'-1 /\ i-1 < j-1
      BY <1>1
    <2> QED BY <1>6, <2>1, <2>2 DEF Sorted
  <1>9. ip \notin Abstract!ToSet(order) /\ p+1 \in 2..Len(order)+1
    BY <1>1, OrderIsList
  <1> QED BY <1>6, <1>7, <1>8, <1>9 DEF Abstract!Join, order

(* insert() links ip in at one place of the walk, and by StopsAt the place *)
(* suits the octets.                                                       *)
LEMMA EntersSecond ==
  ASSUME SInv, NEW ip \in Ip, InsertSecond(ip)
  PROVE  Sorted(Walk, count)' /\ Abstract!Join(ip)
  <1>1. count = 1 /\ count' = count + 1 /\ ip \notin Members /\ IInv
    BY DEF SInv, InsertSecond
  <1>2. PICK ord : Linked(ord)
    BY <1>1, FromIntroducer
  <1>3. Walk[0] = Introducer /\ Introducer \in Ip
    BY <1>1, <1>2, WalkFollowsRing DEF Linked, Ring, Pos, IInv
  <1>4. next1'[Introducer] = ip
    <2>1. next1 \in Pointer /\ ip # Introducer
      BY <1>1, <1>3 DEF IInv, TypeOK, Members
    <2> QED BY <1>3, <2>1 DEF InsertSecond, Pointer
  <1>5. PICK p \in 1..count : p = 1
    BY <1>1
  <1>6. \A i \in 0..count-1 :
            next1'[Walk[i]] = IF i = p-1 THEN ip
                              ELSE IF i < count-1 THEN Walk[i+1] ELSE next1'[Walk[i]]
    BY <1>1, <1>3, <1>4, <1>5
  <1>7. /\ p < count => next1'[ip] = Walk[p]
        /\ \A i \in 1..p-1 : Octet[ip] > 1 => Octet[Walk[i]] < Octet[ip]
        /\ \A i \in p..count-1 : Octet[ip] > 1 /\ Octet[Walk[i]] > 1 => Octet[ip] <= Octet[Walk[i]]
    BY <1>1, <1>5
  <1> QED BY <1>1, <1>6, <1>7, EntersAt

(* The same for a node that finds at least one other beside the            *)
(* introducer: its predecessor is the node before the place p.             *)
LEMMA EntersLater ==
  ASSUME SInv, NEW ip \in Ip, NEW pred \in Ip,
         InsertThird(ip, pred) \/ InsertFourth(ip, pred) \/ InsertMore(ip, pred)
  PROVE  Sorted(Walk, count)' /\ Abstract!Join(ip)
  <1>1. /\ count \in Nat /\ count > 1 /\ count' = count + 1 /\ IInv /\ TypeOK
        /\ ip \notin Members /\ InsertsAfter(ip, pred)
        /\ next1' = [next1 EXCEPT ![pred] = ip, ![ip] = next1[pred]]
    BY DEF SInv, IInv, TypeOK, InsertThird, InsertFourth, InsertMore, InsertsAfter
  <1>4. /\ Walk[0] = Introducer /\ Walk[count] = Introducer
        /\ \A i \in 0..count-1 : Walk[i] \in Ip
        /\ \A i, j \in 0..count-1 : Walk[i] = Walk[j] => i = j
        /\ \A i \in 0..count-2 : next1[Walk[i]] = Walk[i+1]
        /\ \A i \in 1..count-1 : prev1[Walk[i]] = Walk[i-1]
        /\ prev1[Introducer] = Walk[count-1]
    BY <1>1, WalkLinks
  <1>5. PICK k \in 0..count : StopsAt(ip, k) /\ pred = prev1[Walk[k]]
    BY <1>1 DEF InsertsAfter
  <1>6. PICK p \in 1..count : p = IF k = 0 THEN count ELSE k
    BY <1>1
  <1>7. pred = Walk[p-1]
    BY <1>1, <1>4, <1>5, <1>6
  <1>8. \A i \in 0..count-1 : ip # Walk[i] /\ Walk[i] \in Ip
    BY <1>1, <1>4 DEF Members
  <1>9. /\ \A x \in Ip : x # ip => next1'[x] = IF x = pred THEN ip ELSE next1[x]
        /\ next1'[ip] = next1[pred]
    BY <1>1 DEF TypeOK, Pointer
  <1>10. \A i \in 0..count-1 :
            next1'[Walk[i]] = IF i = p-1 THEN ip
                              ELSE IF i < count-1 THEN Walk[i+1] ELSE next1'[Walk[i]]
    <2> TAKE i \in 0..count-1
    <2>1. CASE i = p-1
      BY <1>7, <1>8, <1>9, <2>1
    <2>2. CASE i # p-1
      <3>1. Walk[i] # pred
        BY <1>1, <1>4, <1>6, <1>7, <2>2
      <3>2. next1'[Walk[i]] = next1[Walk[i]]
        BY <1>8, <1>9, <3>1
      <3>3. i < count-1 => i \in 0..count-2
        BY <1>1
      <3> QED BY <1>4, <2>2, <3>2, <3>3
    <2> QED BY <2>1, <2>2
  <1>11. p < count => next1'[ip] = Walk[p]
    <2> SUFFICES ASSUME p < count PROVE next1'[ip] = Walk[p]
      OBVIOUS
    <2>1. p-1 \in 0..count-2 /\ (p-1)+1 = p
      BY <1>1, <1>6
    <2> QED BY <1>4, <1>7, <1>9, <2>1
  <1>12. \A i \in 1..p-1 : Octet[ip] > 1 => Octet[Walk[i]] < Octet[ip]
    BY <1>1, <1>5, <1>6, RingAssumption DEF StopsAt
  <1>13. \A i \in p..count-1 :
            Octet[ip] > 1 /\ Octet[Walk[i]] > 1 => Octet[ip] <= Octet[Walk[i]]
    <2> SUFFICES ASSUME NEW i \in p..count-1, Octet[ip] > 1, Octet[Walk[i]] > 1
                 PROVE  Octet[ip] <= Octet[Walk[i]]
      OBVIOUS
    <2>1. /\ Octet[ip] \in Nat /\ \A j \in 0..count-1 : Octet[Walk[j]] \in Nat
      BY <1>8, RingAssumption
    <2>2. k \in 1..count-1 /\ p = k
      BY <1>1, <1>5, <1>6, <2>1 DEF StopsAt
    <2>3. Octet[Walk[k]] >= Octet[ip]
      BY <1>5, <2>2 DEF StopsAt
    <2>4. CASE i = k
      BY <2>1, <2>2, <2>3, <2>4
    <2>5. CASE i # k
      <3>1. k < i /\ i \in 1..count-1 /\ k \in 0..count-1 /\ i \in 0..count-1
        BY <1>1, <2>2, <2>5
      <3>2. Octet[Walk[k]] > 1
        BY <2>1, <2>3, <3>1
      <3>3. Octet[Walk[k]] <= Octet[Walk[i]]
        BY <2>2, <3>1, <3>2 DEF SInv, Sorted
      <3> QED BY <2>1, <2>3, <3>1, <3>3
    <2> QED BY <2>4, <2>5
  <1> QED BY <1>1, <1>6, <1>10, <1>11, <1>12, <1>13, EntersAt

(* leave() cuts one place out of the walk.                                 *)
LEMMA LeavesAt ==
  ASSUME SInv, NEW ip \in Ip, Leave(ip)
  PROVE  Sorted(Walk, count)' /\ Abstract!Leave(ip)
  <1>1. /\ count \in Nat /\ count > 2 /\ count' = count - 1 /\ IInv /\ TypeOK
        /\ ip \in Members /\ ip # Introducer /\ Sorted(Walk, count)
        /\ next1' = [next1 EXCEPT ![prev1[ip]] = next1[ip], ![ip] = NULL]
    BY DEF SInv, IInv, TypeOK, Leave
  <1>2. /\ Walk[0] = Introducer
        /\ \A i \in 0..count-1 : Walk[i] \in Ip
        /\ \A i, j \in 0..count-1 : Walk[i] = Walk[j] => i = j
        /\ \A i \in 0..count-2 : next1[Walk[i]] = Walk[i+1]
        /\ \A i \in 1..count-1 : prev1[Walk[i]] = Walk[i-1]
    BY <1>1, WalkLinks
  <1>3. PICK j \in 1..count-1 : ip = Walk[j]
    BY <1>1, <1>2 DEF Members
  <1>4. prev1[ip] = Walk[j-1] /\ j-1 \in 0..count-1
    BY <1>1, <1>2, <1>3
  <1>5. /\ \A i \in 0..count-1 : i # j-1 /\ i # j => next1'[Walk[i]] = next1[Walk[i]]
        /\ next1'[Walk[j-1]] = next1[ip]
    <2>1. \A x \in Ip : x # ip => next1'[x] = IF x = prev1[ip] THEN next1[ip] ELSE next1[x]
      BY <1>1 DEF TypeOK, Pointer
    <2>2. \A i \in 0..count-1 : i # j-1 /\ i # j => Walk[i] # ip /\ Walk[i] # prev1[ip]
      BY <1>2, <1>3, <1>4
    <2>3. Walk[j-1] # ip
      BY <1>2, <1>3, <1>4
    <2> QED BY <1>2, <1>4, <2>1, <2>2, <2>3
  <1> DEFINE w == [i \in 0..count-2 |-> IF i < j THEN Walk[i] ELSE Walk[i+1]]
  <1>6. w[0] = Introducer
    BY <1>1, <1>2
  <1>7. \A i \in 1..count-2 : w[i] = next1'[w[i-1]]
    <2> TAKE i \in 1..count-2
    <2>1. CASE i < j
      <3>1. /\ w[i] = Walk[i] /\ w[i-1] = Walk[i-1] /\ i-1 \in 0..count-1 /\ i-1 \in 0..count-2
            /\ i-1 # j-1 /\ i-1 # j /\ (i-1)+1 = i
        BY <1>1, <2>1
      <3> HIDE DEF w
      <3> QED BY <1>2, <1>5, <3>1
    <2>2. CASE i = j
      <3>1. w[i] = Walk[j+1] /\ w[i-1] = Walk[j-1] /\ j \in 0..count-2
        BY <1>1, <2>2
      <3> HIDE DEF w
      <3> QED BY <1>2, <1>3, <1>5, <3>1
    <2>3. CASE i > j
      <3>1. /\ w[i] = Walk[i+1] /\ w[i-1] = Walk[i] /\ i \in 0..count-1 /\ i \in 0..count-2
            /\ i # j-1 /\ i # j
        BY <1>1, <2>3
      <3> HIDE DEF w
      <3> QED BY <1>2, <1>5, <3>1
    <2> QED BY <2>1, <2>2, <2>3
  <1>8. \A i \in 0..count-2 : Walk'[i] = w[i]
    <2>1. count' \in Nat \ {0} /\ count'-1 = count-2
      BY <1>1
    <2> HIDE DEF w
    <2> QED BY <1>6, <1>7, <2>1, WalkFollows
  <1>9. Sorted(Walk, count)'
    <2> SUFFICES ASSUME NEW i \in 1..count-2, NEW k \in 1..count-2, i < k,
                        Octet[w[i]] > 1, Octet[w[k]] > 1
                 PROVE  Octet[w[i]] <= Octet[w[k]]
      <3>1. count'-1 = count-2
        BY <1>1
      <3> HIDE DEF w
      <3> QED BY <1>1, <1>8, <3>1 DEF Sorted
    <2>1. PICK a \in 1..count-1 : a = IF i < j THEN i ELSE i+1
      BY <1>1
    <2>2. PICK b \in 1..count-1 : b = IF k < j THEN k ELSE k+1
      BY <1>1
    <2>3. w[i] = Walk[a] /\ w[k] = Walk[b] /\ a < b
      BY <1>1, <2>1, <2>2
    <2> HIDE DEF w
    <2> QED BY <1>1, <2>3 DEF Sorted
  <1>10. /\ order \in Seq(Ip) /\ Len(order) = count
         /\ \A i \in 1..count : order[i] = Walk[i-1]
    BY <1>1, OrderIsList
  <1>11. PICK q \in 2..count : q = j+1
    BY <1>1
  <1>12. order' = Abstract!RemoveAt(order, q)
    <2>1. PICK s \in Seq(Ip) : s = order
      BY <1>10
    <2>2. q \in 1..Len(s)
      BY <1>1, <1>10, <2>1
    <2>3. /\ Abstract!RemoveAt(s, q) \in Seq(Ip)
          /\ Len(Abstract!RemoveAt(s, q)) = Len(s) - 1
          /\ \A k \in 1..Len(s)-1 : Abstract!RemoveAt(s, q)[k] = IF k < q THEN s[k] ELSE s[k+1]
      BY <2>2, RemoveAtPlace
    <2> DEFINE t == Abstract!RemoveAt(s, q)
    <2> HIDE DEF t, w
    <2>4. /\ t \in Seq(Ip) /\ Len(t) = count-1
          /\ \A k \in 1..count-1 : t[k] = IF k < q THEN order[k] ELSE order[k+1]
      BY <1>10, <2>1, <2>3 DEF t
    <2>5. \A k \in 1..count-1 : t[k] = w[k-1]
      <3> TAKE k \in 1..count-1
      <3>1. k-1 \in 0..count-2 /\ (k < q <=> k-1 < j) /\ (k-1)+1 = k
        BY <1>1, <1>11
      <3>2. w[k-1] = IF k < q THEN Walk[k-1] ELSE Walk[k]
        BY <3>1 DEF w
      <3>3. order[k] = Walk[k-1] /\ order[k+1] = Walk[k]
        <4>1. k \in 1..count /\ k+1 \in 1..count /\ (k+1)-1 = k
          BY <1>1
        <4> QED BY <1>10, <4>1
      <3> QED BY <2>4, <3>2, <3>3
    <2>6. order' = [k \in 1..count-1 |-> w[k-1]]
      <3>1. \A k \in 1..count-1 : Walk'[k-1] = w[k-1]
        BY <1>1, <1>8
      <3> QED BY <1>1, <3>1 DEF order
    <2>7. t \in [1..count-1 -> Ip]
      BY <2>4, LenProperties
    <2>8. t = [k \in 1..count-1 |-> w[k-1]]
      BY <2>5, <2>7
    <2> QED BY <2>1, <2>6, <2>8 DEF t
  <1>13. order[q] = ip /\ q \in 2..Len(order) /\ Len(order) > 2
    BY <1>1, <1>3, <1>10, <1>11
  <1> QED BY <1>9, <1>12, <1>13 DEF Abstract!Leave, order

(* Every call is a step of the list, and the walk stays sorted.            *)
LEMMA StepsKeepOrder ==
  ASSUME SInv, [Next]_vars
  PROVE  Sorted(Walk, count)' /\ [Abstract!Next]_order
  <1>1. CASE UNCHANGED vars
    <2>1. Walk' = Walk /\ count' = count
      BY <1>1 DEF vars, Walk
    <2>2. order' = order
      BY <2>1 DEF order
    <2> QED BY <2>1, <2>2 DEF SInv, Sorted
  <1>2. CASE Next
    <2>1. PICK ip \in Ip : Insert(ip) \/ Leave(ip)
      BY <1>2 DEF Next
    <2>2. CASE InsertSecond(ip)
      BY <2>2, EntersSecond DEF Abstract!Next
    <2>3. ASSUME NEW pred \in Ip,
                 InsertThird(ip, pred) \/ InsertFourth(ip, pred) \/ InsertMore(ip, pred)
          PROVE  Sorted(Walk, count)' /\ Abstract!Next
      BY <2>3, EntersLater DEF Abstract!Next
    <2>4. CASE Leave(ip)
      BY <2>4, LeavesAt DEF Abstract!Next
    <2> QED BY <2>1, <2>2, <2>3, <2>4 DEF Insert
  <1> QED BY <1>1, <1>2

(* The pointer surgery of insert() and leave() is an insertion into and a  *)
(* removal from a list: a node enters at one place, in the order of the    *)
(* octets, a leaving one is cut out, and no other node moves or is lost.   *)
THEOREM ImplementsList == Spec => ImplementsOrder
  <1>1. Spec => []IInv
    BY Invariance
  <1>2. IInv /\ Init => SInv /\ Abstract!Init
    <2> SUFFICES ASSUME IInv, Init PROVE SInv /\ Abstract!Init
      OBVIOUS
    <2>1. count = 1
      BY DEF Init
    <2>2. Sorted(Walk, count)
      BY <2>1 DEF Sorted
    <2>3. Walk[0] = Introducer
      <3>1. PICK ord : Linked(ord)
        BY FromIntroducer
      <3> QED BY <2>1, <3>1, WalkFollowsRing DEF Linked, Pos, IInv
    <2>4. order = <<Introducer>>
      <3>1. order = [i \in 1..1 |-> Introducer]
        BY <2>1, <2>3 DEF order
      <3> QED BY <3>1
    <2> QED BY <2>2, <2>4 DEF SInv, Abstract!Init, order
  <1>3. IInv /\ Sorted(Walk, count) /\ [Next]_vars => Sorted(Walk, count)' /\ [Abstract!Next]_order
    BY StepsKeepOrder DEF SInv
  <1>4. QED
    BY <1>1, <1>2, <1>3, PTL DEF Spec, SInv, ImplementsOrder, Abstract!Spec, order
=============================================================================
