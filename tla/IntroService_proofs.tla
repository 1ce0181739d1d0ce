------------------------- MODULE IntroService_proofs -------------------------
(***************************************************************************)
(* A walk of the introducer can crash only where requests overlap, and a   *)
(* request that nothing disturbs informs every running member, for any     *)
(* number of nodes, walks, changes and losses.                             *)
(***************************************************************************)
EXTENDS IntroService, SequenceTheorems, TLAPS

\* The lemmas about the ring, with the variables of this module.
RingProofs == INSTANCE VirtualRing_proofs

-----------------------------------------------------------------------------
\* The service starts with the ring of the introducer alone.
LEMMA InitRing == Init => Ring!Init
  BY DEF Init

(* Only the requests of JOIN and LEAVE change what will be in the          *)
(* pointers; walks, replies and datagrams leave it as it is.               *)
LEMMA StepRing == [Next]_vars => [Ring!Next]_(Ring!vars)
<1> SUFFICES ASSUME [Next]_vars PROVE [Ring!Next]_(Ring!vars)
  OBVIOUS
<1>1. ASSUME NEW ip \in Ip, Join(ip) PROVE [Ring!Next]_(Ring!vars)
  BY <1>1 DEF Join, Ring!Next, Ring!vars, ring
<1>2. ASSUME NEW ip \in Ip, Leave(ip) PROVE [Ring!Next]_(Ring!vars)
  BY <1>2 DEF Leave, Ring!Next, Ring!vars, ring
<1>3. CASE UNCHANGED vars
  BY <1>3 DEF vars, ring, Ring!vars
<1>4. CASE UNCHANGED ring
  BY <1>4 DEF ring, Ring!vars
<1> QED
  BY <1>1, <1>2, <1>3, <1>4
  DEF Next, Progress, Replies, ReplyLost, Opens, Ends, Walking, Goes, WalkBegins, WalkSends, WalkGoesOn, WalkCrashes, Deliver, Drop

(* The service is an implementation of the ring alone: handlers and walks  *)
(* together do nothing to it that insert() and leave() would not do.       *)
THEOREM ServiceIsRing == Spec => Ring!Spec
  BY InitRing, StepRing, PTL DEF Spec, Ring!Spec

(* The lemmas' instance of the ring has the same behaviours as the         *)
(* service's.                                                              *)
LEMMA SameSpec == Ring!Spec => RingProofs!Spec
<1>1. Ring!Init => RingProofs!Init
  BY DEF Ring!Init, RingProofs!Init
<1>2. ASSUME NEW ip \in Ip, Ring!Insert(ip) PROVE RingProofs!Insert(ip)
  BY <1>2 DEF Ring!Insert, RingProofs!Insert, Ring!InsertSecond, RingProofs!InsertSecond, Ring!InsertThird, RingProofs!InsertThird, Ring!InsertFourth, RingProofs!InsertFourth, Ring!InsertMore, RingProofs!InsertMore, Ring!InsertsAfter, RingProofs!InsertsAfter, Ring!StopsAt, RingProofs!StopsAt, Ring!Members, RingProofs!Members, Ring!Walk, RingProofs!Walk
<1>3. ASSUME NEW ip \in Ip, Ring!Leave(ip) PROVE RingProofs!Leave(ip)
  BY <1>3 DEF Ring!Leave, RingProofs!Leave, Ring!Members, RingProofs!Members, Ring!Walk, RingProofs!Walk
<1>4. [Ring!Next]_(Ring!vars) => [RingProofs!Next]_(RingProofs!vars)
  BY <1>2, <1>3 DEF Ring!Next, RingProofs!Next, Ring!vars, RingProofs!vars
<1> QED
  BY <1>1, <1>4, PTL DEF Ring!Spec, RingProofs!Spec

\* The invariant of the ring's pointers, for the ring of the service.
LEMMA RingInvariance == Spec => []RingProofs!IInv
<1>1. RingProofs!Spec => []RingProofs!IInv
  BY IntroAssumption, RingProofs!Invariance DEF RingProofs!RingAssumption
<1> QED
  BY <1>1, ServiceIsRing, SameSpec, PTL

-----------------------------------------------------------------------------
(* What the ring that a request leaves behind offers to a walk: a step     *)
(* from a member leads to a member, and the introducer is one.             *)
GoodRing ==
  /\ count \in Nat \ {0}
  /\ next1 \in [Ip -> Ip \cup {NULL}] /\ next2 \in [Ip -> Ip \cup {NULL}]
  /\ prev1 \in [Ip -> Ip \cup {NULL}] /\ prev2 \in [Ip -> Ip \cup {NULL}]
  /\ count = 1 => Ring!Members = {Introducer}
  /\ count > 1 =>
       /\ next1[Introducer] \in Ip
       /\ \A ip \in Ip : next1[ip] # NULL => next1[ip] \in Ip /\ next1[next1[ip]] \in Ip

\* What any request leaves behind is fit to be walked.
LEMMA RingIsGood == Spec => []GoodRing
<1>1. RingProofs!IInv => GoodRing
  <2> SUFFICES ASSUME RingProofs!IInv PROVE GoodRing
    OBVIOUS
  <2>1. RingProofs!RingAssumption
    BY IntroAssumption DEF RingProofs!RingAssumption
  <2>2. RingProofs!TypeOK
    BY DEF RingProofs!IInv
  <2>3. count = 1 => Ring!Members = {Introducer}
    <3>1. Ring!Members = RingProofs!Members
      BY DEF Ring!Members, RingProofs!Members, Ring!Walk, RingProofs!Walk
    <3> QED BY <2>1, <3>1, RingProofs!AloneInRing
  <2> QED
    BY <2>1, <2>2, <2>3, RingProofs!MembersLinked
    DEF GoodRing, RingProofs!TypeOK, RingProofs!Pointer
<1> QED
  BY <1>1, RingInvariance, PTL

\* A walk that stands at a member and knows its pointers as they are.
Fresh(w) ==
  \/ walk[w].do = "begin" /\ walk[w].i = 0
  \/ /\ walk[w].do \in {"read", "next"}
     /\ walk[w].at \in Ip /\ next1[walk[w].at] # NULL
     /\ walk[w].seen[1] = <<next1[walk[w].at]>>
     /\ walk[w].do = "read" => /\ walk[w].seen[2] = <<next2[walk[w].at]>>
                               /\ walk[w].seen[3] = <<prev1[walk[w].at]>>
                               /\ walk[w].seen[4] = <<prev2[walk[w].at]>>

(* The inductive invariant: nobody but the introducer is in before there   *)
(* are two in the ring, requests are handled and walks run only from then  *)
(* on, and until a request comes before all is settled the walks begin     *)
(* when no pointer is written any more, and are fresh.                     *)
Standing ==
  /\ phase[Introducer] = "in"
  /\ \A ip \in Ip \ {Introducer} : phase[ip] # "out" => count > 1
  /\ busy # NULL \/ Walks # {} => count > 1
  /\ round # "mixed" => /\ ~crashed
                        /\ busy # NULL => Walks = {}
                        /\ \A w \in Walks : Fresh(w)

IInv == TypeOK /\ Standing

-----------------------------------------------------------------------------
\* The pointers, and what a request found in them, by their numbers.
LEMMA PointerTypes ==
  ASSUME TypeOK, NEW k \in 1..4, NEW t \in Ip
  PROVE  was[k][t] \in Ip \cup {NULL} /\ pointers[k][t] \in Ip \cup {NULL}
<1>1. pointers \in Pointer \X Pointer \X Pointer \X Pointer
  BY DEF TypeOK, Ring!TypeOK, Ring!Pointer, Pointer, pointers
<1>2. \A p \in Pointer \X Pointer \X Pointer \X Pointer : p[k] \in Pointer
  OBVIOUS
<1> QED
  BY <1>1, <1>2 DEF TypeOK, Pointer

\* A history ends with the value that was added to it.
LEMMA ThenEnds ==
  ASSUME NEW S, NEW h \in Seq(S), h # <<>>, NEW v \in S
  PROVE  Then(h, v) \in Seq(S) /\ Then(h, v) # <<>> /\ Then(h, v)[Len(Then(h, v))] = v
<1>1. CASE h[Len(h)] = v
  BY <1>1 DEF Then
<1>2. CASE h[Len(h)] # v
  BY <1>2, AppendProperties DEF Then
<1> QED
  BY <1>1, <1>2

\* What a walk sees of a pointer ends with what is in it, and begins so too
\* when no request is handled.
LEMMA SeesPointer ==
  ASSUME TypeOK, NEW k \in 1..4, NEW t \in Ip
  PROVE  /\ Sees(k, t) \in Seq(Ip \cup {NULL}) /\ Sees(k, t) # <<>>
         /\ Sees(k, t)[Len(Sees(k, t))] = pointers[k][t]
         /\ busy = NULL => Sees(k, t) = <<pointers[k][t]>>
<1> DEFINE old == was[k][t]
           new == pointers[k][t]
<1>1. old \in Ip \cup {NULL} /\ new \in Ip \cup {NULL}
  BY PointerTypes
<1> HIDE DEF old, new
<1>2. <<old>> \in Seq(Ip \cup {NULL}) /\ <<old>> # <<>> /\ Len(<<old>>) = 1 /\ <<old>>[1] = old
  BY <1>1
<1>3. Sees(k, t) = Then(<<old>>, new)
  BY DEF Sees, old, new
<1>4. busy = NULL => old = new
  BY DEF TypeOK, old, new
<1>5. busy = NULL => Sees(k, t) = <<new>>
  BY <1>2, <1>3, <1>4 DEF Then
<1>6. Then(<<old>>, new) \in Seq(Ip \cup {NULL}) /\ Then(<<old>>, new) # <<>>
      /\ Then(<<old>>, new)[Len(Then(<<old>>, new))] = new
  <2> DEFINE h == <<old>>
             S == Ip \cup {NULL}
  <2>1. h \in Seq(S) /\ h # <<>> /\ new \in S
    BY <1>1, <1>2
  <2> HIDE DEF h, S
  <2>2. Then(h, new) \in Seq(S) /\ Then(h, new) # <<>> /\ Then(h, new)[Len(Then(h, new))] = new
    BY <2>1, ThenEnds
  <2> QED
    BY <2>2 DEF h, S
<1> QED
  BY <1>3, <1>5, <1>6 DEF new

\* The record of a thread that comes to a node.
LEMMA ReadsRecord ==
  ASSUME TypeOK, NEW i \in Nat, NEW t \in Ip \cup {NULL}
  PROVE  /\ WalkOK(Reads(i, t))
         /\ Reads(i, t).do = "read" /\ Reads(i, t).at = t /\ Reads(i, t).i = i
         /\ t \in Ip => \A k \in 1..4 : Reads(i, t).seen[k] = Sees(k, t)
<1> DEFINE s == [k \in 1..4 |-> IF t = NULL THEN <<>> ELSE Sees(k, t)]
<1>1. Reads(i, t) = [do |-> "read", at |-> t, i |-> i, seen |-> s]
  BY DEF Reads
<1>2. \A k \in 1..4 : s[k] = IF t = NULL THEN <<>> ELSE Sees(k, t)
  BY Zenon
<1>3. DOMAIN s = 1..4 /\ s = [k \in 1..4 |-> s[k]]
  BY Zenon
<1> HIDE DEF s
<1>4. \A k \in 1..4 : /\ s[k] \in Seq(Ip \cup {NULL})
                      /\ s[k] # <<>> => t # NULL /\ s[k][Len(s[k])] = pointers[k][t]
                      /\ t \in Ip => s[k] = Sees(k, t)
  <2> TAKE k \in 1..4
  <2>1. CASE t = NULL
    BY <1>2, <2>1, EmptySeq, IntroAssumption
  <2>2. CASE t \in Ip
    BY <1>2, <2>2, SeesPointer, IntroAssumption
  <2> QED
    BY <2>1, <2>2
<1>5. s \in [1..4 -> Seq(Ip \cup {NULL})]
  BY <1>3, <1>4
<1> QED
  BY <1>1, <1>4, <1>5 DEF WalkOK

\* The record of a thread that has read a node and looks at its next1 again.
LEMMA LeavesRecord ==
  ASSUME TypeOK, NEW i \in Nat, NEW t \in Ip
  PROVE  /\ WalkOK(Leaves(i, t))
         /\ Leaves(i, t).do = "next" /\ Leaves(i, t).at = t /\ Leaves(i, t).i = i
         /\ Leaves(i, t).seen[1] = Sees(1, t)
<1> DEFINE s == [k \in 1..4 |-> IF k = 1 THEN Sees(1, t) ELSE <<>>]
<1>1. Leaves(i, t) = [do |-> "next", at |-> t, i |-> i, seen |-> s]
  BY DEF Leaves
<1>2. \A k \in 1..4 : s[k] = IF k = 1 THEN Sees(1, t) ELSE <<>>
  BY Zenon
<1>3. DOMAIN s = 1..4 /\ s = [k \in 1..4 |-> s[k]]
  BY Zenon
<1> HIDE DEF s
<1>4. \A k \in 1..4 : /\ s[k] \in Seq(Ip \cup {NULL})
                      /\ s[k] # <<>> => t # NULL /\ s[k][Len(s[k])] = pointers[k][t]
  <2> TAKE k \in 1..4
  <2>1. CASE k = 1
    BY <1>2, <2>1, SeesPointer, IntroAssumption
  <2>2. CASE k # 1
    BY <1>2, <2>2, EmptySeq
  <2> QED
    BY <2>1, <2>2
<1>5. s \in [1..4 -> Seq(Ip \cup {NULL})]
  BY <1>3, <1>4
<1>6. s[1] = Sees(1, t)
  BY <1>2
<1> QED
  BY <1>1, <1>4, <1>5, <1>6 DEF WalkOK

\* A thread that has ended, or not begun to walk, has seen nothing.
LEMMA NoWalkOK == WalkOK(NoWalk) /\ WalkOK([NoWalk EXCEPT !.do = "begin"])
<1>1. <<>> \in Seq(Ip \cup {NULL})
  OBVIOUS
<1> QED
  BY <1>1 DEF WalkOK, NoWalk

\* Whatever a request will store, the walks stand where they stood.
LEMMA WatchesKeeps ==
  ASSUME TypeOK, GoodRing', Watches
  PROVE  /\ DOMAIN walk' = Slot /\ \A w \in Slot : WalkOK(walk[w])'
         /\ Walks' = Walks
<1>1. \A k \in 1..4, t \in Ip : pointers'[k][t] \in Ip \cup {NULL}
  BY DEF GoodRing, pointers
<1>2. ASSUME NEW w \in Slot PROVE WalkOK(walk[w])' /\ walk'[w].do = walk[w].do
  <2> DEFINE r == walk[w]
             s == [k \in 1..4 |-> IF r.seen[k] = <<>> THEN <<>> ELSE Then(r.seen[k], pointers'[k][r.at])]
  <2>1. WalkOK(r)
    BY DEF TypeOK
  <2>2. walk'[w] = [do |-> r.do, at |-> r.at, i |-> r.i, seen |-> s]
    BY <2>1 DEF Watches, WalkOK
  <2>3. \A k \in 1..4 : /\ s[k] \in Seq(Ip \cup {NULL})
                        /\ s[k] # <<>> => r.at # NULL /\ s[k][Len(s[k])] = pointers'[k][r.at]
    <3> TAKE k \in 1..4
    <3>1. CASE r.seen[k] = <<>>
      BY <3>1
    <3>2. CASE r.seen[k] # <<>>
      <4>1. r.at \in Ip /\ r.seen[k] \in Seq(Ip \cup {NULL})
        BY <2>1, <3>2 DEF WalkOK
      <4>2. pointers'[k][r.at] \in Ip \cup {NULL} /\ r.at # NULL
        BY <1>1, <4>1, IntroAssumption
      <4> QED
        BY <3>2, <4>1, <4>2, ThenEnds
    <3> QED
      BY <3>1, <3>2
  <2>4. s \in [1..4 -> Seq(Ip \cup {NULL})]
    BY <2>3
  <2> HIDE DEF s
  <2> QED
    BY <2>1, <2>2, <2>3, <2>4 DEF WalkOK
<1>3. DOMAIN walk' = Slot
  BY DEF Watches
<1> QED
  BY <1>2, <1>3 DEF Walks

\* A step of one thread leaves the others as they are.
LEMMA OneWalk ==
  ASSUME TypeOK, NEW w \in Slot, NEW r, WalkOK(r), walk' = [walk EXCEPT ![w] = r], UNCHANGED ring
  PROVE  /\ DOMAIN walk' = Slot /\ \A v \in Slot : WalkOK(walk[v])'
         /\ walk'[w] = r /\ \A v \in Slot \ {w} : walk'[v] = walk[v]
         /\ \A v \in Slot \ {w} : Fresh(v)' = Fresh(v)
<1>1. /\ DOMAIN walk' = Slot /\ walk'[w] = r
      /\ \A v \in Slot \ {w} : walk'[v] = walk[v]
  BY DEF TypeOK
<1>2. pointers' = pointers /\ UNCHANGED <<next1, next2, prev1, prev2>>
  BY DEF ring, pointers
<1>3. ASSUME NEW v \in Slot PROVE WalkOK(walk[v])'
  <2>1. \E s : WalkOK(s) /\ walk'[v] = s
    BY <1>1 DEF TypeOK
  <2> QED
    BY <1>2, <2>1 DEF WalkOK
<1> QED
  BY <1>1, <1>2, <1>3 DEF Fresh

\* The head of the ring, as insert() moves it about.
LEMMA HeadsInRing ==
  ASSUME TypeOK
  PROVE  /\ Heads \subseteq Ip
         /\ busy = NULL => Heads = {Introducer}
<1>1. busy # NULL => prev1[busy] \in Ip \cup {NULL}
  BY DEF TypeOK, Ring!TypeOK, Ring!Pointer
<1> QED
  BY <1>1, IntroAssumption DEF Heads

\* What a pointer adds to a list.
LEMMA AddsAddress ==
  ASSUME NEW h \in Seq(Ip \cup {NULL}), NEW t, NEW a \in Adds(h, t)
  PROVE  a \in SUBSET Ip
  BY DEF Adds

\* And if it has one value while the walk is at t, that value.
LEMMA AddsValue == \A p, t : Adds(<<p>>, t) = {{p} \ {NULL, t}}
<1> SUFFICES ASSUME NEW p, NEW t PROVE Adds(<<p>>, t) = {{p} \ {NULL, t}}
  OBVIOUS
<1> DEFINE h == <<p>>
<1>1. Len(h) = 1 /\ h[1] = p /\ 1..Len(h) = {1} /\ 1..1 = {1}
  OBVIOUS
<1> HIDE DEF h
<1>2. CASE p \in {NULL, t}
  <2>1. Adds(h, t) = {{}}
    BY <1>1, <1>2 DEF Adds
  <2> QED
    BY <1>2, <2>1 DEF h
<1>3. CASE p \notin {NULL, t}
  <2>1. Adds(h, t) = {{p}}
    BY <1>1, <1>3 DEF Adds
  <2>2. {p} \ {NULL, t} = {p}
    BY <1>3
  <2> QED
    BY <2>1, <2>2 DEF h
<1> QED
  BY <1>2, <1>3

-----------------------------------------------------------------------------
\* The invariant holds before the first node joins.
LEMMA InitIInv == GoodRing /\ Init => IInv
<1> SUFFICES ASSUME GoodRing, Init PROVE IInv
  OBVIOUS
<1>1. Walks = {} /\ busy = NULL
  BY DEF Init, Walks, NoWalk
<1>2. Standing
  BY <1>1, IntroAssumption DEF Init, Standing
<1>3. Ring!TypeOK /\ was \in Pointer \X Pointer \X Pointer \X Pointer
  BY DEF Init, GoodRing, Ring!TypeOK, Ring!Pointer, Pointer, pointers
<1>4. DOMAIN walk = Slot /\ \A w \in Slot : WalkOK(walk[w])
  BY NoWalkOK DEF Init
<1> QED
  BY <1>1, <1>2, <1>3, <1>4 DEF Init, IInv, TypeOK

(* A request that begins: if it begins a round no walk is running, and     *)
(* otherwise the round is a mixed one.                                     *)
LEMMA BeginsKeeps ==
  ASSUME IInv, GoodRing, GoodRing', NEW ip \in Ip, Begins(ip), Watches, count' > 1,
         phase'[Introducer] = "in", crashed' = crashed
  PROVE  /\ Standing' /\ Ring!TypeOK'
         /\ busy' \in Ip /\ was' \in Pointer \X Pointer \X Pointer \X Pointer
         /\ DOMAIN walk' = Slot /\ \A w \in Slot : WalkOK(walk[w])'
         /\ round' \in {"clean", "lossy", "mixed"}
<1>1. /\ ~crashed /\ busy' = ip /\ was' = pointers
      /\ round' = IF Settled THEN "clean" ELSE "mixed"
  BY DEF Begins, Counts
<1>2. /\ DOMAIN walk' = Slot /\ \A w \in Slot : WalkOK(walk[w])'
      /\ Walks' = Walks
  BY WatchesKeeps DEF IInv
<1>3. round' # "mixed" => Walks' = {}
  BY <1>1, <1>2 DEF Settled
<1>4. Standing'
  BY <1>1, <1>3 DEF Standing
<1>5. Ring!TypeOK' /\ was' \in Pointer \X Pointer \X Pointer \X Pointer
  BY <1>1 DEF GoodRing, Ring!TypeOK, Ring!Pointer, Pointer, pointers
<1> QED
  BY <1>1, <1>2, <1>4, <1>5

\* JOIN: a second node, or one more beside those that are in already.
LEMMA JoinStep ==
  ASSUME IInv, GoodRing, GoodRing', NEW ip \in Ip, Join(ip)
  PROVE  IInv'
<1>1. /\ phase[ip] = "out" /\ ip # Introducer /\ Begins(ip) /\ Watches
      /\ phase' = [phase EXCEPT ![ip] = "joining"]
      /\ UNCHANGED <<reply, told, flight, crashed>>
  BY DEF Join, IInv, Standing
<1>2. count' > 1
  <2>1. CASE ip \in Ring!Members
    BY <1>1, <2>1 DEF Join, GoodRing, ring
  <2>2. CASE ip \notin Ring!Members
    <3>1. Ring!Insert(ip)
      BY <2>2 DEF Join
    <3>2. count' = count + 1
      BY <3>1 DEF Ring!Insert, Ring!InsertSecond, Ring!InsertThird, Ring!InsertFourth, Ring!InsertMore
    <3> QED
      BY <3>2 DEF GoodRing
  <2> QED
    BY <2>1, <2>2
<1>3. phase'[Introducer] = "in"
  BY <1>1 DEF IInv, Standing, TypeOK
<1>4. /\ Standing' /\ Ring!TypeOK'
      /\ busy' \in Ip /\ was' \in Pointer \X Pointer \X Pointer \X Pointer
      /\ DOMAIN walk' = Slot /\ \A w \in Slot : WalkOK(walk[w])'
      /\ round' \in {"clean", "lossy", "mixed"}
  BY <1>1, <1>2, <1>3, BeginsKeeps
<1>5. /\ phase' \in [Ip -> {"out", "joining", "in"}]
      /\ \A x \in Ip : /\ phase'[x] # "joining" => reply'[x] = NULL
                       /\ phase'[x] # "in" => told'[x] = {}
  BY <1>1 DEF IInv, TypeOK
<1> QED
  BY <1>1, <1>4, <1>5, IntroAssumption DEF IInv, TypeOK

\* LEAVE: a ring of two is left as it is, so there are always two.
LEMMA LeaveStep ==
  ASSUME IInv, GoodRing, GoodRing', NEW ip \in Ip, Leave(ip)
  PROVE  IInv'
<1>1. /\ phase[ip] = "in" /\ ip # Introducer /\ Begins(ip) /\ Watches
      /\ UNCHANGED <<phase, reply, told, flight, crashed>>
  BY DEF Leave
<1>2. count' > 1
  <2>1. count > 1
    BY <1>1 DEF IInv, Standing
  <2>2. CASE Ring!Leave(ip)
    <3>1. count > 2 /\ count' = count - 1
      BY <2>2 DEF Ring!Leave
    <3> QED
      BY <3>1 DEF GoodRing
  <2>3. CASE UNCHANGED ring
    BY <2>1, <2>3 DEF ring
  <2> QED
    BY <2>2, <2>3 DEF Leave
<1>3. phase'[Introducer] = "in"
  BY <1>1 DEF IInv, Standing
<1>4. /\ Standing' /\ Ring!TypeOK'
      /\ busy' \in Ip /\ was' \in Pointer \X Pointer \X Pointer \X Pointer
      /\ DOMAIN walk' = Slot /\ \A w \in Slot : WalkOK(walk[w])'
      /\ round' \in {"clean", "lossy", "mixed"}
  BY <1>1, <1>2, <1>3, BeginsKeeps
<1> QED
  BY <1>1, <1>4, IntroAssumption DEF IInv, TypeOK

\* The handler is done: its walk is about to begin, alone if the round is not mixed.
LEMMA RepliesKeeps ==
  ASSUME IInv, GoodRing, Replies
  PROVE  IInv'
<1> DEFINE r == [NoWalk EXCEPT !.do = "begin"]
<1>1. PICK w \in Slot \ Walks : walk' = [walk EXCEPT ![w] = r]
  BY DEF Replies
<1>2. /\ ~crashed /\ busy \in Ip /\ busy' = NULL /\ was' = pointers
      /\ UNCHANGED <<ring, phase, told, flight, crashed, round, faults>>
  BY DEF Replies, IInv, TypeOK
<1>3. WalkOK(r) /\ r.do = "begin" /\ r.i = 0
  BY NoWalkOK DEF NoWalk
<1> HIDE DEF r
<1>4. /\ DOMAIN walk' = Slot /\ \A v \in Slot : WalkOK(walk[v])'
      /\ walk'[w] = r
      /\ \A v \in Slot \ {w} : walk'[v] = walk[v] /\ Fresh(v)' = Fresh(v)
  BY <1>1, <1>2, <1>3, OneWalk DEF IInv
<1>5. \A v \in Walks' : v = w \/ v \in Walks \ {w}
  BY <1>4 DEF Walks
<1>6. Fresh(w)'
  BY <1>3, <1>4 DEF Fresh
<1>7. count > 1
  BY <1>2, IntroAssumption DEF IInv, Standing
<1>8. Standing'
  BY <1>2, <1>4, <1>5, <1>6, <1>7, IntroAssumption DEF IInv, Standing, Walks, ring
<1>9. /\ reply' \in [Ip -> {NULL} \cup SUBSET Ip]
      /\ \A x \in Ip : phase'[x] # "joining" => reply'[x] = NULL
  <2>1. Ring!Neighbours(busy) \in SUBSET Ip
    BY <1>2 DEF GoodRing, Ring!Neighbours
  <2> QED
    BY <1>2, <2>1 DEF Replies, IInv, TypeOK
<1>10. Ring!TypeOK' /\ pointers' = pointers /\ pointers \in Pointer \X Pointer \X Pointer \X Pointer
  BY <1>2 DEF IInv, TypeOK, Ring!TypeOK, Ring!Pointer, Pointer, pointers, ring
<1> QED
  BY <1>2, <1>4, <1>8, <1>9, <1>10 DEF IInv, TypeOK

\* What a step of a walk leaves alone keeps its type.
LEMMA StaysTyped ==
  ASSUME TypeOK, UNCHANGED <<ring, phase, reply, told, request, round>>,
         crashed' \in BOOLEAN, flight' \subseteq (Ip \ {Introducer}) \X SUBSET Ip,
         DOMAIN walk' = Slot, \A w \in Slot : WalkOK(walk[w])'
  PROVE  TypeOK'
<1>1. Ring!TypeOK' /\ pointers' = pointers
  BY DEF TypeOK, Ring!TypeOK, Ring!Pointer, ring, pointers
<1> QED
  BY <1>1 DEF TypeOK, request

\* A walk begins at the head of the ring, which is the introducer unless a
\* request is being handled.
LEMMA WalkBeginsKeeps ==
  ASSUME IInv, GoodRing, NEW w \in Slot, WalkBegins(w)
  PROVE  IInv'
<1>1. PICK t \in Heads : walk' = [walk EXCEPT ![w] = Reads(0, t)]
  BY DEF WalkBegins, Goes
<1>2. /\ w \in Walks /\ ~crashed
      /\ UNCHANGED <<ring, phase, reply, told, request, crashed, round, faults, flight>>
  BY DEF WalkBegins, Goes, Does, Walks
<1>3. t \in Ip /\ (busy = NULL => t = Introducer)
  BY HeadsInRing DEF IInv
<1>4. /\ WalkOK(Reads(0, t)) /\ Reads(0, t).do = "read" /\ Reads(0, t).at = t
      /\ \A k \in 1..4 : Reads(0, t).seen[k] = Sees(k, t)
  BY <1>3, ReadsRecord DEF IInv
<1>5. /\ DOMAIN walk' = Slot /\ \A v \in Slot : WalkOK(walk[v])'
      /\ walk'[w] = Reads(0, t)
      /\ \A v \in Slot \ {w} : walk'[v] = walk[v] /\ Fresh(v)' = Fresh(v)
  BY <1>1, <1>2, <1>4, OneWalk DEF IInv
<1>6. Walks' \subseteq Walks
  BY <1>2, <1>5 DEF Walks
<1>7. ASSUME round # "mixed" PROVE Fresh(w)'
  <2>1. busy = NULL /\ count > 1
    BY <1>2, <1>7 DEF IInv, Standing
  <2>2. t = Introducer /\ next1[t] # NULL
    BY <1>3, <2>1, IntroAssumption DEF GoodRing
  <2>3. \A k \in 1..4 : Sees(k, t) = <<pointers[k][t]>>
    BY <1>3, <2>1, SeesPointer DEF IInv
  <2>4. /\ Sees(1, t) = <<next1[t]>> /\ Sees(2, t) = <<next2[t]>>
        /\ Sees(3, t) = <<prev1[t]>> /\ Sees(4, t) = <<prev2[t]>>
    BY <2>3 DEF pointers
  <2> QED
    BY <1>2, <1>3, <1>4, <1>5, <2>2, <2>4 DEF Fresh, ring
<1>8. Standing'
  BY <1>2, <1>5, <1>6, <1>7 DEF IInv, Standing, Walks, ring, request
<1> QED
  BY <1>2, <1>5, <1>8, StaysTyped DEF IInv, TypeOK

\* A list is read, and the walk looks at next1 again.
LEMMA WalkSendsKeeps ==
  ASSUME IInv, GoodRing, NEW w \in Slot, WalkSends(w)
  PROVE  IInv'
<1> DEFINE t == walk[w].at
           i == walk[w].i
<1>1. /\ w \in Walks /\ ~crashed /\ t # NULL /\ walk[w].do = "read"
      /\ walk' = [walk EXCEPT ![w] = Leaves(i, t)]
      /\ UNCHANGED <<ring, phase, reply, told, request, crashed, round, faults>>
  BY DEF WalkSends, Goes, Does, Walks
<1>2. t \in Ip /\ i \in Nat /\ \A k \in 1..4 : walk[w].seen[k] \in Seq(Ip \cup {NULL})
  BY <1>1 DEF IInv, TypeOK, WalkOK
<1>3. /\ WalkOK(Leaves(i, t)) /\ Leaves(i, t).do = "next" /\ Leaves(i, t).at = t
      /\ Leaves(i, t).seen[1] = Sees(1, t)
  BY <1>2, LeavesRecord DEF IInv
<1>4. /\ DOMAIN walk' = Slot /\ \A v \in Slot : WalkOK(walk[v])'
      /\ walk'[w] = Leaves(i, t)
      /\ \A v \in Slot \ {w} : walk'[v] = walk[v] /\ Fresh(v)' = Fresh(v)
  BY <1>1, <1>3, OneWalk DEF IInv
<1>5. Walks' \subseteq Walks
  BY <1>1, <1>4 DEF Walks
<1>6. ASSUME round # "mixed" PROVE Fresh(w)'
  <2>1. busy = NULL /\ next1[t] # NULL
    BY <1>1, <1>6 DEF IInv, Standing, Fresh
  <2>2. Sees(1, t) = <<pointers[1][t]>>
    BY <1>2, <2>1, SeesPointer DEF IInv
  <2>3. Sees(1, t) = <<next1[t]>>
    BY <2>2 DEF pointers
  <2> QED
    BY <1>1, <1>2, <1>3, <1>4, <2>1, <2>3 DEF Fresh, ring
<1>7. Standing'
  BY <1>1, <1>4, <1>5, <1>6 DEF IInv, Standing, Walks, ring, request
<1>8. flight' \subseteq (Ip \ {Introducer}) \X SUBSET Ip
  <2>1. PICK a \in Adds(walk[w].seen[1], t), b \in Adds(walk[w].seen[2], t),
             c \in Adds(walk[w].seen[3], t), d \in Adds(walk[w].seen[4], t), head \in Heads :
          flight' = flight \cup (IF t \in {head, Introducer} THEN {} ELSE {<<t, a \cup b \cup c \cup d>>})
    BY DEF WalkSends
  <2>2. a \in SUBSET Ip /\ b \in SUBSET Ip /\ c \in SUBSET Ip /\ d \in SUBSET Ip
    <3> DEFINE S(k) == walk[w].seen[k]
    <3>1. /\ S(1) \in Seq(Ip \cup {NULL}) /\ S(2) \in Seq(Ip \cup {NULL})
          /\ S(3) \in Seq(Ip \cup {NULL}) /\ S(4) \in Seq(Ip \cup {NULL})
      BY <1>2
    <3>2. a \in SUBSET Ip
      BY <2>1, <3>1, AddsAddress
    <3>3. b \in SUBSET Ip
      BY <2>1, <3>1, AddsAddress
    <3>4. c \in SUBSET Ip
      BY <2>1, <3>1, AddsAddress
    <3>5. d \in SUBSET Ip
      BY <2>1, <3>1, AddsAddress
    <3> QED
      BY <3>2, <3>3, <3>4, <3>5
  <2>3. a \cup b \cup c \cup d \in SUBSET Ip
    BY <2>2
  <2> QED
    BY <1>2, <2>1, <2>3 DEF IInv, TypeOK
<1> QED
  BY <1>1, <1>4, <1>7, <1>8, StaysTyped DEF IInv, TypeOK

\* The walk comes to the node that next1 leads to, or ends.
LEMMA WalkGoesOnKeeps ==
  ASSUME IInv, GoodRing, NEW w \in Slot, WalkGoesOn(w)
  PROVE  IInv'
<1> DEFINE h == walk[w].seen[1]
           i == walk[w].i
<1>1. /\ w \in Walks /\ ~crashed /\ walk[w].do = "next"
      /\ UNCHANGED <<ring, phase, reply, told, request, crashed, round, faults, flight>>
  BY DEF WalkGoesOn, Goes, Does, Walks
<1>2. i \in Nat /\ h \in Seq(Ip \cup {NULL})
  BY DEF IInv, TypeOK, WalkOK
<1>3. PICK j \in 1..Len(h) :
        walk' = [walk EXCEPT ![w] = IF i + 1 < count THEN Reads(i + 1, h[j]) ELSE NoWalk]
  BY DEF WalkGoesOn, Goes
<1>4. h[j] \in Ip \cup {NULL}
  BY <1>2, <1>3
<1>5. CASE ~(i + 1 < count)
  <2>1. walk' = [walk EXCEPT ![w] = NoWalk] /\ NoWalk.do = "off"
    BY <1>3, <1>5 DEF NoWalk
  <2>2. /\ DOMAIN walk' = Slot /\ \A v \in Slot : WalkOK(walk[v])'
        /\ walk'[w] = NoWalk
        /\ \A v \in Slot \ {w} : walk'[v] = walk[v] /\ Fresh(v)' = Fresh(v)
    BY <1>1, <2>1, OneWalk, NoWalkOK DEF IInv
  <2>3. Walks' \subseteq Walks \ {w}
    BY <2>1, <2>2 DEF Walks
  <2>4. Standing'
    BY <1>1, <2>2, <2>3 DEF IInv, Standing, Walks, ring, request
  <2> QED
    BY <1>1, <2>2, <2>4, StaysTyped DEF IInv, TypeOK
<1>6. CASE i + 1 < count
  <2> DEFINE r == Reads(i + 1, h[j])
  <2>1. walk' = [walk EXCEPT ![w] = r]
    BY <1>3, <1>6
  <2>2. /\ WalkOK(r) /\ r.do = "read" /\ r.at = h[j]
        /\ h[j] \in Ip => \A k \in 1..4 : r.seen[k] = Sees(k, h[j])
    <3> DEFINE t == h[j]
               n == i + 1
    <3>1. t \in Ip \cup {NULL} /\ n \in Nat /\ TypeOK
      BY <1>2, <1>4 DEF IInv
    <3> HIDE DEF t, n
    <3>2. /\ WalkOK(Reads(n, t)) /\ Reads(n, t).do = "read" /\ Reads(n, t).at = t
          /\ t \in Ip => \A k \in 1..4 : Reads(n, t).seen[k] = Sees(k, t)
      BY <3>1, ReadsRecord
    <3> QED
      BY <3>2 DEF t, n
  <2> HIDE DEF r
  <2>3. /\ DOMAIN walk' = Slot /\ \A v \in Slot : WalkOK(walk[v])'
        /\ walk'[w] = r
        /\ \A v \in Slot \ {w} : walk'[v] = walk[v] /\ Fresh(v)' = Fresh(v)
    BY <1>1, <2>1, <2>2, OneWalk DEF IInv
  <2>4. Walks' \subseteq Walks
    BY <1>1, <2>3 DEF Walks
  <2>5. ASSUME round # "mixed" PROVE Fresh(w)'
    <3>1. /\ busy = NULL /\ count > 1 /\ walk[w].at \in Ip /\ next1[walk[w].at] # NULL
          /\ h = <<next1[walk[w].at]>>
      BY <1>1, <2>5 DEF IInv, Standing, Fresh
    <3>2. h[j] = next1[walk[w].at]
      BY <1>3, <3>1
    <3>3. h[j] \in Ip /\ next1[h[j]] # NULL
      BY <3>1, <3>2, IntroAssumption DEF GoodRing
    <3>4. \A k \in 1..4 : Sees(k, h[j]) = <<pointers[k][h[j]]>>
      BY <3>1, <3>3, SeesPointer DEF IInv
    <3> HIDE DEF h
    <3>5. /\ r.seen[1] = <<next1[h[j]]>> /\ r.seen[2] = <<next2[h[j]]>>
          /\ r.seen[3] = <<prev1[h[j]]>> /\ r.seen[4] = <<prev2[h[j]]>>
      BY <2>2, <3>3, <3>4 DEF pointers
    <3> QED
      BY <1>1, <2>2, <2>3, <3>3, <3>5 DEF Fresh, ring
  <2>6. Standing'
    BY <1>1, <2>3, <2>4, <2>5 DEF IInv, Standing, Walks, ring, request
  <2> QED
    BY <1>1, <2>3, <2>6, StaysTyped DEF IInv, TypeOK
<1> QED
  BY <1>5, <1>6

\* A walk that is fresh does not read through NULL.
LEMMA WalkCrashesKeeps ==
  ASSUME IInv, NEW w \in Slot, WalkCrashes(w)
  PROVE  IInv'
<1>1. /\ w \in Walks /\ walk[w].do = "read" /\ crashed' = TRUE
      /\ walk' = [v \in Slot |-> NoWalk] /\ flight' = {}
      /\ UNCHANGED <<ring, phase, reply, told, request, round, faults>>
  BY DEF WalkCrashes, Does, Walks
<1>2. round = "mixed"
  <2>1. SUFFICES ASSUME Fresh(w) PROVE FALSE
    BY <1>1 DEF IInv, Standing
  <2>2. walk[w].at # NULL /\ \A k \in 1..4 : \E x : walk[w].seen[k] = <<x>>
    BY <1>1, <2>1, IntroAssumption DEF Fresh
  <2>3. PICK k \in 1..4 : \E j \in 1..Len(walk[w].seen[k]) :
          walk[w].seen[k][j] = NULL /\ \E i \in 1..j : walk[w].seen[k][i] # NULL
    BY <2>2 DEF WalkCrashes
  <2>4. PICK x : walk[w].seen[k] = <<x>>
    BY <2>2
  <2> QED
    BY <2>3, <2>4
<1>3. Walks' = {}
  BY <1>1 DEF Walks, NoWalk
<1>4. Standing'
  BY <1>1, <1>2, <1>3 DEF IInv, Standing, ring, request
<1>5. DOMAIN walk' = Slot /\ \A v \in Slot : WalkOK(walk[v])'
  <2>1. WalkOK(NoWalk)'
    BY NoWalkOK, <1>1 DEF WalkOK, NoWalk, pointers, ring
  <2> QED
    BY <1>1, <2>1
<1> QED
  BY <1>1, <1>4, <1>5, StaysTyped DEF IInv

(* Replies, datagrams and processes that end touch neither the ring nor a  *)
(* walk, and after a loss a mixed round is still a mixed one.              *)
LEMMA NodesKeep ==
  ASSUME IInv,
         \/ \E ip \in Ip : ReplyLost(ip) \/ Opens(ip) \/ Ends(ip)
         \/ \E d \in flight : Deliver(d) \/ Drop(d)
         \/ UNCHANGED vars
  PROVE  IInv'
<1>1. /\ UNCHANGED <<ring, request, walk, crashed>>
      /\ round' = round \/ (round = "clean" /\ round' = "lossy")
      /\ \A ip \in Ip \ {Introducer} : phase'[ip] # "out" => phase[ip] # "out"
      /\ phase'[Introducer] = "in"
  BY IntroAssumption
  DEF ReplyLost, Opens, Ends, Deliver, Drop, Loses, vars, IInv, Standing, TypeOK
<1> DEFINE TypeKept ==
      /\ phase' \in [Ip -> {"out", "joining", "in"}]
      /\ reply' \in [Ip -> {NULL} \cup SUBSET Ip] /\ told' \in [Ip -> SUBSET Ip]
      /\ \A ip \in Ip : /\ phase'[ip] # "joining" => reply'[ip] = NULL
                        /\ phase'[ip] # "in" => told'[ip] = {}
      /\ flight' \subseteq (Ip \ {Introducer}) \X SUBSET Ip
<1>2. TypeKept
  <2>1. CASE \E ip \in Ip : ReplyLost(ip) \/ Ends(ip)
    BY <2>1 DEF ReplyLost, Ends, IInv, TypeOK
  <2>2. ASSUME NEW ip \in Ip, Opens(ip)
        PROVE  TypeKept
    <3>1. reply[ip] \in SUBSET Ip
      BY <2>2 DEF Opens, IInv, TypeOK
    <3> QED
      BY <2>2, <3>1 DEF Opens, IInv, TypeOK
  <2>3. CASE \E d \in flight : Deliver(d) \/ Drop(d)
    BY <2>3 DEF Deliver, Drop, IInv, TypeOK
  <2>4. CASE UNCHANGED vars
    BY <2>4 DEF vars, IInv, TypeOK
  <2> QED
    BY <2>1, <2>2, <2>3, <2>4
<1>3. Walks' = Walks /\ \A w \in Slot : Fresh(w)' = Fresh(w)
  BY <1>1 DEF Walks, Fresh, ring
<1>4. Standing'
  BY <1>1, <1>3 DEF IInv, Standing, Walks, ring, request
<1>5. pointers' = pointers /\ \A w \in Slot : WalkOK(walk[w])'
  <2>1. pointers' = pointers
    BY <1>1 DEF ring, pointers
  <2> QED
    BY <1>1, <2>1 DEF IInv, TypeOK, WalkOK
<1>6. Ring!TypeOK'
  BY <1>1 DEF IInv, TypeOK, Ring!TypeOK, Ring!Pointer, ring
<1> QED
  BY <1>1, <1>2, <1>4, <1>5, <1>6 DEF IInv, TypeOK, request

\* Every step of the service keeps the invariant, on a ring fit to be walked.
LEMMA NextIInv == IInv /\ GoodRing /\ GoodRing' /\ [Next]_vars => IInv'
<1> SUFFICES ASSUME IInv, GoodRing, GoodRing', [Next]_vars PROVE IInv'
  OBVIOUS
<1>1. ASSUME NEW ip \in Ip, Join(ip) PROVE IInv'
  BY <1>1, JoinStep
<1>2. ASSUME NEW ip \in Ip, Leave(ip) PROVE IInv'
  BY <1>2, LeaveStep
<1>3. ASSUME Replies PROVE IInv'
  BY <1>3, RepliesKeeps
<1>4. ASSUME NEW w \in Slot, Walking(w) PROVE IInv'
  BY <1>4, WalkBeginsKeeps, WalkSendsKeeps, WalkGoesOnKeeps, WalkCrashesKeeps DEF Walking
<1>5. CASE \/ \E ip \in Ip : ReplyLost(ip) \/ Opens(ip) \/ Ends(ip)
           \/ \E d \in flight : Deliver(d) \/ Drop(d)
           \/ UNCHANGED vars
  BY <1>5, NodesKeep
<1> QED
  BY <1>1, <1>2, <1>3, <1>4, <1>5 DEF Next, Progress

(* The inductive invariant, for any number of nodes, walks, changes and    *)
(* losses: whatever a load may yield while a request is being handled, a   *)
(* round that no second request has come into has walks at members only,   *)
(* and they know the pointers as they are.                                 *)
THEOREM Invariance == Spec => []IInv
  BY InitIInv, NextIInv, RingIsGood, PTL DEF Spec

\* The variables keep their types: a node that is not running was told nothing.
THEOREM TypeCorrect == Spec => []TypeOK
<1>1. IInv => TypeOK
  BY DEF IInv
<1> QED
  BY <1>1, Invariance, PTL

(* Neither losses nor processes that end nor the ring that earlier rounds  *)
(* have left break a walk: whenever the introducer reads through a null    *)
(* pointer, a JOIN or a LEAVE has come before all was settled.             *)
THEOREM OverlapCrashes == Spec => []OnlyOverlapCrashes
<1>1. IInv => OnlyOverlapCrashes
  BY DEF IInv, Standing, OnlyOverlapCrashes
<1> QED
  BY <1>1, Invariance, PTL
-----------------------------------------------------------------------------
(* What the walks add: the ring is a path of `count` steps along next1     *)
(* that passes the introducer only at its beginning.                       *)
GoodPath ==
  /\ Ring!Walk[0] = Introducer
  /\ \A i \in 0..count-1 : Ring!Walk[i] \in Ip
  /\ count > 1 => \A i \in 0..count-1 : Ring!Walk[i+1] = next1[Ring!Walk[i]]
  /\ \A i \in 1..count-1 : Ring!Walk[i] # Introducer

\* What any request leaves behind is such a path.
LEMMA RingIsPath == Spec => []GoodPath
<1>1. RingProofs!IInv => GoodPath
  <2> SUFFICES ASSUME RingProofs!IInv PROVE GoodPath
    OBVIOUS
  <2>1. RingProofs!RingAssumption
    BY IntroAssumption DEF RingProofs!RingAssumption
  <2>2. Ring!Walk = RingProofs!Walk
    BY DEF Ring!Walk, RingProofs!Walk
  <2> QED
    BY <2>1, <2>2, RingProofs!WalkIsPath DEF GoodPath
<1> QED
  BY <1>1, RingInvariance, PTL

\* A walk that has met the members in the order of the ring as it is now.
OnTrack(w) ==
  IF walk[w].do = "begin"
    THEN walk[w].i = 0
    ELSE walk[w].i \in 0..count-1 /\ walk[w].at = Ring!Walk[walk[w].i]

\* The last member whose list the walk has read.
Passed(w) == IF walk[w].do = "next" THEN walk[w].i ELSE walk[w].i - 1

(* What a running member has or will have: the right list, or a datagram   *)
(* with it under way.                                                      *)
Informed(ip) ==
  phase[ip] = "in" => \/ told[ip] = Ring!Neighbours(ip)
                      \/ <<ip, Ring!Neighbours(ip)>> \in flight

\* Nothing is under way that another would have to correct.
Addressed ==
  /\ \A d \in flight : d[2] = Ring!Neighbours(d[1])
  /\ \A ip \in Ip : reply[ip] # NULL => reply[ip] = Ring!Neighbours(ip)

(* The strengthening of CleanRoundsRepair: in a clean round all that is    *)
(* under way is right, and the request is still being handled, or its walk *)
(* has informed the members it has passed; when it has ended, all of them. *)
Repairs ==
  crashed \/ round # "clean" \/
    /\ Addressed
    /\ \/ busy # NULL
       \/ \A j \in 1..count-1 : Informed(Ring!Walk[j])
       \/ \E w \in Walks : OnTrack(w) /\ \A j \in 1..Passed(w) : Informed(Ring!Walk[j])

\* A request leaves a round clean only if nothing was under way, and a loss never.
LEMMA CleanFromSettled ==
  /\ Counts /\ round' = "clean" => Settled
  /\ Loses => round' # "clean"
  BY DEF Counts, Loses

\* The first request after all was settled finds nothing under way.
LEMMA RequestRepairs ==
  ASSUME NEW ip \in Ip, Join(ip) \/ Leave(ip)
  PROVE  Repairs'
<1>1. SUFFICES ASSUME round' = "clean" PROVE Repairs'
  BY DEF Repairs
<1>2. /\ Counts /\ busy' = ip /\ UNCHANGED <<reply, flight>>
  BY DEF Join, Leave, Begins
<1>3. Settled
  BY <1>1, <1>2, CleanFromSettled
<1>4. flight' = {} /\ (\A x \in Ip : reply'[x] = NULL) /\ busy' # NULL
  BY <1>2, <1>3, IntroAssumption DEF Settled
<1> QED
  BY <1>4 DEF Repairs, Addressed

\* The steps of the handler and of the walks that leave the ring as it is.
LEMMA RingStays ==
  ASSUME UNCHANGED ring
  PROVE  /\ Ring!Walk' = Ring!Walk /\ count' = count /\ pointers' = pointers
         /\ \A ip : Ring!Neighbours(ip)' = Ring!Neighbours(ip)
  BY DEF ring, Ring!Walk, Ring!Neighbours, pointers

\* A step of one thread leaves the others on their track.
LEMMA OthersOnTrack ==
  ASSUME UNCHANGED ring, NEW v, walk'[v] = walk[v]
  PROVE  OnTrack(v)' = OnTrack(v) /\ Passed(v)' = Passed(v)
  BY RingStays DEF OnTrack, Passed

\* The reply is the list in the ring, and the walk is on its track.
LEMMA RepliesRepair ==
  ASSUME IInv, GoodRing, Repairs, Replies
  PROVE  Repairs'
<1> DEFINE r == [NoWalk EXCEPT !.do = "begin"]
<1>1. PICK w \in Slot \ Walks : walk' = [walk EXCEPT ![w] = r]
  BY DEF Replies
<1>2. /\ ~crashed /\ busy \in Ip
      /\ UNCHANGED <<ring, phase, told, flight, crashed, round>>
  BY DEF Replies, IInv, TypeOK
<1>3. r.do = "begin" /\ r.i = 0
  BY DEF NoWalk
<1> HIDE DEF r
<1>4. SUFFICES ASSUME round = "clean", Addressed PROVE Repairs'
  BY <1>2 DEF Repairs
<1>5. walk'[w] = r
  BY <1>1 DEF IInv, TypeOK
<1>6. w \in Walks' /\ OnTrack(w)' /\ 1..Passed(w)' = {}
  BY <1>3, <1>5 DEF Walks, OnTrack, Passed
<1>7. Addressed'
  <2>1. \A x \in Ip : reply'[x] # NULL => reply'[x] = Ring!Neighbours(x)
    BY <1>2, <1>4 DEF Replies, Addressed, IInv, TypeOK
  <2> QED
    BY <1>2, <1>4, <2>1, RingStays DEF Addressed
<1> QED
  BY <1>6, <1>7 DEF Repairs

\* The list that a fresh walk reads is the one in the ring.
LEMMA FreshSends ==
  ASSUME IInv, GoodRing, NEW w \in Slot, WalkSends(w), Fresh(w), busy = NULL
  PROVE  LET t == walk[w].at IN
         flight' = flight \cup (IF t = Introducer THEN {} ELSE {<<t, Ring!Neighbours(t)>>})
<1> DEFINE t == walk[w].at
           S(k) == Adds(walk[w].seen[k], t)
<1>1. /\ walk[w].seen[1] = <<next1[t]>> /\ walk[w].seen[2] = <<next2[t]>>
      /\ walk[w].seen[3] = <<prev1[t]>> /\ walk[w].seen[4] = <<prev2[t]>>
  BY DEF WalkSends, Does, Fresh
<1>2. /\ S(1) = {{next1[t]} \ {NULL, t}} /\ S(2) = {{next2[t]} \ {NULL, t}}
      /\ S(3) = {{prev1[t]} \ {NULL, t}} /\ S(4) = {{prev2[t]} \ {NULL, t}}
  BY <1>1, AddsValue
<1>3. Heads = {Introducer}
  BY HeadsInRing DEF IInv
<1>4. PICK a \in S(1), b \in S(2), c \in S(3), d \in S(4), head \in Heads :
        flight' = flight \cup (IF t \in {head, Introducer} THEN {} ELSE {<<t, a \cup b \cup c \cup d>>})
  BY DEF WalkSends
<1>5. a \cup b \cup c \cup d = Ring!Neighbours(t)
  BY <1>2, <1>4 DEF Ring!Neighbours
<1> QED
  BY <1>3, <1>4, <1>5

(* A walk that has begun, or read one more list: the datagram it adds is   *)
(* right, and the other walks are where they were.                         *)
LEMMA WalkRepairs ==
  ASSUME IInv, GoodRing, GoodPath, Repairs, NEW v \in Slot, WalkBegins(v) \/ WalkSends(v)
  PROVE  Repairs'
<1> DEFINE t == walk[v].at
<1>1. ~crashed /\ v \in Walks /\ UNCHANGED <<ring, phase, reply, told, busy, crashed, round>>
  BY DEF WalkBegins, WalkSends, Goes, Does, Walks, request
<1>2. SUFFICES ASSUME round = "clean", Addressed PROVE Repairs'
  BY <1>1 DEF Repairs
<1>3. busy = NULL /\ Fresh(v) /\ count > 1
  BY <1>1, <1>2 DEF IInv, Standing
<1>4. /\ flight \subseteq flight'
      /\ flight' \subseteq flight \cup {<<t, Ring!Neighbours(t)>>}
      /\ WalkSends(v) /\ t # Introducer => <<t, Ring!Neighbours(t)>> \in flight'
  <2>1. CASE WalkBegins(v)
    <3>1. flight' = flight /\ walk[v].do = "begin"
      BY <2>1 DEF WalkBegins, Does
    <3> QED
      BY <3>1 DEF WalkSends, Does
  <2>2. CASE WalkSends(v)
    BY <1>3, <2>2, FreshSends
  <2> QED
    BY <2>1, <2>2
<1>5. \A ip : Informed(ip) \/ (WalkSends(v) /\ ip = t /\ t # Introducer) => Informed(ip)'
  BY <1>1, <1>4, RingStays DEF Informed
<1>6. Addressed'
  <2>1. \A d \in flight' : d[2] = Ring!Neighbours(d[1])
    BY <1>2, <1>4 DEF Addressed
  <2> QED
    BY <1>1, <1>2, <2>1, RingStays DEF Addressed
<1>7. CASE \A j \in 1..count-1 : Informed(Ring!Walk[j])
  <2>1. \A j \in 1..count-1 : Informed(Ring!Walk[j])'
    BY <1>1, <1>5, <1>7, RingStays DEF Informed
  <2> QED
    BY <1>1, <1>6, <2>1, RingStays DEF Repairs
<1>8. ASSUME NEW w \in Walks, OnTrack(w), \A j \in 1..Passed(w) : Informed(Ring!Walk[j])
      PROVE  Repairs'
  <2>1. w \in Slot /\ \A j \in 1..Passed(w) : Informed(Ring!Walk[j])'
    BY <1>1, <1>5, <1>8, RingStays DEF Informed, Walks
  <2>2. CASE w # v
    <3>1. walk'[w] = walk[w]
      BY <2>1, <2>2 DEF WalkBegins, WalkSends, Goes, IInv, TypeOK
    <3>2. OnTrack(w)' /\ Passed(w)' = Passed(w) /\ w \in Walks'
      BY <1>1, <1>8, <3>1, OthersOnTrack DEF Walks
    <3> QED
      BY <1>6, <2>1, <3>2 DEF Repairs
  <2>3. CASE w = v /\ WalkBegins(v)
    <3>1. walk'[v] = Reads(0, Introducer)
      <4>1. PICK x \in Heads : walk' = [walk EXCEPT ![v] = Reads(0, x)]
        BY <2>3 DEF WalkBegins, Goes
      <4>2. x = Introducer
        BY <1>3, <4>1, HeadsInRing DEF IInv
      <4> QED
        BY <4>1, <4>2 DEF IInv, TypeOK
    <3>2. walk'[v].do = "read" /\ walk'[v].at = Introducer /\ walk'[v].i = 0
      BY <3>1, ReadsRecord, IntroAssumption DEF IInv
    <3>3. OnTrack(v)' /\ 1..Passed(v)' = {} /\ v \in Walks'
      BY <1>1, <1>3, <3>2, RingStays DEF OnTrack, Passed, Walks, GoodPath, GoodRing
    <3> QED
      BY <1>6, <2>3, <3>3 DEF Repairs
  <2>4. CASE w = v /\ WalkSends(v)
    <3> DEFINE i == walk[v].i
    <3>1. walk'[v] = Leaves(i, t) /\ walk[v].do = "read" /\ t \in Ip /\ i \in Nat
      BY <2>4 DEF WalkSends, Goes, Does, IInv, TypeOK, WalkOK
    <3>2. walk'[v].do = "next" /\ walk'[v].at = t /\ walk'[v].i = i
      BY <3>1, LeavesRecord DEF IInv
    <3>3. i \in 0..count-1 /\ t = Ring!Walk[i] /\ Passed(v) = i - 1
      BY <1>8, <2>4, <3>1 DEF OnTrack, Passed
    <3>4. OnTrack(v)' /\ Passed(v)' = i /\ v \in Walks'
      BY <1>1, <3>2, <3>3, RingStays DEF OnTrack, Passed, Walks
    <3>5. ASSUME NEW j \in 1..i PROVE Informed(Ring!Walk[j])'
      <4>1. CASE j = i
        <5>1. PICK x : x = t /\ x = Ring!Walk[j] /\ x # Introducer
          BY <3>3, <3>5, <4>1 DEF GoodPath, GoodRing
        <5>2. Informed(x)'
          BY <1>5, <2>4, <5>1
        <5>3. Ring!Walk'[j] = x
          BY <1>1, <5>1, RingStays
        <5> QED
          BY <5>2, <5>3 DEF Informed
      <4>2. CASE j # i
        <5>1. j \in 1..Passed(w)
          BY <2>4, <3>1, <3>3, <3>5, <4>2
        <5> QED
          BY <2>1, <5>1
      <4> QED
        BY <4>1, <4>2
    <3> QED
      BY <1>6, <3>4, <3>5 DEF Repairs
  <2> QED
    BY <1>8, <2>2, <2>3, <2>4
<1> QED
  BY <1>2, <1>3, <1>7, <1>8, <1>1 DEF Repairs

\* A walk goes on to the next member, or has informed them all.
LEMMA WalkInformed ==
  ASSUME IInv, GoodRing, GoodPath, Repairs, NEW v \in Slot, WalkGoesOn(v)
  PROVE  Repairs'
<1> DEFINE i == walk[v].i
           h == walk[v].seen[1]
<1>1. /\ ~crashed /\ v \in Walks /\ walk[v].do = "next" /\ i \in Nat
      /\ UNCHANGED <<ring, phase, reply, told, busy, flight, crashed, round>>
  BY DEF WalkGoesOn, Goes, Does, Walks, request, IInv, TypeOK, WalkOK
<1>2. SUFFICES ASSUME round = "clean", Addressed PROVE Repairs'
  BY <1>1 DEF Repairs
<1>3. busy = NULL /\ Fresh(v) /\ count > 1 /\ count \in Nat
  BY <1>1, <1>2 DEF IInv, Standing, GoodRing
<1>4. Addressed' /\ \A j : Informed(Ring!Walk[j])' = Informed(Ring!Walk[j])
  BY <1>1, <1>2, RingStays DEF Addressed, Informed
<1>5. CASE \A j \in 1..count-1 : Informed(Ring!Walk[j])
  BY <1>1, <1>4, <1>5, RingStays DEF Repairs
<1>6. ASSUME NEW w \in Walks, OnTrack(w), \A j \in 1..Passed(w) : Informed(Ring!Walk[j])
      PROVE  Repairs'
  <2>1. CASE w # v
    <3>1. walk'[w] = walk[w]
      BY <2>1 DEF WalkGoesOn, Goes, IInv, TypeOK, Walks
    <3>2. OnTrack(w)' /\ Passed(w)' = Passed(w) /\ w \in Walks'
      BY <1>1, <1>6, <3>1, OthersOnTrack DEF Walks
    <3> QED
      BY <1>4, <1>6, <3>2 DEF Repairs
  <2>2. CASE w = v
    <3>1. i \in 0..count-1 /\ walk[v].at = Ring!Walk[i] /\ Passed(v) = i
      BY <1>1, <1>6, <2>2 DEF OnTrack, Passed
    <3>2. CASE ~(i + 1 < count)
      <4>1. i = count - 1
        BY <1>1, <1>3, <3>1, <3>2
      <4> QED
        BY <1>5, <1>6, <2>2, <3>1, <4>1
    <3>3. CASE i + 1 < count
      <4> DEFINE n == i + 1
                 x == next1[walk[v].at]
      <4>1. walk'[v] = Reads(n, x)
        <5>1. PICK j \in 1..Len(h) : walk' = [walk EXCEPT ![v] = Reads(n, h[j])]
          BY <3>3 DEF WalkGoesOn, Goes
        <5>2. h = <<x>>
          BY <1>1, <1>3 DEF Fresh
        <5>3. h[j] = x
          BY <5>1, <5>2
        <5> QED
          BY <5>1, <5>3 DEF IInv, TypeOK
      <4>2. x = Ring!Walk[n] /\ n \in 0..count-1 /\ n \in Nat /\ x \in Ip
        BY <1>1, <1>3, <3>1, <3>3 DEF GoodPath
      <4> HIDE DEF x, n
      <4>3. walk'[v].do = "read" /\ walk'[v].at = x /\ walk'[v].i = n
        BY <4>1, <4>2, ReadsRecord DEF IInv
      <4>4. OnTrack(v)' /\ Passed(v)' = n - 1 /\ v \in Walks'
        BY <1>1, <4>2, <4>3, RingStays DEF OnTrack, Passed, Walks
      <4>5. n - 1 = i
        BY <1>1 DEF n
      <4> QED
        BY <1>4, <1>6, <2>2, <3>1, <4>4, <4>5 DEF Repairs
    <3> QED
      BY <3>2, <3>3
  <2> QED
    BY <2>1, <2>2
<1> QED
  BY <1>1, <1>2, <1>3, <1>5, <1>6 DEF Repairs

(* A node that takes a reply or a datagram takes the right list; one that  *)
(* ends has nothing to take.                                               *)
LEMMA NodesRepair ==
  ASSUME IInv, GoodRing, GoodPath, Repairs,
         \/ \E ip \in Ip : ReplyLost(ip) \/ Opens(ip) \/ Ends(ip)
         \/ \E d \in flight : Deliver(d) \/ Drop(d)
         \/ UNCHANGED vars
  PROVE  Repairs'
<1>1. UNCHANGED <<ring, walk, busy, crashed>>
  BY DEF request, ReplyLost, Opens, Ends, Deliver, Drop, vars
<1>2. /\ Ring!Walk' = Ring!Walk /\ count' = count /\ Walks' = Walks
      /\ \A ip : Ring!Neighbours(ip)' = Ring!Neighbours(ip)
      /\ \A w : OnTrack(w)' = OnTrack(w) /\ Passed(w)' = Passed(w)
  BY <1>1, RingStays DEF Walks, OnTrack, Passed
<1>3. SUFFICES ASSUME ~crashed, round' = "clean" PROVE Repairs'
  BY <1>1 DEF Repairs
<1>4. ~(\E ip \in Ip : ReplyLost(ip)) /\ ~(\E d \in flight : Drop(d)) /\ round = "clean"
  BY <1>3, CleanFromSettled DEF ReplyLost, Opens, Ends, Deliver, Drop, vars
<1>5. Addressed
  BY <1>3, <1>4 DEF Repairs
<1>6. Addressed' /\ \A x \in Ip \ {Introducer} : Informed(x) => Informed(x)'
  <2>1. ASSUME NEW ip \in Ip, Opens(ip) PROVE <1>6!1 /\ <1>6!2
    BY <1>2, <1>5, <2>1 DEF Opens, Addressed, Informed, IInv, TypeOK
  <2>2. ASSUME NEW ip \in Ip, Ends(ip) PROVE <1>6!1 /\ <1>6!2
    BY <1>2, <1>5, <2>2 DEF Ends, Addressed, Informed, IInv, TypeOK
  <2>3. ASSUME NEW d \in flight, Deliver(d) PROVE <1>6!1 /\ <1>6!2
    <3>1. PICK y \in Ip, ns \in SUBSET Ip : d = <<y, ns>>
      BY <2>3 DEF IInv, TypeOK
    <3>2. ns = Ring!Neighbours(y)
      BY <1>5, <2>3, <3>1 DEF Addressed
    <3>3. flight' = flight \ {d} /\ UNCHANGED <<phase, reply>>
      BY <2>3 DEF Deliver
    <3>4. Addressed'
      BY <1>2, <1>5, <3>3 DEF Addressed
    <3>5. ASSUME NEW x \in Ip, Informed(x) PROVE Informed(x)'
      <4>1. CASE x = y
        BY <1>2, <2>3, <3>1, <3>2, <4>1 DEF Deliver, Informed, IInv, TypeOK
      <4>2. CASE x # y
        <5>1. told'[x] = told[x]
          BY <2>3, <3>1, <4>2 DEF Deliver, IInv, TypeOK
        <5>2. <<x, Ring!Neighbours(x)>> # d
          BY <3>1, <4>2
        <5> QED
          BY <1>2, <3>3, <3>5, <5>1, <5>2 DEF Informed
      <4> QED
        BY <4>1, <4>2
    <3> QED
      BY <3>4, <3>5
  <2>4. CASE UNCHANGED vars
    BY <1>2, <1>5, <2>4 DEF vars, Addressed, Informed
  <2> QED
    BY <1>4, <2>1, <2>2, <2>3, <2>4
<1>7. \A j \in 1..count-1 : Informed(Ring!Walk[j]) => Informed(Ring!Walk[j])'
  <2> TAKE j \in 1..count-1
  <2>1. Ring!Walk[j] \in Ip \ {Introducer} /\ Ring!Walk'[j] = Ring!Walk[j]
    BY <1>2 DEF GoodPath, GoodRing
  <2> QED
    BY <1>6, <2>1 DEF Informed
<1>8. CASE \A j \in 1..count-1 : Informed(Ring!Walk[j])
  BY <1>2, <1>6, <1>7, <1>8 DEF Repairs
<1>9. ASSUME NEW w \in Walks, OnTrack(w), \A j \in 1..Passed(w) : Informed(Ring!Walk[j])
      PROVE  Repairs'
  <2>1. w \in Walks' /\ OnTrack(w)' /\ Passed(w)' = Passed(w)
    BY <1>1, <1>2, <1>9
  <2>2. \A j \in 1..Passed(w) : j \in 1..count-1
    <3>1. w \in Slot /\ walk[w].i \in Nat
      BY <1>9 DEF Walks, IInv, TypeOK, WalkOK
    <3> QED
      BY <1>9, <3>1 DEF OnTrack, Passed, GoodRing
  <2> QED
    BY <1>6, <1>7, <1>9, <2>1, <2>2 DEF Repairs
<1>10. CASE busy # NULL
  BY <1>1, <1>6, <1>10 DEF Repairs
<1> QED
  BY <1>3, <1>4, <1>8, <1>9, <1>10 DEF Repairs

\* Every step of the service keeps the strengthening.
LEMMA NextRepairs ==
  ASSUME IInv, GoodRing, GoodPath, Repairs, [Next]_vars
  PROVE  Repairs'
<1>1. ASSUME NEW ip \in Ip, Join(ip) \/ Leave(ip) PROVE Repairs'
  BY <1>1, RequestRepairs
<1>2. ASSUME Replies PROVE Repairs'
  BY <1>2, RepliesRepair
<1>3. ASSUME NEW v \in Slot, Walking(v) PROVE Repairs'
  <2>1. CASE WalkBegins(v) \/ WalkSends(v)
    BY <2>1, WalkRepairs
  <2>2. CASE WalkGoesOn(v)
    BY <2>2, WalkInformed
  <2>3. CASE WalkCrashes(v)
    BY <2>3 DEF WalkCrashes, Repairs
  <2> QED
    BY <1>3, <2>1, <2>2, <2>3 DEF Walking
<1>4. CASE \/ \E ip \in Ip : ReplyLost(ip) \/ Opens(ip) \/ Ends(ip)
           \/ \E d \in flight : Deliver(d) \/ Drop(d)
           \/ UNCHANGED vars
  BY <1>4, NodesRepair
<1> QED
  BY <1>1, <1>2, <1>3, <1>4 DEF Next, Progress

(* Losses and overtaking do no lasting harm: a change that comes when all  *)
(* is settled and is itself undisturbed leaves every running member with   *)
(* its right list, whatever went wrong before.                             *)
THEOREM CleanRoundsDo == Spec => []CleanRoundsRepair
<1>1. GoodRing /\ Init => Repairs
  <2> SUFFICES ASSUME GoodRing, Init PROVE Repairs
    OBVIOUS
  <2>1. count = 1 /\ flight = {} /\ \A ip \in Ip : reply[ip] = NULL
    BY DEF Init, Ring!Init
  <2> QED
    BY <2>1 DEF Repairs, Addressed
<1>2. ASSUME GoodRing, GoodPath, Repairs PROVE CleanRoundsRepair
  <2> SUFFICES ASSUME Settled, ~crashed, round = "clean",
                      NEW ip \in Ring!Members \ {Introducer}, phase[ip] = "in"
               PROVE  told[ip] = Ring!Neighbours(ip)
    BY DEF CleanRoundsRepair
  <2>1. PICK j \in 0..count-1 : ip = Ring!Walk[j]
    BY DEF Ring!Members
  <2>2. j \in 1..count-1
    BY <1>2, <2>1 DEF GoodPath, GoodRing
  <2> QED
    BY <1>2, <2>1, <2>2 DEF Repairs, Settled, Informed
<1> QED
  BY <1>1, <1>2, NextRepairs, Invariance, RingIsGood, RingIsPath, PTL DEF Spec
=============================================================================
