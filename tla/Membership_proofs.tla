-------------------------- MODULE Membership_proofs --------------------------
(***************************************************************************)
(* TypeOK of the failure detection, for every ring and every number of     *)
(* nodes, crashes and lost heartbeats, and NoHastySuspicion, for every     *)
(* ring that has grown by joins.  The hard parts of the first are          *)
(* relations: a node marks only entries of its list as failed, also when   *)
(* gossip or a detector that compared the time stamps earlier tells it to, *)
(* and its neighbour list never outgrows its four places, whether the      *)
(* entries came from the introducer or from heartbeats.                    *)
(***************************************************************************)
EXTENDS Membership, FiniteSetTheorems, TLAPS

Heartbeat ==
  [from : Node, to : Node, list : [known : SUBSET Node, failed : SUBSET Node]]

\* The tables of the nodes are functions, and heartbeats name nodes.
Shapes ==
  /\ known \in [Node -> SUBSET Node] /\ failed \in [Node -> SUBSET Node]
  /\ age \in [Node -> [Node -> 0..2]]
  /\ local \in [Node -> SUBSET Node] /\ room \in [Node -> 0..4]
  /\ verdict \in [Node -> SUBSET Node]
  /\ flight \subseteq Heartbeat

\* Flags and verdicts are about entries of the membership list.
OnlyEntries ==
  \A n \in Node : failed[n] \subseteq known[n] /\ verdict[n] \subseteq known[n]

FourPlaces == \A n \in Node : Cardinality(local[n]) + room[n] <= 4

(* The inductive invariant.                                                *)
IInv ==
  /\ up \subseteq Node /\ owed \subseteq up /\ phase \in 0..Second-1
  /\ Shapes /\ OnlyEntries /\ FourPlaces

-----------------------------------------------------------------------------
(* A list of at most four addresses leaves room for the others.            *)
LEMMA RoomFor ==
  ASSUME NEW S, IsFiniteSet(S), Cardinality(S) <= 4
  PROVE  Room(S) \in 0..4 /\ Cardinality(S) + Room(S) <= 4
  <1>1. Cardinality(S) \in Nat
    BY FS_CardinalityType
  <1> QED BY <1>1 DEF Room

(* A heartbeat brings its sender in at most one place.                     *)
LEMMA OnePlace ==
  ASSUME NEW S, IsFiniteSet(S), NEW x, NEW T, T \subseteq {x}
  PROVE  /\ Cardinality(S) \in Nat
         /\ T = {} => Cardinality(S \cup T) = Cardinality(S)
         /\ Cardinality(S \cup T) \in Nat /\ Cardinality(S \cup T) <= Cardinality(S) + 1
  <1>1. CASE T = {}
    <2>1. S \cup T = S
      BY <1>1
    <2>2. Cardinality(S) \in Nat
      BY FS_CardinalityType
    <2>3. Cardinality(S \cup T) = Cardinality(S)
      BY <2>1
    <2> QED BY <2>2, <2>3
  <1>2. CASE T # {}
    <2>1. T = {x}
      BY <1>2
    <2>2. /\ IsFiniteSet(S \cup {x})
          /\ Cardinality(S \cup {x}) = IF x \in S THEN Cardinality(S) ELSE Cardinality(S) + 1
      BY FS_AddElement
    <2>3. Cardinality(S) \in Nat
      BY FS_CardinalityType
    <2>4. S \cup T = S \cup {x} /\ T # {}
      BY <2>1
    <2> QED BY <2>2, <2>3, <2>4
  <1> QED BY <1>1, <1>2

(* The lists a node is given fit into its four places.                     *)
LEMMA InitHolds == ASSUME MembershipAssumption, Init PROVE IInv
  <1>1. \A n \in Node : IsFiniteSet(Given[n])
    BY FS_Subset DEF MembershipAssumption
  <1>2. \A n \in Node : Room(Given[n]) \in 0..4 /\ Cardinality(Given[n]) + Room(Given[n]) <= 4
    BY <1>1, RoomFor DEF MembershipAssumption
  <1>3. Shapes
    BY <1>2 DEF Init, Shapes, MembershipAssumption
  <1>4. OnlyEntries
    BY DEF Init, OnlyEntries
  <1>5. FourPlaces
    BY <1>2 DEF Init, FourPlaces
  <1> QED BY <1>3, <1>4, <1>5 DEF Init, IInv, Ordinary, MembershipAssumption

(* Heartbeats carry what their senders know.                               *)
LEMMA BeatStep == ASSUME MembershipAssumption, IInv, NEW n \in Node, Beat(n) PROVE IInv'
  <1>1. Message(n) \in [known : SUBSET Node, failed : SUBSET Node]
    BY DEF IInv, Shapes, Message
  <1>2. Targets(n) \subseteq Node
    BY DEF IInv, Shapes, Targets, MembershipAssumption
  <1>3. flight' \subseteq Heartbeat
    <2>1. PICK endFailed \in EndReads :
            flight' = flight \cup {[from |-> n, to |-> m, list |-> Message(n)] :
                        m \in {m \in Targets(n) : IF m \in known[n] THEN m \notin failed[n]
                                                                    ELSE ~endFailed}}
      BY DEF Beat
    <2> QED BY <1>1, <1>2, <2>1 DEF IInv, Shapes, Heartbeat
  <1> QED BY <1>3 DEF Beat, IInv, Shapes, OnlyEntries, FourPlaces, lists, places

(* A heartbeat: whatever it accuses was or becomes an entry.               *)
LEMMA ReceiveStep ==
  ASSUME MembershipAssumption, IInv, NEW h \in flight, Receive(h)
  PROVE  IInv'
  <1>1. PICK n \in Node : n = h.to
    BY DEF IInv, Shapes, Heartbeat
  <1>2. PICK s \in Node : s = h.from
    BY DEF IInv, Shapes, Heartbeat
  <1>3. h.list.known \subseteq Node /\ h.list.failed \subseteq Node
    BY DEF IInv, Shapes, Heartbeat
  <1>4. Shapes
    BY DEF IInv
  <1>5. PICK nearby : nearby = local[n] \cup {x \in {s} : MovesIn(n, x)}
    OBVIOUS
  <1>6. nearby \subseteq Node
    BY <1>4, <1>5 DEF Shapes
  <1>7. PICK accused : accused = (h.list.failed \cap (known[n] \cup {s})) \ nearby
    OBVIOUS
  <1>8. /\ flight' = flight \ {h}
        /\ known' = [known EXCEPT ![n] = @ \cup Fresh(n, h)]
        /\ failed' = [failed EXCEPT ![n] = (@ \ Cleared(n, h)) \cup accused]
        /\ age' = [age EXCEPT ![n] = [m \in Node |-> IF m \in Fresh(n, h) THEN 0 ELSE @[m]]]
        /\ local' = [local EXCEPT ![n] = nearby]
        /\ room' = [room EXCEPT ![n] = IF MovesIn(n, s) THEN @ - 1 ELSE @]
        /\ UNCHANGED <<up, owed, verdict, beaten, scanned, phase, faults>>
    BY <1>1, <1>2, <1>5, <1>7 DEF Receive
  <1>9. Fresh(n, h) \subseteq Node /\ s \in Fresh(n, h)
    BY <1>2, <1>3 DEF Fresh
  <1>10. /\ known' \in [Node -> SUBSET Node] /\ failed' \in [Node -> SUBSET Node]
         /\ local' \in [Node -> SUBSET Node] /\ flight' \subseteq Heartbeat
    BY <1>3, <1>4, <1>6, <1>7, <1>8, <1>9 DEF Shapes
  <1>11. age' \in [Node -> [Node -> 0..2]]
    <2>1. [m \in Node |-> IF m \in Fresh(n, h) THEN 0 ELSE age[n][m]] \in [Node -> 0..2]
      BY <1>4 DEF Shapes
    <2> QED BY <1>4, <1>8, <2>1 DEF Shapes
  <1>12. room' \in [Node -> 0..4]
    BY <1>4, <1>8 DEF Shapes, MovesIn
  <1>13. OnlyEntries'
    <2>1. /\ \A m \in Node : m # n => known'[m] = known[m] /\ failed'[m] = failed[m]
          /\ known'[n] = known[n] \cup Fresh(n, h)
          /\ failed'[n] = (failed[n] \ Cleared(n, h)) \cup accused
          /\ verdict' = verdict
      BY <1>4, <1>8 DEF Shapes
    <2>2. accused \subseteq known'[n]
      BY <1>7, <1>9, <2>1
    <2> QED BY <2>1, <2>2 DEF IInv, OnlyEntries
  <1>14. FourPlaces'
    <2>1. /\ \A m \in Node : m # n => local'[m] = local[m] /\ room'[m] = room[m]
          /\ local'[n] = nearby
          /\ room'[n] = IF MovesIn(n, s) THEN room[n] - 1 ELSE room[n]
      BY <1>4, <1>8 DEF Shapes
    <2>2. PICK T : T = {x \in {s} : MovesIn(n, x)}
      OBVIOUS
    <2>3. IsFiniteSet(local[n])
      BY <1>4, FS_Subset DEF Shapes, MembershipAssumption
    <2>4. /\ Cardinality(local[n]) \in Nat
          /\ T = {} => Cardinality(nearby) = Cardinality(local[n])
          /\ Cardinality(nearby) \in Nat /\ Cardinality(nearby) <= Cardinality(local[n]) + 1
      <3>1. T \subseteq {s} /\ nearby = local[n] \cup T
        BY <1>5, <2>2
      <3> QED BY <2>3, <3>1, OnePlace
    <2>5. ~MovesIn(n, s) => T = {}
      BY <2>2
    <2>6. room[n] \in 0..4 /\ Cardinality(local[n]) + room[n] <= 4
      BY <1>4 DEF Shapes, IInv, FourPlaces
    <2>7. Cardinality(local'[n]) + room'[n] <= 4
      BY <2>1, <2>4, <2>5, <2>6
    <2> QED BY <2>1, <2>7 DEF IInv, FourPlaces
  <1> QED BY <1>4, <1>8, <1>10, <1>11, <1>12, <1>13, <1>14 DEF IInv, Shapes

(* UPDATE replaces the neighbour list, and with it what room is left.      *)
LEMMA UpdateStep == ASSUME MembershipAssumption, IInv, NEW n \in Node, Update(n) PROVE IInv'
  <1>1. IsFiniteSet(Ring[n]) /\ Cardinality(Ring[n]) <= 4 /\ Ring[n] \subseteq Node
    BY FS_Subset DEF MembershipAssumption
  <1>2. Room(Ring[n]) \in 0..4 /\ Cardinality(Ring[n]) + Room(Ring[n]) <= 4
    BY <1>1, RoomFor
  <1>3. Shapes'
    BY <1>1, <1>2 DEF IInv, Shapes, Update, lists
  <1>4. FourPlaces'
    BY <1>2 DEF IInv, Shapes, FourPlaces, Update
  <1> QED BY <1>3, <1>4 DEF IInv, OnlyEntries, Update, lists

(* A crash leaves empty tables, and no datagram that would fill them.      *)
LEMMA CrashStep == ASSUME IInv, NEW n \in Node, Crash(n) PROVE IInv'
  <1>1. Shapes'
    BY DEF IInv, Shapes, Crash
  <1>2. OnlyEntries'
    BY DEF IInv, Shapes, OnlyEntries, Crash
  <1>3. FourPlaces'
    <2>1. /\ \A m \in Node : m # n => local'[m] = local[m] /\ room'[m] = room[m]
          /\ local'[n] = {} /\ room'[n] = 4
      BY DEF IInv, Shapes, Crash
    <2>2. Cardinality({}) = 0
      BY FS_EmptySet
    <2> QED BY <2>1, <2>2 DEF IInv, FourPlaces
  <1> QED BY <1>1, <1>2, <1>3 DEF IInv, Crash

(* Time stamps stop at two seconds, and the clock's second starts over.    *)
LEMMA TickStep == ASSUME MembershipAssumption, IInv, Tick PROVE IInv'
  <1>1. age' \in [Node -> [Node -> 0..2]]
    BY DEF IInv, Shapes, Tick
  <1>2. phase' \in 0..Second-1
    BY DEF IInv, Tick, MembershipAssumption
  <1> QED BY <1>1, <1>2 DEF IInv, Shapes, OnlyEntries, FourPlaces, Tick, places

(* Every step keeps the inductive invariant.                               *)
LEMMA NextKeeps == ASSUME MembershipAssumption, IInv, [Next]_vars PROVE IInv'
  <1>1. ASSUME NEW n \in Node, Compare(n) PROVE IInv'
    <2>1. Silent(n) \subseteq known[n] /\ Silent(n) \subseteq Node
      BY DEF IInv, Shapes, Silent
    <2>2. Shapes'
      BY <1>1, <2>1 DEF IInv, Shapes, Compare, lists, places
    <2>3. OnlyEntries'
      BY <1>1, <2>1 DEF IInv, Shapes, OnlyEntries, Compare, lists
    <2> QED BY <1>1, <2>2, <2>3 DEF IInv, FourPlaces, Compare, places
  <1>2. ASSUME NEW n \in Node, Mark(n) PROVE IInv'
    <2>1. Shapes'
      BY <1>2 DEF IInv, Shapes, Mark, places
    <2>2. OnlyEntries'
      BY <1>2 DEF IInv, Shapes, OnlyEntries, Mark
    <2> QED BY <1>2, <2>1, <2>2 DEF IInv, FourPlaces, Mark, places
  <1>3. ASSUME NEW h \in flight, Drop(h) PROVE IInv'
    BY <1>3 DEF IInv, Shapes, OnlyEntries, FourPlaces, Drop, lists, places
  <1>4. CASE UNCHANGED vars
    BY <1>4 DEF IInv, Shapes, OnlyEntries, FourPlaces, vars, lists, places
  <1>5. ASSUME NEW n \in Node, Take(n) PROVE IInv'
    BY <1>3, <1>5, ReceiveStep DEF Take
  <1> QED BY <1>1, <1>2, <1>4, <1>5, BeatStep, UpdateStep, CrashStep, TickStep DEF Next

(* However the ring is made up and whatever gets lost, flags and verdicts  *)
(* are about entries of the membership list only, and a neighbour list     *)
(* never outgrows its four places.                                         *)
THEOREM TypeCorrect == Spec => []TypeOK
  <1>1. Init => IInv
    BY InitHolds, MembershipAssumption
  <1>2. IInv /\ [Next]_vars => IInv'
    BY NextKeeps, MembershipAssumption
  <1>3. IInv => TypeOK
    BY DEF IInv, Shapes, OnlyEntries, FourPlaces, TypeOK
  <1>4. QED
    BY <1>1, <1>2, <1>3, PTL DEF Spec

-----------------------------------------------------------------------------
(* NoHastySuspicion.  While fewer heartbeats are lost than a second has    *)
(* ticks, nobody alive is accused, in a list or on its way, and the time   *)
(* stamp of every neighbour that runs is younger than the heartbeats it    *)
(* may have lost allow.  Two neighbours of which one has never heard of    *)
(* the other are the hard case: the one may not be sent to, so that only   *)
(* what the other sends can end it, and that must have been lost as well.  *)

UnderWay(s, r) == \E h \in flight : h.from = s /\ h.to = r

\* At most so many ticks have passed since m's time stamp at n.
Ticks(n, m) == CASE age[n][m] = 0 -> 0
                 [] age[n][m] = 1 -> phase + 1
                 [] age[n][m] = 2 -> Second + phase + 1

\* Nobody forgets whom it was given, and no time passes before all are told.
Entered ==
  /\ \A n \in up : Given[n] \subseteq known[n]
  /\ owed # {} => \A n, m \in Node : age[n][m] = 0

\* Once told, a node has its place in the ring and no other neighbours.
Placed ==
  /\ \A n \in up \cap Ordinary : /\ n \in owed => Given[n] \subseteq local[n]
                                 /\ n \notin owed => local[n] = Ring[n]
  /\ (\A n \in Node : Given[n] \subseteq Ring[n]) =>
       /\ \A n \in up \cap Ordinary : local[n] \subseteq Ring[n]
       /\ \A h \in flight : h.to \in Ring[h.from]

NoneAccused ==
  /\ \A n \in Node : failed[n] \cap up = {} /\ verdict[n] \cap up = {}
  /\ \A h \in flight : h.list.failed \cap up = {}

PairInTime(n, m) ==
  /\ Ticks(n, m) <= faults.lost + 1
  /\ n \in known[m] /\ m \in beaten /\ ~UnderWay(m, n) => Ticks(n, m) <= faults.lost
  /\ n \notin known[m] =>
       /\ Ticks(n, m) <= faults.lost
       /\ n \in beaten /\ ~UnderWay(n, m) => Ticks(n, m) + 1 <= faults.lost

InTime ==
  \A n \in up \cap Ordinary, m \in up : m \in Ring[n] \cap known[n] => PairInTime(n, m)

Calm == NoneAccused /\ InTime

(* The inductive invariant of NoHastySuspicion.                            *)
HInv ==
  /\ IInv /\ Entered /\ Placed
  /\ faults \in [crashes : Nat, lost : Nat]
  /\ faults.lost < Second => Calm

(* In the beginning nobody is accused and every time stamp is new.         *)
LEMMA InitHeard == ASSUME MembershipAssumption, JoinedInTurn, Init PROVE HInv
  <1>1. IInv
    BY InitHolds
  <1>2. Entered
    BY DEF Init, Entered
  <1>3. Placed
    BY DEF Init, Placed, Ordinary, MembershipAssumption
  <1>4. NoneAccused
    BY DEF Init, NoneAccused
  <1>5. InTime
    BY DEF Init, InTime, PairInTime, Ticks, Ordinary
  <1> QED BY <1>1, <1>2, <1>3, <1>4, <1>5 DEF HInv, Calm, Init

(* The lists of those who have been told leave no place for a stranger.    *)
LEMMA NoStranger ==
  ASSUME MembershipAssumption, JoinedInTurn, HInv, NEW n \in up \cap Ordinary, n \notin owed,
         NEW h \in flight, h.to = n, MovesIn(n, h.from)
  PROVE  h.from \in Ring[n]
  <1>1. n \in Node /\ h.from \in Node
    BY DEF HInv, IInv, Shapes, Heartbeat
  <1>2. local[n] = Ring[n] /\ Cardinality(local[n]) + room[n] <= 4 /\ room[n] \in Nat
    BY <1>1 DEF HInv, Placed, IInv, Shapes, FourPlaces
  <1>3. CASE Cardinality(Ring[n]) = 4
    BY <1>2, <1>3 DEF MovesIn
  <1>4. CASE \A m \in Node : Given[m] \subseteq Ring[m]
    BY <1>1, <1>4 DEF HInv, Placed, JoinedInTurn
  <1> QED BY <1>1, <1>3, <1>4 DEF JoinedInTurn

(* A detector finds nobody silent who runs.                                *)
LEMMA SilentAreDown ==
  ASSUME MembershipAssumption, JoinedInTurn, HInv, faults.lost < Second,
         NEW n \in up \cap Ordinary
  PROVE  Silent(n) \cap up = {}
  <1> SUFFICES ASSUME NEW m \in Silent(n) \cap up PROVE FALSE
    OBVIOUS
  <1>1. n \in Node /\ m \in Node /\ m \in local[n] /\ m \in known[n] /\ age[n][m] >= 2
    BY DEF Silent, HInv, IInv
  <1>2. age[n][m] = 2
    BY <1>1 DEF HInv, IInv, Shapes
  <1>3. n \notin owed
    BY <1>1, <1>2 DEF HInv, Entered
  <1>4. m \in Ring[n]
    BY <1>1, <1>3 DEF HInv, Placed
  <1>5. Ticks(n, m) <= faults.lost + 1
    BY <1>1, <1>4 DEF HInv, Calm, InTime, PairInTime
  <1>6. Second \in Nat /\ phase \in Nat /\ faults.lost \in Nat
    BY DEF HInv, IInv, MembershipAssumption
  <1> QED BY <1>2, <1>5, <1>6 DEF Ticks

(* A node that joined keeps those it was given, and the clock waits.       *)
LEMMA EnteredKept == ASSUME MembershipAssumption, HInv, [Next]_vars PROVE Entered'
  <1>1. Shapes /\ Entered
    BY DEF HInv, IInv
  <1>2. ASSUME NEW n \in Node, Beat(n) \/ Compare(n) \/ Mark(n) \/ Update(n) PROVE Entered'
    BY <1>1, <1>2 DEF Entered, Beat, Compare, Mark, Update, lists, places
  <1>3. ASSUME NEW n \in Node, Crash(n) PROVE Entered'
    BY <1>1, <1>3 DEF Entered, Shapes, Crash
  <1>4. ASSUME NEW h \in flight, Receive(h) PROVE Entered'
    <2>1. PICK n \in Node : n = h.to
      BY <1>1 DEF Shapes, Heartbeat
    <2>2. /\ known' = [known EXCEPT ![n] = @ \cup Fresh(n, h)]
          /\ age' = [age EXCEPT ![n] = [m \in Node |-> IF m \in Fresh(n, h) THEN 0 ELSE @[m]]]
          /\ up' = up /\ owed' = owed
      BY <1>4, <2>1 DEF Receive
    <2> QED BY <1>1, <2>2 DEF Entered, Shapes
  <1>5. ASSUME NEW h \in flight, Drop(h) PROVE Entered'
    BY <1>1, <1>5 DEF Entered, Drop, lists, places
  <1>6. CASE Tick
    BY <1>1, <1>6 DEF Entered, Tick, places
  <1>7. CASE UNCHANGED vars
    BY <1>1, <1>7 DEF Entered, vars, lists, places
  <1> QED BY <1>2, <1>3, <1>4, <1>5, <1>6, <1>7 DEF Next, Take

(* A node keeps its place in the ring, and heartbeats go along its edges.  *)
LEMMA PlacedKept ==
  ASSUME MembershipAssumption, JoinedInTurn, HInv, [Next]_vars
  PROVE  Placed'
  <1>1. Shapes /\ Placed /\ up \subseteq Node
    BY DEF HInv, IInv
  <1>2. ASSUME NEW n \in Node, Compare(n) \/ Mark(n) PROVE Placed'
    BY <1>1, <1>2 DEF Placed, Compare, Mark, lists, places
  <1>3. ASSUME NEW n \in Node, Update(n) PROVE Placed'
    BY <1>1, <1>3 DEF Placed, Update, Shapes, lists
  <1>4. ASSUME NEW n \in Node, Crash(n) PROVE Placed'
    BY <1>1, <1>4 DEF Placed, Crash, Shapes
  <1>5. ASSUME NEW h \in flight, Drop(h) PROVE Placed'
    BY <1>1, <1>5 DEF Placed, Drop, lists, places
  <1>6. CASE Tick
    BY <1>1, <1>6 DEF Placed, Tick, places
  <1>7. CASE UNCHANGED vars
    BY <1>1, <1>7 DEF Placed, vars, lists, places
  <1>8. ASSUME NEW n \in Node, Beat(n) PROVE Placed'
    <2>1. PICK R \in SUBSET Targets(n) :
            flight' = flight \cup {[from |-> n, to |-> m, list |-> Message(n)] : m \in R}
      BY <1>8 DEF Beat
    <2>2. (\A m \in Node : Given[m] \subseteq Ring[m]) => Targets(n) \subseteq Ring[n]
      BY <1>1, <1>8 DEF Placed, Targets, Ordinary, Beat
    <2>3. (\A m \in Node : Given[m] \subseteq Ring[m]) => \A h \in flight' : h.to \in Ring[h.from]
      BY <1>1, <2>1, <2>2 DEF Placed
    <2> QED BY <1>1, <1>8, <2>3 DEF Placed, Beat, lists, places
  <1>9. ASSUME NEW h \in flight, Receive(h) PROVE Placed'
    <2>1. PICK n \in Node : n = h.to
      BY <1>1 DEF Shapes, Heartbeat
    <2>2. PICK s \in Node : s = h.from
      BY <1>1 DEF Shapes, Heartbeat
    <2>3. PICK T : T = {x \in {s} : MovesIn(n, x)}
      OBVIOUS
    <2>4. /\ n \in up /\ flight' = flight \ {h}
          /\ local' = [local EXCEPT ![n] = @ \cup T]
          /\ up' = up /\ owed' = owed
      BY <1>1, <1>9, <2>1, <2>2, <2>3 DEF Receive, Shapes
    <2>5. n \in Ordinary \ owed => T \subseteq Ring[n]
      BY <2>1, <2>2, <2>3, <2>4, NoStranger
    <2>6. (\A m \in Node : Given[m] \subseteq Ring[m]) => T \subseteq Ring[n]
      BY <1>1, <2>1, <2>2, <2>3 DEF Placed, JoinedInTurn
    <2>7. /\ \A m \in Node : m # n => local'[m] = local[m]
          /\ local'[n] = local[n] \cup T
      BY <1>1, <2>4 DEF Shapes
    <2>8. \A m \in up' \cap Ordinary : /\ m \in owed' => Given[m] \subseteq local'[m]
                                       /\ m \notin owed' => local'[m] = Ring[m]
      <3> SUFFICES ASSUME NEW m \in up \cap Ordinary
                   PROVE  /\ m \in owed => Given[m] \subseteq local'[m]
                          /\ m \notin owed => local'[m] = Ring[m]
        BY <2>4
      <3>1. /\ m \in Node
            /\ m \in owed => Given[m] \subseteq local[m]
            /\ m \notin owed => local[m] = Ring[m]
        BY <1>1 DEF Placed
      <3>2. CASE m = n
        <4>1. local'[m] = local[m] \cup T
          BY <2>7, <3>2
        <4>2. m \notin owed => T \subseteq Ring[m]
          BY <2>5, <3>2
        <4> QED BY <3>1, <4>1, <4>2
      <3>3. CASE m # n
        BY <2>7, <3>1, <3>3
      <3> QED BY <3>2, <3>3
    <2>9. (\A m \in Node : Given[m] \subseteq Ring[m]) =>
            /\ \A m \in up' \cap Ordinary : local'[m] \subseteq Ring[m]
            /\ \A g \in flight' : g.to \in Ring[g.from]
      BY <1>1, <2>4, <2>6, <2>7 DEF Placed
    <2> QED BY <2>8, <2>9 DEF Placed
  <1> QED BY <1>2, <1>3, <1>4, <1>5, <1>6, <1>7, <1>8, <1>9 DEF Next, Take

(* Nobody who runs is accused: not by a detector, and so not by rumour.    *)
LEMMA NoneAccusedKept ==
  ASSUME MembershipAssumption, JoinedInTurn, HInv, faults.lost < Second, [Next]_vars
  PROVE  NoneAccused'
  <1>1. Shapes /\ NoneAccused /\ up \subseteq Node
    BY DEF HInv, IInv, Calm
  <1>2. ASSUME NEW n \in Node, Compare(n) PROVE NoneAccused'
    <2>1. Silent(n) \cap up = {}
      BY <1>2, SilentAreDown DEF Compare
    <2>2. /\ verdict' = [verdict EXCEPT ![n] = Silent(n)]
          /\ failed' = failed /\ up' = up /\ flight' = flight
      BY <1>2 DEF Compare, lists
    <2> QED BY <1>1, <2>1, <2>2 DEF NoneAccused, Shapes
  <1>3. ASSUME NEW n \in Node, Mark(n) PROVE NoneAccused'
    <2>1. /\ failed' = [failed EXCEPT ![n] = @ \cup verdict[n]]
          /\ verdict' = [verdict EXCEPT ![n] = {}]
          /\ up' = up /\ flight' = flight
      BY <1>3 DEF Mark
    <2> QED BY <1>1, <2>1 DEF NoneAccused, Shapes
  <1>4. ASSUME NEW n \in Node, Crash(n) PROVE NoneAccused'
    <2>1. /\ failed' = [failed EXCEPT ![n] = {}] /\ verdict' = [verdict EXCEPT ![n] = {}]
          /\ up' = up \ {n} /\ flight' = flight
      BY <1>4 DEF Crash
    <2> QED BY <1>1, <2>1 DEF NoneAccused, Shapes
  <1>5. ASSUME NEW n \in Node, Beat(n) PROVE NoneAccused'
    <2>1. PICK R : flight' = flight \cup {[from |-> n, to |-> m, list |-> Message(n)] : m \in R}
      BY <1>5 DEF Beat
    <2>2. Message(n).failed \cap up = {}
      BY <1>1 DEF NoneAccused, Message
    <2>3. \A h \in flight' : h.list.failed \cap up = {}
      BY <1>1, <2>1, <2>2 DEF NoneAccused
    <2> QED BY <1>1, <1>5, <2>3 DEF NoneAccused, Beat, lists
  <1>6. ASSUME NEW h \in flight, Receive(h) PROVE NoneAccused'
    <2>1. PICK n \in Node : n = h.to
      BY <1>1 DEF Shapes, Heartbeat
    <2>2. PICK accused \in SUBSET h.list.failed :
            failed' = [failed EXCEPT ![n] = (@ \ Cleared(n, h)) \cup accused]
      BY <1>6, <2>1 DEF Receive
    <2>3. flight' = flight \ {h} /\ up' = up /\ verdict' = verdict
      BY <1>6 DEF Receive
    <2> QED BY <1>1, <2>2, <2>3 DEF NoneAccused, Shapes
  <1>7. ASSUME NEW h \in flight, Drop(h) PROVE NoneAccused'
    BY <1>1, <1>7 DEF NoneAccused, Drop, lists
  <1>8. CASE Tick
    BY <1>1, <1>8 DEF NoneAccused, Tick
  <1>9. CASE UNCHANGED vars
    BY <1>1, <1>9 DEF NoneAccused, vars, lists
  <1>10. ASSUME NEW n \in Node, Update(n) PROVE NoneAccused'
    BY <1>1, <1>10 DEF NoneAccused, Update, lists
  <1> QED BY <1>2, <1>3, <1>4, <1>5, <1>6, <1>7, <1>8, <1>9, <1>10 DEF Next, Take

(* Sending: who knows its neighbour sends to it, and so does who was given *)
(* it, even before the introducer's last list has come.                    *)
LEMMA BeatInTime ==
  ASSUME MembershipAssumption, JoinedInTurn, HInv, Calm, NEW x \in Node, Beat(x)
  PROVE  InTime'
  <1>1. /\ up' = up /\ known' = known /\ age' = age /\ phase' = phase /\ faults' = faults
        /\ beaten' = beaten \cup {x} /\ x \in up
    BY DEF Beat, lists
  <1>2. PICK endFailed \in EndReads :
          flight' = flight \cup {[from |-> x, to |-> m, list |-> Message(x)] :
                      m \in {m \in Targets(x) : IF m \in known[x] THEN m \notin failed[x]
                                                                  ELSE ~endFailed}}
    BY DEF Beat
  <1>3. ASSUME NEW m \in Targets(x) \cap known[x] \cap up PROVE UnderWay(x, m)'
    <2>1. m \notin failed[x]
      BY DEF Calm, NoneAccused
    <2>2. [from |-> x, to |-> m, list |-> Message(x)] \in flight'
      BY <1>2, <2>1
    <2> QED BY <2>2 DEF UnderWay
  <1>4. \A s, r \in Node : UnderWay(s, r) => UnderWay(s, r)'
    BY <1>2 DEF UnderWay
  <1> SUFFICES ASSUME NEW n \in up \cap Ordinary, NEW m \in up, m \in Ring[n] \cap known[n]
               PROVE  PairInTime(n, m)'
    BY <1>1 DEF InTime
  <1>5. n \in Node /\ m \in Node /\ PairInTime(n, m) /\ Ticks(n, m)' = Ticks(n, m)
    BY <1>1 DEF HInv, IInv, Calm, InTime, Ticks
  <1>6. faults.lost \in Nat /\ n \in Ring[m]
    BY <1>5 DEF HInv, JoinedInTurn
  <1>7. ASSUME n \in known[m], x = m, ~UnderWay(m, n)' PROVE Ticks(n, m) <= faults.lost
    <2>1. n \notin Targets(x)
      BY <1>3, <1>7
    <2>2. owed # {}
      BY <1>5, <1>6, <1>7, <2>1 DEF Targets, HInv, Placed, Ordinary
    <2>3. age[n][m] = 0
      BY <1>5, <2>2 DEF HInv, Entered
    <2> QED BY <1>6, <2>3 DEF Ticks
  <1>8. ASSUME n \notin known[m], x = n PROVE UnderWay(n, m)'
    <2>1. m \in Given[n]
      BY <1>5, <1>8 DEF JoinedInTurn, HInv, Entered
    <2>2. m \in Targets(n)
      BY <1>5, <2>1 DEF Targets, HInv, Placed, Ordinary
    <2> QED BY <1>3, <1>8, <2>2
  <1> QED BY <1>1, <1>4, <1>5, <1>6, <1>7, <1>8 DEF PairInTime

(* A heartbeat that comes renews the time stamp of its sender, and makes   *)
(* the receiver know it.                                                   *)
LEMMA ReceiveInTime ==
  ASSUME MembershipAssumption, JoinedInTurn, HInv, Calm, NEW h \in flight, Receive(h)
  PROVE  InTime'
  <1>1. PICK r \in Node, s \in Node : r = h.to /\ s = h.from
    BY DEF HInv, IInv, Shapes, Heartbeat
  <1>2. /\ up' = up /\ phase' = phase /\ faults' = faults /\ beaten' = beaten
        /\ flight' = flight \ {h} /\ s \in Fresh(r, h)
        /\ \A n \in Node : n # r => known'[n] = known[n] /\ age'[n] = age[n]
        /\ known'[r] = known[r] \cup Fresh(r, h)
        /\ \A m \in Node : age'[r][m] = IF m \in Fresh(r, h) THEN 0 ELSE age[r][m]
    <2>1. /\ known' = [known EXCEPT ![r] = @ \cup Fresh(r, h)]
          /\ age' = [age EXCEPT ![r] = [m \in Node |-> IF m \in Fresh(r, h) THEN 0 ELSE @[m]]]
          /\ up' = up /\ phase' = phase /\ faults' = faults /\ beaten' = beaten
          /\ flight' = flight \ {h}
      BY <1>1 DEF Receive
    <2> QED BY <1>1, <2>1 DEF HInv, IInv, Shapes, Fresh
  <1>3. \A a, b \in Node : UnderWay(a, b) /\ ~(a = s /\ b = r) => UnderWay(a, b)'
    BY <1>1, <1>2 DEF UnderWay
  <1> SUFFICES ASSUME NEW n \in up \cap Ordinary, NEW m \in up, m \in Ring[n] \cap known'[n]
               PROVE  PairInTime(n, m)'
    BY <1>2 DEF InTime
  <1>4. n \in Node /\ m \in Node /\ faults.lost \in Nat
    BY DEF HInv, IInv
  <1>5. known[m] \subseteq known'[m]
    BY <1>2, <1>4
  <1>6. CASE n = r /\ m \in Fresh(r, h)
    <2>1. Ticks(n, m)' = 0
      BY <1>2, <1>4, <1>6 DEF Ticks
    <2>2. ASSUME n \notin known'[m], n \in beaten, ~UnderWay(n, m)' PROVE 1 <= faults.lost
      <3>1. n \notin known[m] /\ m \in Given[n]
        BY <1>4, <1>5, <2>2 DEF JoinedInTurn, HInv, Entered
      <3>2. m \in known[n] /\ PairInTime(n, m)
        BY <3>1 DEF HInv, Entered, Calm, InTime
      <3>3. ~UnderWay(n, m)
        BY <1>2, <1>3, <1>4, <1>6, <2>2
      <3>4. Ticks(n, m) \in Nat
        BY <1>4 DEF Ticks, HInv, IInv, Shapes, MembershipAssumption
      <3> QED BY <1>4, <2>2, <3>1, <3>2, <3>3, <3>4 DEF PairInTime
    <2> QED BY <1>2, <1>4, <2>1, <2>2 DEF PairInTime
  <1>7. CASE ~(n = r /\ m \in Fresh(r, h))
    <2>1. m \in known[n] /\ age'[n][m] = age[n][m]
      BY <1>2, <1>4, <1>7
    <2>2. PairInTime(n, m) /\ Ticks(n, m)' = Ticks(n, m)
      BY <1>2, <2>1 DEF Calm, InTime, Ticks
    <2>3. ASSUME ~UnderWay(m, n)' PROVE ~UnderWay(m, n)
      BY <1>2, <1>3, <1>4, <1>7, <2>3
    <2>4. ASSUME n \notin known'[m], ~UnderWay(n, m)' PROVE ~UnderWay(n, m)
      BY <1>2, <1>3, <1>4, <2>4
    <2>5. Ticks(n, m) \in Nat
      BY <1>4 DEF Ticks, HInv, IInv, Shapes, MembershipAssumption
    <2> QED BY <1>2, <1>4, <1>5, <2>2, <2>3, <2>4, <2>5 DEF PairInTime
  <1> QED BY <1>6, <1>7

(* A heartbeat that is lost is counted; to a node that failed none counts. *)
LEMMA DropInTime ==
  ASSUME MembershipAssumption, HInv, Calm, NEW h \in flight, Drop(h)
  PROVE  InTime'
  <1>1. PICK r \in Node, s \in Node : r = h.to /\ s = h.from
    BY DEF HInv, IInv, Shapes, Heartbeat
  <1>2. /\ up' = up /\ phase' = phase /\ beaten' = beaten /\ known' = known /\ age' = age
        /\ flight' = flight \ {h}
    BY DEF Drop, lists
  <1>3. \A a, b \in Node : UnderWay(a, b) /\ ~(a = s /\ b = r) => UnderWay(a, b)'
    BY <1>1, <1>2 DEF UnderWay
  <1> SUFFICES ASSUME NEW n \in up \cap Ordinary, NEW m \in up, m \in Ring[n] \cap known[n]
               PROVE  PairInTime(n, m)'
    BY <1>2 DEF InTime
  <1>4. n \in Node /\ m \in Node /\ faults.lost \in Nat
    BY DEF HInv, IInv
  <1>5. PairInTime(n, m) /\ Ticks(n, m)' = Ticks(n, m) /\ Ticks(n, m) \in Nat
    BY <1>2, <1>4 DEF Calm, InTime, Ticks, HInv, IInv, Shapes, MembershipAssumption
  <1>6. CASE h.to \notin up /\ faults' = faults
    BY <1>1, <1>2, <1>3, <1>4, <1>5, <1>6 DEF PairInTime
  <1>7. CASE faults' = [faults EXCEPT !.lost = @ + 1]
    <2>1. faults'.lost = faults.lost + 1
      BY <1>4, <1>7
    <2> QED BY <1>2, <1>4, <1>5, <2>1 DEF PairInTime
  <1> QED BY <1>6, <1>7 DEF Drop

(* A tick: every neighbour has sent, so that one more tick is allowed for. *)
LEMMA TickInTime ==
  ASSUME MembershipAssumption, HInv, Calm, Tick
  PROVE  InTime'
  <1>1. /\ up' = up /\ known' = known /\ faults' = faults /\ flight' = {} /\ flight = {}
        /\ beaten' = {} /\ up \subseteq beaten /\ phase' = (phase + 1) % Second
    BY DEF Tick
  <1>2. Second \in Nat \ {0} /\ phase \in 0..Second-1 /\ faults.lost \in Nat
    BY DEF HInv, IInv, MembershipAssumption
  <1>3. phase' = IF phase + 1 = Second THEN 0 ELSE phase + 1
    BY <1>1, <1>2
  <1> SUFFICES ASSUME NEW n \in up \cap Ordinary, NEW m \in up, m \in Ring[n] \cap known[n]
               PROVE  PairInTime(n, m)'
    BY <1>1 DEF InTime
  <1>4. n \in Node /\ m \in Node /\ n \in beaten /\ m \in beaten /\ PairInTime(n, m)
    BY <1>1 DEF HInv, IInv, Calm, InTime
  <1>5. age[n][m] \in 0..2
    BY <1>4 DEF HInv, IInv, Shapes
  <1>6. age'[n][m] = IF phase' = 0 /\ age[n][m] < 2 THEN age[n][m] + 1 ELSE age[n][m]
    BY <1>4 DEF Tick
  <1>7. Ticks(n, m) \in Nat /\ Ticks(n, m)' \in Nat /\ Ticks(n, m)' <= Ticks(n, m) + 1
    BY <1>2, <1>3, <1>5, <1>6 DEF Ticks
  <1>8. ~UnderWay(m, n) /\ ~UnderWay(n, m)
    BY <1>1 DEF UnderWay
  <1>9. n \in known[m] => Ticks(n, m) <= faults.lost
    BY <1>4, <1>8 DEF PairInTime
  <1>10. n \notin known[m] => Ticks(n, m) + 1 <= faults.lost
    BY <1>4, <1>8 DEF PairInTime
  <1> QED BY <1>1, <1>2, <1>7, <1>9, <1>10 DEF PairInTime

(* The steps that neither send nor receive nor let time pass.              *)
LEMMA OthersInTime ==
  ASSUME HInv, Calm,
         \/ \E n \in Node : Compare(n) \/ Mark(n) \/ Update(n) \/ Crash(n)
         \/ UNCHANGED vars
  PROVE  InTime'
  <1>1. /\ up' \subseteq up /\ faults'.lost = faults.lost
        /\ phase' = phase /\ beaten' = beaten /\ flight' = flight
        /\ \A n \in up' : known'[n] = known[n] /\ age'[n] = age[n]
    BY DEF HInv, IInv, Shapes, Compare, Mark, Update, Crash, vars, lists
  <1> SUFFICES ASSUME NEW n \in up' \cap Ordinary, NEW m \in up', m \in Ring[n] \cap known'[n]
               PROVE  PairInTime(n, m)'
    BY DEF InTime
  <1>2. PairInTime(n, m) /\ Ticks(n, m)' = Ticks(n, m) /\ UnderWay(n, m)' = UnderWay(n, m)
        /\ UnderWay(m, n)' = UnderWay(m, n)
    BY <1>1 DEF Calm, InTime, Ticks, UnderWay
  <1> QED BY <1>1, <1>2 DEF PairInTime

(* What got lost is counted, and nothing is counted back.                  *)
LEMMA LossesGrow ==
  ASSUME HInv, [Next]_vars
  PROVE  faults' \in [crashes : Nat, lost : Nat] /\ faults.lost <= faults'.lost
  <1>1. faults \in [crashes : Nat, lost : Nat]
    BY DEF HInv
  <1>2. \/ faults' = faults
        \/ faults' = [faults EXCEPT !.crashes = @ + 1]
        \/ faults' = [faults EXCEPT !.lost = @ + 1]
    <2>1. ASSUME NEW h, Receive(h) \/ Drop(h) PROVE \/ faults' = faults
                                                 \/ faults' = [faults EXCEPT !.lost = @ + 1]
      BY <2>1 DEF Receive, Drop
    <2> QED BY <2>1 DEF Next, Beat, Compare, Mark, Update, Crash, Take, Tick, vars
  <1> QED BY <1>1, <1>2

(* Every step keeps the inductive invariant.                               *)
LEMMA NextHeard ==
  ASSUME MembershipAssumption, JoinedInTurn, HInv, [Next]_vars
  PROVE  HInv'
  <1>1. IInv' /\ Entered' /\ Placed'
    BY NextKeeps, EnteredKept, PlacedKept DEF HInv
  <1>2. faults' \in [crashes : Nat, lost : Nat] /\ faults.lost <= faults'.lost
    BY LossesGrow
  <1>3. ASSUME faults'.lost < Second PROVE Calm'
    <2>1. faults.lost < Second /\ Calm
      BY <1>2, <1>3 DEF HInv, MembershipAssumption
    <2>2. NoneAccused'
      BY <2>1, NoneAccusedKept
    <2>3. InTime'
      BY <2>1, BeatInTime, ReceiveInTime, DropInTime, TickInTime, OthersInTime DEF Next, Take
    <2> QED BY <2>2, <2>3 DEF Calm
  <1> QED BY <1>1, <1>2, <1>3 DEF HInv

(* However many nodes there are, whoever of them fails, in whatever order  *)
(* threads and datagrams take their turns, and whatever the flag read      *)
(* through end() is: as long as fewer heartbeats are lost than a second    *)
(* has ticks, no running node is marked as failed by another.              *)
THEOREM NotHasty == Spec => []NoHastySuspicion
  <1>1. Init => HInv
    BY InitHeard, MembershipAssumption, JoinedInTurn
  <1>2. HInv /\ [Next]_vars => HInv'
    BY NextHeard, MembershipAssumption, JoinedInTurn
  <1>3. HInv => NoHastySuspicion
    BY DEF HInv, IInv, Calm, NoneAccused, NoHastySuspicion, Suspected
  <1>4. QED
    BY <1>1, <1>2, <1>3, PTL DEF Spec
=============================================================================
