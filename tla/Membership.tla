------------------------------ MODULE Membership ------------------------------
(***************************************************************************)
(* Failure detection by heartbeats and gossip (src/src/client.cpp).  Every *)
(* node sends its membership list to its neighbours, takes over what their *)
(* lists say, and marks a neighbour as failed that has been silent for two *)
(* seconds by its clock, which counts whole seconds.  The introducer sends *)
(* empty lists and detects nothing itself.                                 *)
(*                                                                         *)
(* A tick is the time in which each thread runs once; Second of them make  *)
(* a second of the clock.  Datagrams arrive within a tick, or heartbeats   *)
(* perhaps not at all.  A neighbour list may hold an address twice, which  *)
(* only repeats heartbeats: it is a set here, and `room` is what is left   *)
(* of its four places.                                                     *)
(***************************************************************************)
EXTENDS Naturals, FiniteSets

CONSTANTS Node,        \* the nodes that are looked at
          Introducer,  \* the node that keeps the ring, in Node or not
          Ring,        \* Ring[n]: the neighbours of n in the ring
          Given,       \* Given[n]: the list n was given when it joined
          EndReads,    \* what the failed_ flag of member_list.end() may read as
          Second,      \* ticks in a second of the clock
          Mortal,      \* the nodes that may fail
          MaxCrashes,  \* bound on nodes that fail
          Lossy,       \* the <<from, to>> pairs whose heartbeats may get lost
          MaxLost,     \* bound on heartbeats that get lost
          MaxFlight    \* bound on heartbeats under way

ASSUME MembershipAssumption ==
  /\ IsFiniteSet(Node)
  /\ Ring \in [Node -> SUBSET Node] /\ Given \in [Node -> SUBSET Node]
  /\ \A n \in Node : Cardinality(Ring[n]) <= 4 /\ Cardinality(Given[n]) <= 4
  /\ Introducer \in Node => Given[Introducer] = {}
  /\ EndReads \subseteq BOOLEAN /\ EndReads # {}
  /\ Second \in Nat \ {0}
  /\ Mortal \subseteq Node /\ Lossy \subseteq Node \X Node

(* What the introducer's lists are like when nobody has left: neighbours   *)
(* are neighbours both ways; of two, the one that joined later was given   *)
(* the other when it did (a join brings no two older nodes together); and  *)
(* either the ring has five nodes and everyone four neighbours, or it has  *)
(* fewer and everyone is everyone's neighbour.                             *)
ASSUME JoinedInTurn ==
  /\ \A n, m \in Node : m \in Ring[n] => n \in Ring[m] /\ (m \in Given[n] \/ n \in Given[m])
  /\ \/ \A n \in Node : Cardinality(Ring[n]) = 4
     \/ \A n \in Node : Given[n] \subseteq Ring[n]

VARIABLES up,       \* the nodes that run
          known,    \* known[n]: the keys of n's member_list
          failed,   \* failed[n]: those with the failed_ flag
          age,      \* age[n][m]: seconds since the time stamp of m's entry at n, up to 2
          local,    \* local[n]: the addresses in n's local_neighbour_list
          room,     \* room[n]: how many more it takes
          owed,     \* the nodes whose UPDATE datagram is still under way
          flight,   \* the heartbeats under way
          verdict,  \* verdict[n]: whom n's detector is about to mark as failed
          beaten,   \* the nodes that have sent their heartbeats in this tick
          scanned,  \* the nodes whose detector has run in this tick
          phase,    \* ticks since the clock's second began
          faults    \* how much has gone wrong

lists  == <<known, failed, age>>
places == <<local, room, owed>>
vars   == <<up, lists, places, flight, verdict, beaten, scanned, phase, faults>>

Ordinary == Node \ {Introducer}

Room(ips) == 4 - Cardinality(ips)

(* The list a node was given makes its first membership list.  Those who   *)
(* joined before the last one have still to be told of it.                 *)
Init ==
  /\ up = Node
  /\ known = Given /\ failed = [n \in Node |-> {}]
  /\ age = [n \in Node |-> [m \in Node |-> 0]]
  /\ local = Given /\ room = [n \in Node |-> Room(Given[n])]
  /\ owed = {n \in Ordinary : Given[n] # Ring[n]}
  /\ flight = {} /\ verdict = [n \in Node |-> {}]
  /\ beaten = {} /\ scanned = {} /\ phase = 0
  /\ faults = [crashes |-> 0, lost |-> 0]

-----------------------------------------------------------------------------
\* Those n sends heartbeats to: its list, or for the introducer its pointers.
Targets(n) == IF n = Introducer THEN Ring[n] ELSE local[n]

\* make_message(); the introducer sends the empty string.
Message(n) == IF n = Introducer THEN [known |-> {}, failed |-> {}]
                                ELSE [known |-> known[n], failed |-> failed[n]]

(* heartbeater(), or the introducer's loop in main(): to every target that *)
(* is not marked as failed.  The flag of one that is not in the list is    *)
(* read through end().                                                     *)
Beat(n) ==
  /\ n \in up \ beaten
  /\ \E endFailed \in EndReads :
       LET alive == {m \in Targets(n) : IF m \in known[n] THEN m \notin failed[n]
                                                          ELSE ~endFailed}
       IN  flight' = flight \cup {[from |-> n, to |-> m, list |-> Message(n)] : m \in alive}
  /\ Cardinality(flight') <= MaxFlight
  /\ beaten' = beaten \cup {n}
  /\ UNCHANGED <<up, lists, places, verdict, scanned, phase, faults>>

\* Mutant: the size of the neighbour list is not looked at.
CrowdsIn(n, s) == s \in known[n]

\* add_to_local_neighbour_list(): a known sender gets a place, if there is one.
MovesIn(n, s) == s \in known[n] /\ room[n] > 0

\* Mutant: gossip renews time stamps as heartbeats do.
HeardOf(n, h) == {h.from} \cup (h.list.known \ h.list.failed)

\* Mutant: only the sender is entered.
FreshSender(n, h) == {h.from} \cap known[n]

\* The entries that are made or get a new time stamp.
Fresh(n, h) == {h.from} \cup (h.list.known \ known[n])

\* Mutant: gossip is not believed that clears a neighbour.
ClearedStranger(n, h) == {h.from} \cup ((h.list.known \ h.list.failed) \ local[n])

\* Those the sender takes to be alive.
Cleared(n, h) == {h.from} \cup (h.list.known \ h.list.failed)

(* heartbeat_handler().  An unknown address is taken to be alive whatever  *)
(* the message says of it, and of a neighbour no bad news is believed.     *)
Receive(h) ==
  LET n == h.to
      s == h.from
      nearby  == local[n] \cup {x \in {s} : MovesIn(n, x)}
      accused == (h.list.failed \cap (known[n] \cup {s})) \ nearby
  IN
  /\ n \in up
  /\ flight' = flight \ {h}
  /\ known' = [known EXCEPT ![n] = @ \cup Fresh(n, h)]
  /\ failed' = [failed EXCEPT ![n] = (@ \ Cleared(n, h)) \cup accused]
  /\ age' = [age EXCEPT ![n] = [m \in Node |-> IF m \in Fresh(n, h) THEN 0 ELSE @[m]]]
  /\ local' = [local EXCEPT ![n] = nearby]
  /\ room' = [room EXCEPT ![n] = IF MovesIn(n, s) THEN @ - 1 ELSE @]
  /\ UNCHANGED <<up, owed, verdict, beaten, scanned, phase, faults>>

\* A heartbeat gets lost, or its receiver has failed.
Drop(h) ==
  /\ flight' = flight \ {h}
  /\ \/ /\ h.to \notin up
        /\ UNCHANGED faults
     \/ /\ <<h.from, h.to>> \in Lossy /\ h.to \in up
        /\ faults.lost < MaxLost
        /\ faults' = [faults EXCEPT !.lost = @ + 1]
  /\ UNCHANGED <<up, lists, places, verdict, beaten, scanned, phase>>

\* Mutant: one second of silence is enough.
SilentSecond(n) == {m \in local[n] \cap known[n] : age[n][m] >= 1}

\* The neighbours whose time stamp is two seconds old, marked already or not.
Silent(n) == {m \in local[n] \cap known[n] : age[n][m] >= 2}

(* failure_detector() compares the time stamps without member_list_lock,   *)
(* and a heartbeat may be handled before it sets the flags.                *)
Compare(n) ==
  /\ n \in (up \cap Ordinary) \ scanned
  /\ verdict' = [verdict EXCEPT ![n] = Silent(n)]
  /\ scanned' = scanned \cup {n}
  /\ UNCHANGED <<up, lists, places, flight, beaten, phase, faults>>

Mark(n) ==
  /\ verdict[n] # {}
  /\ failed' = [failed EXCEPT ![n] = @ \cup verdict[n]]
  /\ verdict' = [verdict EXCEPT ![n] = {}]
  /\ UNCHANGED <<up, known, age, places, flight, beaten, scanned, phase, faults>>

\* update_handler(): the list is replaced; the membership list is not touched.
Update(n) ==
  /\ n \in owed
  /\ local' = [local EXCEPT ![n] = Ring[n]]
  /\ room' = [room EXCEPT ![n] = Room(Ring[n])]
  /\ owed' = owed \ {n}
  /\ UNCHANGED <<up, lists, flight, verdict, beaten, scanned, phase, faults>>

\* A node fails; what its memory held is of no meaning any more.
Crash(n) ==
  /\ n \in up \cap Mortal
  /\ faults.crashes < MaxCrashes
  /\ faults' = [faults EXCEPT !.crashes = @ + 1]
  /\ up' = up \ {n}
  /\ known' = [known EXCEPT ![n] = {}] /\ failed' = [failed EXCEPT ![n] = {}]
  /\ age' = [age EXCEPT ![n] = [m \in Node |-> 0]]
  /\ local' = [local EXCEPT ![n] = {}] /\ room' = [room EXCEPT ![n] = 4]
  /\ owed' = owed \ {n} /\ verdict' = [verdict EXCEPT ![n] = {}]
  /\ UNCHANGED <<flight, beaten, scanned, phase>>

\* Time passes when every thread has run and all that was sent has arrived.
Tick ==
  /\ up \subseteq beaten /\ up \cap Ordinary \subseteq scanned
  /\ flight = {} /\ owed = {} /\ \A n \in Node : verdict[n] = {}
  /\ beaten' = {} /\ scanned' = {}
  /\ phase' = (phase + 1) % Second
  /\ age' = [n \in Node |-> [m \in Node |->
               IF phase' = 0 /\ m \in known[n] /\ age[n][m] < 2 THEN age[n][m] + 1 ELSE age[n][m]]]
  /\ UNCHANGED <<up, known, failed, places, flight, verdict, faults>>

Take(n) == \E h \in flight : h.to = n /\ (Receive(h) \/ Drop(h))

Next ==
  \/ \E n \in Node : Beat(n) \/ Compare(n) \/ Mark(n) \/ Update(n) \/ Crash(n) \/ Take(n)
  \/ Tick

\* Every thread runs, and what was sent arrives.
Fairness ==
  /\ \A n \in Node : /\ WF_vars(Beat(n)) /\ WF_vars(Compare(n)) /\ WF_vars(Mark(n))
                     /\ WF_vars(Update(n)) /\ WF_vars(Take(n))
  /\ WF_vars(Tick)

Spec == Init /\ [][Next]_vars /\ Fairness

-----------------------------------------------------------------------------
\* The variables have their types; a neighbour list never outgrows its four places.
TypeOK ==
  /\ up \subseteq Node /\ owed \subseteq up /\ phase \in 0..Second-1
  /\ \A n \in Node :
       /\ known[n] \subseteq Node /\ failed[n] \subseteq known[n]
       /\ age[n] \in [Node -> 0..2]
       /\ local[n] \subseteq Node /\ room[n] \in 0..4
       /\ Cardinality(local[n]) + room[n] <= 4
       /\ verdict[n] \subseteq known[n]

\* The pairs of a running node and a running node that it marks as failed.
Suspected == {p \in up \X up : p[2] \in failed[p[1]]}

(* The clock counts whole seconds, so one second of silence and a bit may  *)
(* look like two; but not less: no running node is suspected, by its       *)
(* neighbours or by rumour, before a second's worth of heartbeats is lost, *)
(* even while the nodes are still getting to know each other.              *)
NoHastySuspicion == faults.lost < Second => Suspected = {}

(* Every node comes to know its neighbours, also when the flag it reads    *)
(* through end() keeps it from sending to those it does not know yet.      *)
Acquainted == <>[](\A n \in up : local[n] \cap up \subseteq known[n])

(* A failed node is again and again marked as failed by each neighbour     *)
(* (but the introducer) that has ever heard of it, whatever older gossip   *)
(* says.  A neighbour that failed before anything was heard of it has no   *)
(* time stamp to grow old: it is never noticed.                            *)
Noticed ==
  \A n \in Ordinary : []<>(n \in up => (local[n] \cap known[n]) \ up \subseteq failed[n])

(* Whenever a running node suspects another one and a third runs, whose    *)
(* gossip vouches for it, the suspicion is taken back, even if it has      *)
(* become mutual and the two do not send to each other any more.           *)
Heals ==
  \A n, m \in Node : []<>(<<n, m>> \in Suspected => Ordinary \cap up \subseteq {n, m})
=============================================================================
