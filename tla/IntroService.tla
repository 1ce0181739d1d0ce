----------------------------- MODULE IntroService -----------------------------
(***************************************************************************)
(* The introducer and the nodes it introduces (src/src/client.cpp).  A     *)
(* node that starts sends JOIN and takes the neighbours of the reply; JOIN *)
(* and LEAVE change the ring (module VirtualRing) and start a thread that  *)
(* walks the ring and sends every node its neighbours in an UPDATE         *)
(* datagram.  The walks take no lock: they run beside each other and       *)
(* beside the handler's insert() and leave(), and every datagram is sent   *)
(* by a thread of its own.  Datagrams may pass each other or get lost, and *)
(* a node that has not opened its port yet misses them.                    *)
(*                                                                         *)
(* The ring's variables hold what the request that is being handled will   *)
(* leave behind, `was` holds the pointers as that request found them.  Its *)
(* stores race with the loads of the walks, so until the handler is done a *)
(* load yields the old or the new pointer; the order of the source lines   *)
(* is one of the mixtures this allows.  An address comes back only after   *)
(* the walks that stand at its old node have ended.  What heartbeats add   *)
(* to a list is in module Membership.                                      *)
(***************************************************************************)
EXTENDS Naturals, FiniteSets, Sequences

CONSTANTS Ip,          \* the addresses nodes may have
          Introducer,  \* the node that keeps the ring and is its head
          Octet,       \* the last octet of an address
          NULL,        \* the null pointer, and the reply that never comes
          MaxWalks,    \* bound on walks that run at the same time
          MaxChanges,  \* bound on requests and on processes that end
          MaxLost      \* bound on requests, replies and datagrams that get lost

ASSUME IntroAssumption ==
  /\ Introducer \in Ip /\ Octet \in [Ip -> Nat] /\ NULL \notin Ip
  /\ MaxWalks \in Nat /\ MaxChanges \in Nat /\ MaxLost \in Nat

VARIABLES count, next1, next2, prev1, prev2,  \* the ring
          phase,    \* phase[ip]: the process at ip is out, joining or in
          reply,    \* reply[ip]: the reply to its JOIN
          told,     \* told[ip]: the list ip was last given and has taken over
          busy,     \* the node whose request is being handled, or NULL
          was,      \* the pointers as that request found them
          walk,     \* the threads of update_nodes
          flight,   \* the UPDATE datagrams under way
          crashed,  \* the introducer has read through a null pointer
          round,    \* history: what happened since all was settled last
          faults    \* requests, processes that ended, and losses so far

pointers == <<next1, next2, prev1, prev2>>
ring     == <<count, next1, next2, prev1, prev2>>
request  == <<busy, was>>
vars == <<ring, phase, reply, told, request, walk, flight, crashed, round, faults>>

Ring == INSTANCE VirtualRing

Slot   == 1..MaxWalks
NoWalk == [do |-> "off", at |-> NULL, i |-> 0, seen |-> [k \in 1..4 |-> <<>>]]
Walks  == {w \in Slot : walk[w].do # "off"}

\* Nothing is under way any more.
Settled ==
  Walks = {} /\ flight = {} /\ busy = NULL /\ \A ip \in Ip : reply[ip] = NULL

\* The values in h and then v, if it is another than the last.
Then(h, v) == IF h[Len(h)] = v THEN h ELSE Append(h, v)

(* What loads of the k-th pointer of t may yield, one after the other:     *)
(* next1, next2, prev1 and prev2 in the order in which update_nodes reads. *)
Sees(k, t) == Then(<<was[k][t]>>, pointers[k][t])

(* What a load of ring->introducer may yield: while insert() links a third *)
(* or later node it has the node before it there.                          *)
Heads ==
  {Introducer} \cup IF busy # NULL /\ count > 2 /\ was[3][busy] = NULL
                      THEN {prev1[busy]} \ {NULL} ELSE {}

Init ==
  /\ Ring!Init
  /\ phase = [ip \in Ip |-> IF ip = Introducer THEN "in" ELSE "out"]
  /\ reply = [ip \in Ip |-> NULL]
  /\ told = [ip \in Ip |-> {}]
  /\ busy = NULL /\ was = pointers
  /\ walk = [w \in Slot |-> NoWalk]
  /\ flight = {} /\ crashed = FALSE
  /\ round = "clean"
  /\ faults = [changes |-> 0, lost |-> 0]

-----------------------------------------------------------------------------
(* A request begins a clean round, or comes into one that is under way.    *)
Counts ==
  /\ faults.changes < MaxChanges
  /\ faults' = [changes |-> faults.changes + 1, lost |-> faults.lost]
  /\ round' = IF Settled THEN "clean" ELSE "mixed"

\* A request, a reply or a datagram gets lost.
Loses ==
  /\ faults.lost < MaxLost
  /\ faults' = [changes |-> faults.changes, lost |-> faults.lost + 1]
  /\ round' = IF round = "clean" THEN "lossy" ELSE round

\* The handler takes a request when it is done with the one before.
Begins(ip) ==
  /\ ~crashed /\ busy = NULL /\ Walks # Slot
  /\ Counts
  /\ busy' = ip /\ was' = pointers

\* What the walks may see from now on of the nodes where they stand.
Watches ==
  walk' = [w \in Slot |-> [walk[w] EXCEPT !.seen =
    [k \in 1..4 |-> IF @[k] = <<>> THEN <<>> ELSE Then(@[k], pointers'[k][walk[w].at])]]]

(* contact_introducer and the JOIN branch of intro_handler as far as       *)
(* insert() adds to `count`.  insert() of a known address changes nothing. *)
Join(ip) ==
  /\ phase[ip] = "out"
  /\ Begins(ip)
  /\ IF ip \in Ring!Members
       THEN UNCHANGED ring
       ELSE Ring!Insert(ip) /\ \A w \in Walks : walk[w].at # ip
  /\ Watches
  /\ phase' = [phase EXCEPT ![ip] = "joining"]
  /\ UNCHANGED <<reply, told, flight, crashed>>

(* leave_introducer and the LEAVE branch as far as `count` goes down.      *)
(* leave() has no effect on a ring of two, nor for an address that is not  *)
(* in it.                                                                  *)
Leave(ip) ==
  /\ phase[ip] = "in" /\ ip # Introducer
  /\ Begins(ip)
  /\ IF count > 2 /\ ip \in Ring!Members THEN Ring!Leave(ip) ELSE UNCHANGED ring
  /\ Watches
  /\ UNCHANGED <<phase, reply, told, flight, crashed>>

(* All pointers are stored; the handler reads the reply to a JOIN from     *)
(* them and starts a thread of update_nodes.                               *)
Replies ==
  /\ ~crashed /\ busy # NULL
  /\ \E w \in Slot \ Walks :
       /\ \A v \in Slot \ Walks : w <= v
       /\ walk' = [walk EXCEPT ![w] = [NoWalk EXCEPT !.do = "begin"]]
  /\ reply' = IF phase[busy] = "joining"
                THEN [reply EXCEPT ![busy] = Ring!Neighbours(busy)]
                ELSE reply
  /\ busy' = NULL /\ was' = pointers
  /\ UNCHANGED <<ring, phase, told, flight, crashed, round, faults>>

\* The reply gets lost, and contact_introducer waits for ever.
ReplyLost(ip) ==
  /\ reply[ip] # NULL
  /\ Loses
  /\ reply' = [reply EXCEPT ![ip] = NULL]
  /\ UNCHANGED <<ring, phase, told, request, walk, flight, crashed>>

\* The reply is taken over and the thread of updater() opens its port.
Opens(ip) ==
  /\ phase[ip] = "joining" /\ reply[ip] # NULL
  /\ phase' = [phase EXCEPT ![ip] = "in"]
  /\ told' = [told EXCEPT ![ip] = reply[ip]]
  /\ reply' = [reply EXCEPT ![ip] = NULL]
  /\ UNCHANGED <<ring, request, walk, flight, crashed, round, faults>>

\* A process ends without LEAVE; the ring keeps its address.
Ends(ip) ==
  /\ phase[ip] # "out" /\ ip # Introducer
  /\ faults.changes < MaxChanges
  /\ faults' = [changes |-> faults.changes + 1, lost |-> faults.lost]
  /\ phase' = [phase EXCEPT ![ip] = "out"]
  /\ reply' = [reply EXCEPT ![ip] = NULL]
  /\ told' = [told EXCEPT ![ip] = {}]
  /\ UNCHANGED <<ring, request, walk, flight, crashed, round>>

-----------------------------------------------------------------------------
(* The thread w of update_nodes runs and is about to do the given step; it *)
(* goes on as the record r, and the rest of the service stays as it is.    *)
Does(w, step) == ~crashed /\ walk[w].do = step

Goes(w, r) ==
  /\ walk' = [walk EXCEPT ![w] = r]
  /\ UNCHANGED <<ring, phase, reply, told, request, crashed, round, faults>>

\* The record of a thread that is about to read the pointers of its i-th node.
Reads(i, t) ==
  [do |-> "read", at |-> t, i |-> i,
   seen |-> [k \in 1..4 |-> IF t = NULL THEN <<>> ELSE Sees(k, t)]]

\* The record of a thread that is done with this node but for `t = t->next1`.
Leaves(i, t) ==
  [do |-> "next", at |-> t, i |-> i,
   seen |-> [k \in 1..4 |-> IF k = 1 THEN Sees(1, t) ELSE <<>>]]

\* The thread takes the head of the ring; `count` is never 0.
WalkBegins(w) ==
  /\ Does(w, "begin")
  /\ \E t \in Heads : Goes(w, Reads(0, t))
  /\ UNCHANGED flight

(* What a pointer of t adds to the list when its loads yield the values of *)
(* h: nothing if it is found to be NULL or to lead to t itself, and else   *)
(* the address that is taken when it is loaded once more.                  *)
Adds(h, t) ==
  {{} : i \in {n \in 1..Len(h) : h[n] \in {NULL, t}}} \cup
  {{h[j]} : j \in {n \in 1..Len(h) : h[n] # NULL /\ \E i \in 1..n : h[i] \notin {NULL, t}}}

(* The list of a node is read, pointer by pointer since the walk came to   *)
(* it, and a thread is started that will send it.  The head gets none; nor *)
(* does the introducer when insert() has moved the head, as it does not    *)
(* open the port.                                                          *)
WalkSends(w) ==
  LET t    == walk[w].at
      S(k) == Adds(walk[w].seen[k], t)
  IN
  /\ Does(w, "read") /\ t # NULL
  /\ \E a \in S(1), b \in S(2), c \in S(3), d \in S(4), head \in Heads :
       flight' = flight \cup (IF t \in {head, Introducer} THEN {} ELSE {<<t, a \cup b \cup c \cup d>>})
  /\ Goes(w, Leaves(walk[w].i, t))

\* Mutant: the walk follows next2.
WalkGoesFar(w) ==
  /\ Does(w, "next")
  /\ Goes(w, IF walk[w].i + 1 < count
                THEN Reads(walk[w].i + 1, next2[walk[w].at])
                ELSE NoWalk)
  /\ UNCHANGED flight

\* Mutant: the loop does not count its rounds.
WalkGoesIdle(w) ==
  /\ Does(w, "next")
  /\ \E j \in 1..Len(walk[w].seen[1]) :
       Goes(w, IF walk[w].i + 1 < count
                 THEN Reads(walk[w].i, walk[w].seen[1][j])
                 ELSE NoWalk)
  /\ UNCHANGED flight

\* On to the next node, unless `count` of them have been met by now.
WalkGoesOn(w) ==
  /\ Does(w, "next")
  /\ \E j \in 1..Len(walk[w].seen[1]) :
       Goes(w, IF walk[w].i + 1 < count
                 THEN Reads(walk[w].i + 1, walk[w].seen[1][j])
                 ELSE NoWalk)
  /\ UNCHANGED flight

(* The loop goes on behind a node that is not linked any more or not yet,  *)
(* or a pointer becomes NULL after its test: the process dies of SIGSEGV,  *)
(* and with it all its threads, also those that have not sent yet.         *)
WalkCrashes(w) ==
  /\ Does(w, "read")
  /\ walk[w].at # NULL =>
       \E k \in 1..4 : \E j \in 1..Len(walk[w].seen[k]) :
          walk[w].seen[k][j] = NULL /\ \E i \in 1..j : walk[w].seen[k][i] # NULL
  /\ crashed' = TRUE
  /\ walk' = [v \in Slot |-> NoWalk] /\ flight' = {}
  /\ UNCHANGED <<ring, phase, reply, told, request, round, faults>>

\* Mutant: a datagram is taken for an addition to the list.
DeliverAdds(d) ==
  /\ flight' = flight \ {d}
  /\ IF phase[d[1]] = "in"
       THEN told' = [told EXCEPT ![d[1]] = @ \cup d[2]]
       ELSE UNCHANGED told
  /\ UNCHANGED <<ring, phase, reply, request, walk, crashed, round, faults>>

\* Mutant: a node takes its list from a datagram before the reply to its JOIN.
DeliverEarly(d) ==
  /\ flight' = flight \ {d}
  /\ told' = [told EXCEPT ![d[1]] = d[2]]
  /\ UNCHANGED <<ring, phase, reply, request, walk, crashed, round, faults>>

\* update_handler, if the port is open.
Deliver(d) ==
  /\ flight' = flight \ {d}
  /\ IF phase[d[1]] = "in"
       THEN told' = [told EXCEPT ![d[1]] = d[2]]
       ELSE UNCHANGED told
  /\ UNCHANGED <<ring, phase, reply, request, walk, crashed, round, faults>>

\* A datagram gets lost; runner_back does not send it again.
Drop(d) ==
  /\ Loses
  /\ flight' = flight \ {d}
  /\ UNCHANGED <<ring, phase, reply, told, request, walk, crashed>>

Walking(w) ==
  \/ WalkBegins(w) \/ WalkSends(w) \/ WalkGoesOn(w) \/ WalkCrashes(w)

\* What the processes do of their own accord when they have got so far.
Progress ==
  \/ Replies
  \/ \E ip \in Ip : Opens(ip)
  \/ \E w \in Slot : Walking(w)
  \/ \E d \in flight : Deliver(d)

Next ==
  \/ Progress
  \/ \E ip \in Ip : Join(ip) \/ ReplyLost(ip) \/ Leave(ip) \/ Ends(ip)
  \/ \E d \in flight : Drop(d)

(* As long as the handler, a walk or a thread that sends can go on, or a   *)
(* reply that was sent can be taken, one of them does.  Nobody has to      *)
(* join, to leave or to fail, and nothing has to get lost.                 *)
Fairness == WF_vars(Progress)

Spec == Init /\ [][Next]_vars /\ Fairness

-----------------------------------------------------------------------------
Pointer == [Ip -> Ip \cup {NULL}]

\* What a thread may see of a pointer ends with what is in it.
WalkOK(r) ==
  /\ r \in [do : {"off", "begin", "read", "next"}, at : Ip \cup {NULL}, i : Nat,
           seen : [1..4 -> Seq(Ip \cup {NULL})]]
  /\ \A k \in 1..4 : r.seen[k] # <<>> =>
       r.at # NULL /\ r.seen[k][Len(r.seen[k])] = pointers[k][r.at]

(* The variables have their types, the pointers are as a request found     *)
(* them while none is handled, and a node that is not running was told     *)
(* nothing.                                                                *)
TypeOK ==
  /\ Ring!TypeOK
  /\ busy \in Ip \cup {NULL}
  /\ was \in Pointer \X Pointer \X Pointer \X Pointer
  /\ busy = NULL => was = pointers
  /\ phase \in [Ip -> {"out", "joining", "in"}]
  /\ reply \in [Ip -> {NULL} \cup SUBSET Ip] /\ told \in [Ip -> SUBSET Ip]
  /\ \A ip \in Ip : /\ phase[ip] # "joining" => reply[ip] = NULL
                    /\ phase[ip] # "in" => told[ip] = {}
  /\ DOMAIN walk = Slot /\ \A w \in Slot : WalkOK(walk[w])
  /\ flight \subseteq (Ip \ {Introducer}) \X SUBSET Ip
  /\ crashed \in BOOLEAN /\ round \in {"clean", "lossy", "mixed"}

(* A walk that no request overtakes never reads through NULL, whatever     *)
(* ring earlier requests, losses and processes that ended have left: the   *)
(* introducer dies only where a JOIN or a LEAVE was handled before all of  *)
(* an earlier one was settled.                                             *)
OnlyOverlapCrashes == crashed => round = "mixed"

(* A change that comes when all is settled, and of which nothing gets lost *)
(* or is overtaken by another, gives every running member its list in the  *)
(* ring: also those that missed an earlier one, or were sent a list that   *)
(* was read from a half-linked ring or sent too late.                      *)
CleanRoundsRepair ==
  Settled /\ ~crashed /\ round = "clean" =>
    \A ip \in Ring!Members \ {Introducer} :
       phase[ip] = "in" => told[ip] = Ring!Neighbours(ip)

\* Every change is settled in the end, unless the introducer crashes.
Settles == <>[](Settled \/ crashed)
=============================================================================
