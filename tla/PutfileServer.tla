---------------------------- MODULE PutfileServer ----------------------------
(***************************************************************************)
(* The master's putfile service (putfile_handler of src/src/client.cpp)    *)
(* and the dialog of the `put` command with it.  The service answers every *)
(* request of a client or a monitor with the addresses for a file, and     *)
(* answers an unforced put of a file it has granted less than Window ago   *)
(* with CONFLICT, on which the user confirms or gives up.  The master's    *)
(* membership list changes underneath: heartbeats add nodes and clear      *)
(* their failed_ flags, the failure detector sets them.                    *)
(***************************************************************************)
EXTENDS Placement

CONSTANTS File,      \* the file names
          Letter,    \* the first character of a file name, as its distance to 'a'
          Client,    \* the users
          Window,    \* the 60 seconds, in units of the clock
          MaxTime,   \* bound on the clock
          EndReads,  \* what the failed_ flag of member_list.end() may read as
          NONE       \* no address was answered, no file is asked about

ASSUME PutfileAssumption ==
  /\ Letter \in [File -> Int]
  /\ Window \in Nat /\ MaxTime \in Nat
  /\ EndReads \subseteq BOOLEAN /\ EndReads # {}
  /\ NONE \notin File /\ NONE \notin [1..3 -> Node]

VARIABLES known,      \* the keys of the master's member_list
          failed,     \* those of them with the failed_ flag
          now,        \* the master's clock
          safety,     \* safety_check: when the last unforced put was granted
          serving,    \* the thread of putfile_listener is running
          prompted,   \* the file a client is asked to confirm, if any
          answer,     \* the last addresses answered from this list, if any
          granted     \* history: when the last put of any kind was granted

vars == <<known, failed, now, safety, serving, prompted, answer, granted>>

membership == <<known, failed>>

Alive == known \ failed

NEVER == 0 - Window   \* no put is recorded

Init ==
  /\ known = {} /\ failed = {}
  /\ now = 0
  /\ safety = [f \in File |-> NEVER]
  /\ serving = TRUE
  /\ prompted = [c \in Client |-> NONE]
  /\ answer = NONE
  /\ granted = [f \in File |-> NEVER]

-----------------------------------------------------------------------------
\* A heartbeat or gossip tells the master that n lives.
Hear(n) ==
  /\ n \notin Alive
  /\ known' = known \cup {n}
  /\ failed' = failed \ {n}
  /\ answer' = NONE
  /\ UNCHANGED <<now, safety, serving, prompted, granted>>

\* Mutant: gossip about a node that the master does not know is marked as well.
LoseUnknown(n) ==
  /\ n \notin failed
  /\ failed' = failed \cup {n}
  /\ answer' = NONE
  /\ UNCHANGED <<known, now, safety, serving, prompted, granted>>

\* The failure detector or gossip tells the master that n has failed.
Lose(n) ==
  /\ n \in Alive
  /\ failed' = failed \cup {n}
  /\ answer' = NONE
  /\ UNCHANGED <<known, now, safety, serving, prompted, granted>>

Tick ==
  /\ now < MaxTime
  /\ now' = now + 1
  /\ UNCHANGED <<membership, safety, serving, prompted, answer, granted>>

(* The end of putfile_handler.  With one live node the modulus is zero and *)
(* the process dies; an address read from end() throws, and the thread of  *)
(* putfile_listener ends: either way nobody answers any more, and it no    *)
(* longer matters what becomes of the list.                                *)
Respond(f) ==
  IF Divisor(Alive) = 0
    THEN serving' = FALSE /\ answer' = NONE
    ELSE \E endFailed \in EndReads :
           LET ips == WhereTo(Letter[f], known, Alive, endFailed)
           IN  IF END \in {ips[i] : i \in 1..3}
                 THEN serving' = FALSE /\ answer' = NONE
                 ELSE serving' = TRUE /\ answer' = ips

\* Mutant: the window ends a second early.
RecentShort(f) == now - safety[f] < Window - 1

\* The last unforced put is less than a window ago.
Recent(f) == now - safety[f] < Window

\* A put, as the client sends it first.
PutGranted(c, f) ==
  /\ serving /\ prompted[c] = NONE
  /\ ~Recent(f)
  /\ safety' = [safety EXCEPT ![f] = now]
  /\ Respond(f)
  /\ granted' = IF answer' # NONE THEN [granted EXCEPT ![f] = now] ELSE granted
  /\ UNCHANGED <<membership, now, prompted>>

PutConflict(c, f) ==
  /\ serving /\ prompted[c] = NONE
  /\ Recent(f)
  /\ prompted' = [prompted EXCEPT ![c] = f]
  /\ UNCHANGED <<membership, now, safety, serving, answer, granted>>

\* The user answers "yes": the put is sent again, forced.
Confirm(c) ==
  /\ serving /\ prompted[c] # NONE
  /\ Respond(prompted[c])
  /\ granted' = IF answer' # NONE THEN [granted EXCEPT ![prompted[c]] = now]
                                      ELSE granted
  /\ prompted' = [prompted EXCEPT ![c] = NONE]
  /\ UNCHANGED <<membership, now, safety>>

Decline(c) ==
  /\ prompted[c] # NONE
  /\ prompted' = [prompted EXCEPT ![c] = NONE]
  /\ UNCHANGED <<membership, now, safety, serving, answer, granted>>

\* A get, ls or delete, or a monitor asking where one of its files belongs.
Lookup(f) ==
  /\ serving
  /\ Respond(f)
  /\ UNCHANGED <<membership, now, safety, prompted, granted>>

Next ==
  \/ \E n \in Node : Hear(n) \/ Lose(n)
  \/ Tick
  \/ \E c \in Client : Confirm(c) \/ Decline(c)
  \/ \E f \in File :
       \/ Lookup(f)
       \/ \E c \in Client : PutGranted(c, f) \/ PutConflict(c, f)

Spec == Init /\ [][Next]_vars

-----------------------------------------------------------------------------
\* The variables have their types; only known nodes are marked failed.
TypeOK ==
  /\ known \subseteq Node /\ failed \subseteq known
  /\ now \in 0..MaxTime
  /\ safety \in [File -> {NEVER} \cup 0..MaxTime]
  /\ serving \in BOOLEAN
  /\ prompted \in [Client -> File \cup {NONE}]
  /\ answer \in {NONE} \cup [1..3 -> Node]
  /\ granted \in [File -> {NEVER} \cup 0..MaxTime]

Replicas(ips) == {ips[i] : i \in 1..3}

(* However nodes have joined and failed, the master's answer names live    *)
(* nodes only, two different ones as soon as two live, and three as soon   *)
(* as its list has four live nodes: the two neighbours of the primary are  *)
(* found in different directions, with wrap-arounds past failed nodes, and *)
(* must not meet.  With three live nodes they may: the walk back passes    *)
(* over begin() and comes round to the node behind the primary.            *)
EnoughReplicas ==
  answer # NONE =>
    /\ Replicas(answer) \subseteq Alive
    /\ Cardinality(Alive) >= 2 => Cardinality(Replicas(answer)) >= 2
    /\ Cardinality(Alive) >= 4 => Cardinality(Replicas(answer)) = 3

(* With addresses numbered from 37 on the modulus keeps every hash below   *)
(* the octet of some live node, whichever nodes live: where_to() does not  *)
(* run past the list, so the service only ends with a single live node or  *)
(* on the flag of end().                                                   *)
TwoLiveNodesServe ==
  Cardinality(Alive) >= 2 => \A f \in File : Eligible(Letter[f], Alive) # {}

(* A put that nobody was asked about comes at least a window after the     *)
(* last put of that file, unless that one was confirmed: confirmed puts    *)
(* are not recorded, so after one of them the user is not asked although   *)
(* README.md says "Prompt when updates are within a minute of each other". *)
UnaskedOnlyAfterConfirmed ==
  [][\A f \in File :
       granted'[f] # granted[f] /\ prompted' = prompted
         => now - granted[f] >= Window \/ granted[f] > safety[f]]_vars
=============================================================================
