------------------------------ MODULE FileStore ------------------------------
(***************************************************************************)
(* The replicated files of the SDFS: what lies in the ./uploads/ directory *)
(* of every node, the commands users type (put, get, ls, delete), the      *)
(* monitor thread of every node that re-replicates and removes files, and  *)
(* the machines and processes that stop and start again                    *)
(* (src/src/client.cpp, ftpclient.cpp, ftpserver.cpp, com.cpp).            *)
(*                                                                         *)
(* Every thread asks the node it takes for the master where a file belongs *)
(* and then works through the three addresses of the answer one by one,    *)
(* while the other threads, the membership and the master move on.         *)
(* A request to a node and its reply are one step, in which the handler of *)
(* that node runs; an upload is two, between which the file is open.       *)
(* The nodes have long been known to each other: every member_list has all *)
(* of them, and only its failed_ flags change.                             *)
(***************************************************************************)
EXTENDS Placement

CONSTANTS File,        \* the file names
          Letter,      \* the first character of a file name, as its distance to 'a'
          EndReads,    \* what the failed_ flag of member_list.end() may read as
          User,        \* the nodes where somebody types commands
          Command,     \* the commands they type
          Introducer,  \* the address every node is started with
          Version,     \* the contents that are put, in the order of the puts: 1..n
          Before,      \* the files whose version 1 was put long before
          Mortal,      \* the machines that may fail
          MaxCrashes,  \* bound on machines that fail
          MaxRestarts, \* bound on nodes that are started again
          Watching,    \* bound: the nodes whose failure detection is followed
          Mistaken,    \* the <<node, live node>> pairs of suspicions that may be wrong
          Throwing,    \* the nodes whose requests to their master may throw
          MaxMistakes, \* bound on wrong suspicions and requests that throw
          MaxLost,     \* bound on requests or replies that get lost
          NONE

ASSUME StoreAssumption ==
  /\ Letter \in [File -> Int]
  /\ EndReads \subseteq BOOLEAN /\ EndReads # {}
  /\ Introducer \in Node /\ Mortal \cup Watching \cup Throwing \subseteq Node
  /\ Mistaken \subseteq {p \in Node \X Node : p[1] # p[2]}
  /\ User \subseteq Node \ {Introducer}
  /\ Command \subseteq {"put", "get", "ls", "delete"}
  /\ \A v \in Version : v \in Nat \ {0} /\ 1..v \subseteq Version
  /\ Before \subseteq File /\ IsFiniteSet(Before) /\ Cardinality(Before) <= 1
  /\ Before # {} => 1 \in Version
  /\ NONE \notin File

VARIABLES up,       \* the nodes whose process runs
          serving,  \* the nodes whose putfile_listener thread runs
          failed,   \* failed[n]: the nodes that n's member_list marks as failed
          master,   \* master[n]: whom n takes for the master
          disk,     \* disk[n][f]: what n's copy of f is made of
          listing,  \* listing[n]: the files n's monitor has still to look at
          task,     \* task[<<n, who>>]: what a thread of n is doing
          last,     \* the last version put
          stored,   \* history: stored[f] is the last version put to the end, if not deleted
          faults    \* how much has gone wrong

vars == <<up, serving, failed, master, disk, listing, task, last, stored, faults>>

processes  == <<up, serving>>
membership == <<failed, master>>
files      == <<disk, stored, last>>

-----------------------------------------------------------------------------
Thread == Node \X {"monitor", "user"}

(* pc tells the thread's next step:                                        *)
(*   check, send, unlink, fetch  a request to the j-th address of ips      *)
(*   sending  its upload is open, and was opened there last                *)
(*   overrun  its upload is open, but another one has emptied the file     *)
(*   cut      its upload is open, but the machine it goes to has failed    *)
(*   orphan   its upload is open, but the file was deleted                 *)
(*   discard  the monitor's file is not required here                      *)
(*   stuck    waiting in receive_from(), which has no timeout              *)
Idle  == [pc |-> "idle", cmd |-> "none", file |-> NONE, ips |-> <<>>, j |-> 0,
          ver |-> 0, needed |-> FALSE, spoilt |-> FALSE]
Stuck == [Idle EXCEPT !.pc = "stuck"]

\* The node thread th is dealing with.
Target(th) == task[th].ips[task[th].j]

\* The threads whose uploads write n's copy of f.
Writers(n, f) == {th \in Thread : /\ task[th].pc \in {"sending", "overrun"}
                                  /\ task[th].file = f /\ Target(th) = n}

(* The contents of a copy are the set of what was written since it was     *)
(* last emptied: v > 0 all of version v, -v a part of it, MIXED anything   *)
(* else (an empty file, or pieces of several versions).                    *)
MIXED == 0
Part(v) == IF v > 0 THEN -v ELSE v

Present(n, f)  == disk[n][f] # {}
Whole(n, f, v) == v \in disk[n][f] /\ disk[n][f] \subseteq {v, -v}

\* What somebody gets who reads n's copy now.
Reading(n, f) ==
  CASE \E v \in Version : Whole(n, f, v) -> CHOOSE v \in Version : Whole(n, f, v)
    [] \E v \in Version : disk[n][f] = {-v} -> CHOOSE v \in {-w : w \in Version} : disk[n][f] = {v}
    [] OTHER -> MIXED

(* The answer for f when the nodes in `lost` are marked as failed, as long *)
(* as where_to() does not divide by zero.                                  *)
Answers ==
  LET dividing == {lost \in SUBSET Node : Divisor(Node \ lost) # 0}
  IN  [f \in File |-> [lost \in dividing |-> [endFailed \in BOOLEAN |->
         WhereTo(Letter[f], Node, Node \ lost, endFailed)]]]

Addresses(ips) == {ips[i] : i \in 1..3}

\* Mutant: an answer with an address read from end() is sent as well.
AnsweredWithEnd(ips) == TRUE

\* Copying the address string from end() throws.
Answered(ips) == END \notin Addresses(ips)

Replicas(f, lost) == Addresses(Answers[f][lost][TRUE])

Init ==
  /\ up = Node /\ serving = Node
  /\ failed = [n \in Node |-> {}]
  /\ master = [n \in Node |-> N]
  /\ disk = [n \in Node |-> [f \in File |->
               IF f \in Before /\ n \in Replicas(f, {}) THEN {1, -1} ELSE {}]]
  /\ listing = [n \in Node |-> {}]
  /\ task = [th \in Thread |-> Idle]
  /\ last = Cardinality(Before)
  /\ stored = [f \in File |-> IF f \in Before THEN 1 ELSE 0]
  /\ faults = [crashes |-> 0, restarts |-> 0, mistakes |-> 0, lost |-> 0]

-----------------------------------------------------------------------------
\* A process ends, and with it the uploads it was making.
Stop(n) ==
  /\ up' = up \ {n}
  /\ serving' = serving \ {n}
  /\ listing' = [listing EXCEPT ![n] = {}]
  /\ task' = [th \in Thread |-> IF th[1] = n THEN Idle ELSE task[th]]

(* A machine fails.  Unlike those of a process that exits, the children it *)
(* forked to receive uploads end as well.                                  *)
Crash(n) ==
  LET received == UNION {Writers(n, f) : f \in File} IN
  /\ n \in up \cap Mortal
  /\ faults.crashes < MaxCrashes
  /\ faults' = [faults EXCEPT !.crashes = @ + 1]
  /\ up' = up \ {n}
  /\ serving' = serving \ {n}
  /\ listing' = [listing EXCEPT ![n] = {}]
  /\ task' = [th \in Thread |-> CASE th[1] = n -> Idle
                                  [] th[1] # n /\ th \in received -> [task[th] EXCEPT !.pc = "cut"]
                                  [] OTHER -> task[th]]
  /\ UNCHANGED <<membership, files>>

\* ./uploads/ is left as it was found; the master is the introducer at first.
Restart(n) ==
  /\ n \notin up
  /\ faults.restarts < MaxRestarts
  /\ faults' = [faults EXCEPT !.restarts = @ + 1]
  /\ up' = up \cup {n}
  /\ serving' = serving \cup {n}
  /\ failed' = [failed EXCEPT ![n] = {}]
  /\ master' = [master EXCEPT ![n] = Introducer]
  /\ UNCHANGED <<files, listing, task>>

\* n's failure detector, or gossip, marks a node that does not heartbeat any more.
Detect(n, m) ==
  /\ n \in up \cap Watching /\ m \notin up \cup failed[n]
  /\ failed' = [failed EXCEPT ![n] = @ \cup {m}]
  /\ UNCHANGED <<processes, master, files, listing, task, faults>>

\* The same for a node that still does, but too late.
Mistake(n, m) ==
  /\ <<n, m>> \in Mistaken
  /\ n \in up /\ m \in up \ failed[n]
  /\ faults.mistakes < MaxMistakes
  /\ faults' = [faults EXCEPT !.mistakes = @ + 1]
  /\ failed' = [failed EXCEPT ![n] = @ \cup {m}]
  /\ UNCHANGED <<processes, master, files, listing, task>>

\* A heartbeat of m, or gossip, clears the flag again.
Hear(n, m) ==
  /\ n \in up /\ m \in up \cap failed[n]
  /\ failed' = [failed EXCEPT ![n] = @ \ {m}]
  /\ UNCHANGED <<processes, master, files, listing, task, faults>>

(* master_elector: the greatest address string that is not marked as       *)
(* failed; the loop ends in front of begin().                              *)
Elect(n) ==
  LET candidates == Node \ (failed[n] \cup {Min(Node)}) IN
  /\ n \in up
  /\ candidates # {} /\ master[n] # Max(candidates)
  /\ master' = [master EXCEPT ![n] = Max(candidates)]
  /\ UNCHANGED <<processes, failed, files, listing, task, faults>>

-----------------------------------------------------------------------------
\* A thread's first step with an address of the answer.
FirstPc(cmd) == CASE cmd = "put" -> "send"
                  [] cmd = "delete" -> "unlink"
                  [] OTHER -> "check"

\* Mutant: the loop over the answer ends one address too early.
OnwardsTwice(t) ==
  CASE t.j < 2 -> [t EXCEPT !.j = @ + 1, !.pc = FirstPc(t.cmd), !.spoilt = FALSE]
    [] t.j >= 2 /\ t.cmd = "monitor" /\ ~t.needed -> [t EXCEPT !.pc = "discard"]
    [] OTHER -> Idle

\* Mutant: file_not_required has the opposite meaning.
OnwardsInverted(t) ==
  CASE t.j < 3 -> [t EXCEPT !.j = @ + 1, !.pc = FirstPc(t.cmd), !.spoilt = FALSE]
    [] t.j = 3 /\ t.cmd = "monitor" /\ t.needed -> [t EXCEPT !.pc = "discard"]
    [] OTHER -> Idle

\* What a thread does that is through with one address.
Onwards(t) ==
  CASE t.j < 3 -> [t EXCEPT !.j = @ + 1, !.pc = FirstPc(t.cmd), !.spoilt = FALSE]
    [] t.j = 3 /\ t.cmd = "monitor" /\ ~t.needed -> [t EXCEPT !.pc = "discard"]
    [] OTHER -> Idle

(* A send that throws leaves the answer empty: a command has no address to *)
(* work through, and a monitor finds its file required nowhere.            *)
Unanswered(cmd, f) ==
  IF cmd = "monitor" THEN [Idle EXCEPT !.pc = "discard", !.cmd = cmd, !.file = f] ELSE Idle

(* udp_sendmsg("<force>;<f>", master, PUTFILE_PORT) and the answer of      *)
(* where_to() there.  Nobody answers for a node that is down or whose      *)
(* listener has ended.  With one live node in the list the master divides  *)
(* by zero, and reading an address from end() ends its listener.           *)
Ask(th, cmd, f, v) ==
  LET n == th[1]
      m == master[n]
      alive == Node \ failed[m]
      rest  == IF th[2] = "monitor" THEN listing[n] \ {f} ELSE listing[n]
      waits == [task EXCEPT ![th] = Stuck]
      asks(ips) ==
        [task EXCEPT ![th] = [pc |-> FirstPc(cmd), cmd |-> cmd, file |-> f, ips |-> ips,
                              j |-> 1, ver |-> v, needed |-> FALSE, spoilt |-> FALSE]]
  IN
  \/ /\ n \in Throwing /\ faults.mistakes < MaxMistakes
     /\ faults' = [faults EXCEPT !.mistakes = @ + 1]
     /\ task' = [task EXCEPT ![th] = Unanswered(cmd, f)]
     /\ listing' = [listing EXCEPT ![n] = rest]
     /\ UNCHANGED processes
  \/ /\ \/ m \notin serving /\ UNCHANGED faults
        \/ /\ m \in serving /\ faults.lost < MaxLost
           /\ faults' = [faults EXCEPT !.lost = @ + 1]
     /\ task' = waits /\ listing' = [listing EXCEPT ![n] = rest]
     /\ UNCHANGED processes
  \/ /\ m \in serving /\ Divisor(alive) = 0
     /\ up' = up \ {m} /\ serving' = serving \ {m}
     /\ task' = [w \in Thread |-> IF w[1] = m THEN Idle ELSE waits[w]]
     /\ listing' = [listing EXCEPT ![n] = rest, ![m] = {}]
     /\ UNCHANGED faults
  \/ /\ m \in serving /\ Divisor(alive) # 0
     /\ \E endFailed \in EndReads :
          LET ips == Answers[f][failed[m]][endFailed]
          IN  /\ serving' = IF Answered(ips) THEN serving ELSE serving \ {m}
              /\ task' = IF Answered(ips) THEN asks(ips) ELSE waits
     /\ listing' = [listing EXCEPT ![n] = rest]
     /\ UNCHANGED <<up, faults>>

(* A user's command.  A put is granted at once, or after CONFLICT and a    *)
(* "yes"; a "no" changes nothing.                                          *)
Type(n, cmd, f) ==
  /\ n \in User \cap up /\ task[<<n, "user">>].pc = "idle"
  /\ cmd \in Command
  /\ cmd = "put" => last + 1 \in Version
  /\ last' = IF cmd = "put" THEN last + 1 ELSE last
  /\ Ask(<<n, "user">>, cmd, f, IF cmd = "put" THEN last + 1 ELSE 0)
  /\ stored' = IF cmd = "delete" THEN [stored EXCEPT ![f] = 0] ELSE stored
  /\ UNCHANGED <<membership, disk>>

\* The monitor starts a round: what is in ./uploads/ now.
Wake(n) ==
  /\ n \in up /\ task[<<n, "monitor">>].pc = "idle" /\ listing[n] = {}
  /\ N >= 4
  /\ \E f \in File : Present(n, f)
  /\ listing' = [listing EXCEPT ![n] = {f \in File : Present(n, f)}]
  /\ UNCHANGED <<processes, membership, files, task, faults>>

MonitorAsk(n, f) ==
  /\ n \in up /\ task[<<n, "monitor">>].pc = "idle" /\ f \in listing[n]
  /\ Ask(<<n, "monitor">>, "monitor", f, 0)
  /\ UNCHANGED <<membership, files>>

\* Mutant: the monitor does not recognise its own address.
RecognisedNever(th) == task[th]

(* The reply to a CHECK names the asker's address, by which the monitor    *)
(* learns that the file is required on its own node.                       *)
Recognised(th) ==
  [task[th] EXCEPT !.needed = @ \/ (task[th].cmd = "monitor" /\ Target(th) = th[1])]

\* <f>;CHECK at the target.
Check(th) ==
  LET t == task[th]
      u == Recognised(th)
      found == CASE t.cmd = "monitor" -> Onwards(u)
                 [] t.cmd = "get" -> [t EXCEPT !.pc = "fetch"]
                 [] t.cmd = "ls" -> Idle
      absent == IF t.cmd = "monitor" THEN [u EXCEPT !.pc = "send"] ELSE Onwards(t)
  IN
  /\ th[1] \in up /\ t.pc = "check"
  /\ task' = [task EXCEPT ![th] = CASE Target(th) \notin up -> Stuck
                                    [] Target(th) \in up /\ Present(Target(th), t.file) -> found
                                    [] OTHER -> absent]
  /\ UNCHANGED <<processes, membership, files, listing, faults>>

\* A CHECK, its reply or a DELETE gets lost.
Drop(th) ==
  /\ th[1] \in up /\ task[th].pc \in {"check", "unlink"} /\ Target(th) \in up
  /\ faults.lost < MaxLost
  /\ faults' = [faults EXCEPT !.lost = @ + 1]
  /\ task' = [task EXCEPT ![th] = Stuck]
  /\ UNCHANGED <<processes, membership, files, listing>>

\* Mutant: fopen(f, "r+b") leaves the old contents in the file.
EmptiedNot(n, f) == disk[n][f] \cup {Part(task[th].ver) : th \in Writers(n, f)}

(* fopen(f, "wb") on n empties the copy under the uploads that are writing *)
(* it and under the upload n's monitor may be making from it.              *)
Emptied(n, f) == {Part(task[th].ver) : th \in Writers(n, f)}
Reopened(n, f) ==
  [th \in Thread |->
     [task[th] EXCEPT !.pc = IF th \in Writers(n, f) THEN "overrun" ELSE @,
                      !.spoilt = \/ @
                                 \/ /\ th = <<n, "monitor">> /\ task[th].file = f
                                    /\ task[th].pc \in {"sending", "overrun", "cut", "orphan"}]]

(* upload_file up to the target's fopen().  It exits when it cannot        *)
(* connect, and crashes when the file to send is not there any more: by    *)
(* then the target has the name, and leaves an empty file.                 *)
SendStart(th) ==
  LET t == task[th]
      n == th[1]
      x == Target(th)
      v == IF t.cmd = "monitor" THEN Reading(n, t.file) ELSE t.ver
      gone == t.cmd = "monitor" /\ ~Present(n, t.file)
  IN
  /\ n \in up /\ t.pc = "send"
  /\ IF x \in up
       THEN disk' = [disk EXCEPT ![x][t.file] =
                       {IF gone THEN MIXED ELSE Part(v)} \cup Emptied(x, t.file)]
       ELSE UNCHANGED disk
  /\ IF x \in up /\ ~gone
       THEN /\ task' = [Reopened(x, t.file) EXCEPT
                          ![th] = [t EXCEPT !.pc = "sending", !.ver = v,
                                            !.spoilt = t.cmd = "monitor" /\ x = n]]
            /\ UNCHANGED <<processes, listing>>
       ELSE /\ up' = up \ {n} /\ serving' = serving \ {n}
            /\ listing' = [listing EXCEPT ![n] = {}]
            /\ task' = [w \in Thread |-> CASE w[1] = n -> Idle
                                           [] w[1] # n /\ x \in up -> Reopened(x, t.file)[w]
                                           [] OTHER -> task[w]]
  /\ UNCHANGED <<membership, stored, last, faults>>

(* The rest of upload_file.  A monitor whose source was emptied meanwhile  *)
(* had read it all before, sends a mixture, or reads too little and sends  *)
(* without end until it dies of SIGPIPE.  An upload to a failed machine    *)
(* ends like that too, unless all of it fits into the socket's buffer.     *)
SendEnd(th) ==
  LET t == task[th] IN
  /\ th[1] \in up /\ t.pc \in {"sending", "overrun", "cut", "orphan"}
  /\ IF t.pc = "sending"
       THEN \E v \in {t.ver} \cup {w \in {MIXED} : t.spoilt} :
              disk' = [disk EXCEPT ![Target(th)][t.file] = @ \cup {v}]
       ELSE UNCHANGED disk
  /\ \/ /\ task' = [task EXCEPT ![th] = Onwards(t)]
        /\ stored' = IF t.cmd = "put" /\ t.j = 3 THEN [stored EXCEPT ![t.file] = t.ver] ELSE stored
        /\ UNCHANGED <<processes, listing>>
     \/ /\ t.pc = "cut" \/ t.spoilt
        /\ Stop(th[1])
        /\ UNCHANGED stored
  /\ UNCHANGED <<membership, last, faults>>

\* unlink() on n: uploads that are writing the file go on writing it.
Unlinked(n, f) ==
  [th \in Thread |-> IF th \in Writers(n, f) THEN [task[th] EXCEPT !.pc = "orphan"] ELSE task[th]]

\* The monitor removes a file that none of the three addresses requires here.
Discard(n) ==
  LET th == <<n, "monitor">>
      f  == task[th].file
  IN
  /\ n \in up /\ task[th].pc = "discard"
  /\ disk' = [disk EXCEPT ![n][f] = {}]
  /\ task' = [Unlinked(n, f) EXCEPT ![th] = Idle]
  /\ UNCHANGED <<processes, membership, stored, last, listing, faults>>

\* <f>;DELETE at the target; the last reply may get lost.
Unlink(th) ==
  LET t == task[th]
      x == Target(th)
  IN
  /\ th[1] \in up /\ t.pc = "unlink"
  /\ \/ /\ x \notin up
        /\ task' = [task EXCEPT ![th] = Stuck]
        /\ UNCHANGED <<disk, faults>>
     \/ /\ x \in up
        /\ disk' = [disk EXCEPT ![x][t.file] = {}]
        /\ \/ /\ task' = [Unlinked(x, t.file) EXCEPT ![th] = Onwards(t)]
              /\ UNCHANGED faults
           \/ /\ faults.lost < MaxLost
              /\ faults' = [faults EXCEPT !.lost = @ + 1]
              /\ task' = [Unlinked(x, t.file) EXCEPT ![th] = Stuck]
  /\ UNCHANGED <<processes, membership, stored, last, listing>>

\* download_file into ./downloads/, which exits like upload_file.
Fetch(th) ==
  /\ th[1] \in up /\ task[th].pc = "fetch"
  /\ IF Target(th) \in up
       THEN task' = [task EXCEPT ![th] = Idle] /\ UNCHANGED <<processes, listing>>
       ELSE Stop(th[1])
  /\ UNCHANGED <<membership, files, faults>>

-----------------------------------------------------------------------------
Upload(th) == SendStart(th) \/ SendEnd(th)

MonitorStep(n) ==
  LET th == <<n, "monitor">> IN
  Wake(n) \/ (\E f \in File : MonitorAsk(n, f)) \/ Check(th) \/ Upload(th) \/ Discard(n)

UserStep(n) ==
  LET th == <<n, "user">> IN
  Check(th) \/ Upload(th) \/ Unlink(th) \/ Fetch(th)

Next ==
  \/ \E n \in Node : MonitorStep(n) \/ Elect(n) \/ Crash(n) \/ Restart(n)
  \/ \E n \in User : UserStep(n) \/ (\E cmd \in Command, f \in File : Type(n, cmd, f))
  \/ \E n, m \in Node : Detect(n, m) \/ Mistake(n, m) \/ Hear(n, m)
  \/ \E th \in Thread : Drop(th)

(* The threads run, and a failed machine is detected in the end.  Nothing  *)
(* is assumed about a wrongly suspected one: heartbeater() skips those who *)
(* suspect it in turn.                                                     *)
Fairness ==
  /\ \A n \in Node : WF_vars(MonitorStep(n)) /\ WF_vars(Elect(n))
  /\ \A n \in User : WF_vars(UserStep(n))
  /\ WF_vars(\E n, m \in Node : Detect(n, m))

Spec     == Init /\ [][Next]_vars
FairSpec == Spec /\ Fairness

-----------------------------------------------------------------------------
Contents == {MIXED} \cup Version \cup {-v : v \in Version}

\* The variables have their types, and only running nodes do anything.
TypeOK ==
  /\ serving \subseteq up /\ up \subseteq Node
  /\ failed \in [Node -> SUBSET Node] /\ \A n \in Node : n \notin failed[n]
  /\ master \in [Node -> Node]
  /\ disk \in [Node -> [File -> SUBSET Contents]]
  /\ listing \in [Node -> SUBSET File]
  /\ last \in {0} \cup Version /\ stored \in [File -> {0} \cup Version]
  /\ \A th \in Thread :
       /\ th[1] \notin up => task[th] = Idle /\ listing[th[1]] = {}
       /\ task[th].pc = "discard" => task[th].file \in File
       /\ task[th].pc \notin {"idle", "stuck", "discard"} =>
            /\ task[th].file \in File /\ task[th].j \in 1..3
            /\ task[th].ips \in [1..3 -> Node] /\ task[th].ver \in Contents

(* A file that was put to the end and not deleted lies undamaged on a node *)
(* that runs, whatever the monitors copy and remove while the membership   *)
(* and the placement change under them.                                    *)
NoLoss ==
  \A f \in File : stored[f] # 0 => \E n \in up, v \in Version :
                                    v >= stored[f] /\ Whole(n, f, v)

(* A monitor that is about to remove its copy has worked through an answer *)
(* that names two other nodes or three, and not its own, however the views *)
(* of the masters have moved since (or its request threw, and it has no    *)
(* answer at all): where it belongs no monitor removes a file.             *)
RemovesOnlySurplus ==
  \A n \in Node :
    LET t == task[<<n, "monitor">>]
    IN  t.pc = "discard" /\ t.ips # <<>> =>
          n \notin Addresses(t.ips) /\ Cardinality(Addresses(t.ips)) >= 2

\* f belongs on n, by the list of every master that might be asked now.
Required(n, f) ==
  \A m \in {master[k] : k \in up} \cap serving, e \in EndReads :
    LET alive == Node \ failed[m]
        ips   == WhereTo(Letter[f], Node, alive, e)
    IN  Divisor(alive) # 0 /\ Answered(ips) => n \in Addresses(ips)

(* As long as a holder belongs to the placement in every node's view       *)
(* whenever it runs, its copy stays undamaged, whatever fails meanwhile,   *)
(* itself included, and whatever the other monitors upload and remove in   *)
(* answer to older views.  (Puts and deletes change it, and so does a      *)
(* request of its own monitor that throws.)                                *)
KeptWhereRequired ==
  Command \subseteq {"get", "ls"} =>
    \A f \in Before, n \in Node \ Throwing :
      n \in Replicas(f, {}) /\ [](n \in up => Required(n, f)) => []Whole(n, f, 1)

\* The nodes that hold all of what was put last, and those the master of n names.
Holders(f) == {n \in up : Whole(n, f, stored[f])}
Placed(n, f) == Replicas(f, failed[master[n]])

(* README.md: "make sure data is re-replicated quickly".  Once failures,   *)
(* suspicions and commands have ceased, exactly the three nodes where the  *)
(* file belongs hold it, and hold all of it.                               *)
Settles ==
  \A f \in File :
    <>[](stored[f] # 0 => \A n \in up : Holders(f) = Placed(n, f) \cap up)

(* README.md: "Updates to a given file must follow the order".  When no    *)
(* put is under way all the undamaged copies of a file are of one version. *)
ReplicasAgree ==
  \A f \in File, v, w \in Version, m, n \in Node :
    /\ \A u \in User : task[<<u, "user">>].pc = "idle"
    /\ Whole(m, f, v) /\ Whole(n, f, w)
    => v = w

=============================================================================
