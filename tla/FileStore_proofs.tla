--------------------------- MODULE FileStore_proofs ---------------------------
(***************************************************************************)
(* TypeOK, RemovesOnlySurplus and KeptWhereRequired of the file store, for *)
(* any number of nodes, files and versions, and NoLoss where one holder    *)
(* stays or one machine fails.  What they take: a thread only ever asks    *)
(* nodes of the list, because an answer that names end() is never sent;    *)
(* whatever ends or restarts, only running nodes have threads and files to *)
(* look at; a copy is made of nothing but versions that were put, parts of *)
(* them and mixtures; a monitor remembers all its answer has told it; who  *)
(* has the file is never sent it; and one failure brings one node at most  *)
(* into the placement.                                                     *)
(***************************************************************************)
EXTENDS FileStore, Placement_proofs

Pc == {"idle", "stuck", "discard", "check", "send", "sending", "overrun", "cut",
       "orphan", "unlink", "fetch"}

\* The steps in which a thread works through an answer.
Asking == Pc \ {"idle", "stuck", "discard"}

\* Everything a thread may be doing.
Tasks ==
  {t \in [pc : Pc, cmd : {"none", "monitor", "put", "get", "ls", "delete"},
          file : File \cup {NONE}, ips : [1..3 -> Node] \cup {<<>>}, j : 0..3,
          ver : Contents, needed : BOOLEAN, spoilt : BOOLEAN] :
     /\ t.pc \in Asking => /\ t.file \in File /\ t.j \in 1..3
                           /\ t.ips \in [1..3 -> Node] /\ t.cmd # "none"
     /\ t.pc = "discard" => t.file \in File
     /\ t.pc = "check" => t.cmd \in {"monitor", "get", "ls"}
     /\ t.cmd # "monitor" => t.ver \in {0} \cup Version}

Running  == serving \subseteq up /\ up \subseteq Node
Views    == /\ failed \in [Node -> SUBSET Node] /\ \A n \in Node : n \notin failed[n]
            /\ master \in [Node -> Node]
Copies   == disk \in [Node -> [File -> SUBSET Contents]]
Puts     == last \in {0} \cup Version /\ stored \in [File -> {0} \cup Version]
Listings == /\ listing \in [Node -> SUBSET File]
            /\ \A n \in Node : n \notin up => listing[n] = {}
Threads  == /\ task \in [Thread -> Tasks]
            /\ \A th \in Thread : th[1] \notin up => task[th] = Idle

(* The inductive invariant.                                                *)
IInv == Running /\ Views /\ Copies /\ Puts /\ Listings /\ Threads

-----------------------------------------------------------------------------
(* Versions are positive, so that a part of one is none of them.           *)
LEMMA ContentsClosed ==
  ASSUME StoreAssumption
  PROVE  /\ Version \subseteq Nat \ {0} /\ 0 \in Contents /\ MIXED \in Contents
         /\ \A v \in Version : v \in Contents /\ -v \in Contents
         /\ \A v \in Contents : Part(v) \in Contents
  <1>1. Version \subseteq Nat \ {0}
    BY DEF StoreAssumption
  <1>2. \A v \in Version : v \in Contents /\ -v \in Contents
    BY DEF Contents
  <1>3. 0 \in Contents /\ MIXED \in Contents
    BY DEF Contents, MIXED
  <1>4. \A v \in Contents : Part(v) \in Contents
    <2> TAKE v \in Contents
    <2>1. CASE v \in Version
      BY <1>1, <1>2, <2>1 DEF Part
    <2>2. CASE v = 0
      BY <1>3, <2>2 DEF Part
    <2>3. CASE \E u \in Version : v = -u
      <3>1. ~(v > 0)
        BY <1>1, <2>3
      <3> QED BY <3>1 DEF Part
    <2> QED BY <2>1, <2>2, <2>3 DEF Contents, MIXED
  <1> QED BY <1>1, <1>2, <1>3, <1>4

(* An idle thread, one that waits for an answer that will not come, and    *)
(* one whose request threw.                                                *)
LEMMA RestingTasks ==
  ASSUME StoreAssumption
  PROVE  /\ Idle \in Tasks /\ Idle.pc = "idle" /\ Stuck \in Tasks
         /\ \A cmd \in Command \cup {"monitor"}, f \in File : Unanswered(cmd, f) \in Tasks
  <1>1. 0 \in Contents
    BY ContentsClosed
  <1>2. Idle \in Tasks /\ Idle.pc = "idle"
    BY <1>1 DEF Idle, Tasks, Pc, Asking
  <1>3. Stuck \in Tasks
    <2>1. Idle.cmd = "none" /\ Idle.ver = 0
      BY DEF Idle
    <2> QED BY <1>2, <2>1 DEF Stuck, Tasks, Pc, Asking
  <1>4. \A cmd \in Command \cup {"monitor"}, f \in File : Unanswered(cmd, f) \in Tasks
    <2> TAKE cmd \in Command \cup {"monitor"}, f \in File
    <2>1. CASE cmd = "monitor"
      <3>1. Unanswered(cmd, f) =
              [pc |-> "discard", cmd |-> "monitor", file |-> f, ips |-> <<>>, j |-> 0,
               ver |-> 0, needed |-> FALSE, spoilt |-> FALSE]
        BY <2>1 DEF Unanswered, Idle
      <3> QED BY <1>1, <3>1 DEF Tasks, Pc, Asking
    <2>2. CASE cmd # "monitor"
      BY <1>2, <2>2 DEF Unanswered
    <2> QED BY <2>1, <2>2
  <1> QED BY <1>2, <1>3, <1>4

(* A thread that goes on with the next address, or is through.             *)
LEMMA OnwardsTask ==
  ASSUME StoreAssumption, NEW t \in Tasks, t.pc \in Asking
  PROVE  Onwards(t) \in Tasks
  <1>1. CASE t.j < 3
    <2>1. Onwards(t) = [t EXCEPT !.j = @ + 1, !.pc = FirstPc(t.cmd), !.spoilt = FALSE]
      BY <1>1 DEF Onwards
    <2>2. FirstPc(t.cmd) \in Pc /\ (FirstPc(t.cmd) = "check" => t.cmd \in {"monitor", "get", "ls"})
      BY DEF FirstPc, Pc, Tasks
    <2>3. FirstPc(t.cmd) # "discard"
      BY DEF FirstPc
    <2>4. Onwards(t) = [pc |-> FirstPc(t.cmd), cmd |-> t.cmd, file |-> t.file, ips |-> t.ips,
                        j |-> t.j + 1, ver |-> t.ver, needed |-> t.needed, spoilt |-> FALSE]
      BY <2>1 DEF Tasks
    <2>5. t.j + 1 \in 1..3
      BY <1>1 DEF Tasks
    <2> QED BY <2>2, <2>3, <2>4, <2>5 DEF Tasks, Asking
  <1>2. CASE t.j = 3 /\ t.cmd = "monitor" /\ ~t.needed
    <2>1. Onwards(t) = [t EXCEPT !.pc = "discard"]
      BY <1>2 DEF Onwards, Tasks
    <2> QED BY <2>1 DEF Tasks, Asking, Pc
  <1>3. CASE ~(t.j < 3) /\ ~(t.j = 3 /\ t.cmd = "monitor" /\ ~t.needed)
    <2>1. Onwards(t) = Idle
      BY <1>3 DEF Onwards
    <2> QED BY <2>1, RestingTasks
  <1> QED BY <1>1, <1>2, <1>3

(* The node a thread is dealing with is a node of the list.                *)
LEMMA TargetIsNode ==
  ASSUME Threads, NEW th \in Thread, task[th].pc \in Asking
  PROVE  Target(th) \in Node
  BY DEF Threads, Tasks, Target

(* One thread of a running node goes on, and nothing else about threads    *)
(* changes.                                                                *)
LEMMA OneThread ==
  ASSUME Running, Listings, Threads, NEW th \in Thread, th[1] \in up, NEW t \in Tasks,
         task' = [task EXCEPT ![th] = t], UNCHANGED <<up, serving, listing>>
  PROVE  Running' /\ Listings' /\ Threads'
  <1>1. Threads'
    BY DEF Threads
  <1> QED BY <1>1 DEF Running, Listings

(* A process ends: its node keeps no thread and no listing.                *)
LEMMA StopKeeps ==
  ASSUME StoreAssumption, Running, Listings, Threads, NEW n \in Node, Stop(n)
  PROVE  Running' /\ Listings' /\ Threads'
  <1>1. Running'
    BY DEF Running, Stop
  <1>2. Listings'
    BY DEF Listings, Stop
  <1>3. Threads'
    BY RestingTasks DEF Threads, Stop
  <1> QED BY <1>1, <1>2, <1>3

(* An upload under way that is cut off, emptied or orphaned stays one, and *)
(* its threads belong to running nodes.                                    *)
LEMMA WriterTasks ==
  ASSUME Threads, NEW x \in Node, NEW f \in File, NEW w \in Writers(x, f)
  PROVE  /\ w \in Thread /\ w[1] \in up
         /\ \A pc \in {"overrun", "cut", "orphan"} : [task[w] EXCEPT !.pc = pc] \in Tasks
  <1>1. w \in Thread /\ task[w].pc \in {"sending", "overrun"} /\ task[w] \in Tasks
    BY DEF Writers, Threads
  <1>2. w[1] \in up
    <2>1. Idle.pc = "idle"
      BY DEF Idle
    <2> QED BY <1>1, <2>1 DEF Threads
  <1>3. \A pc \in {"overrun", "cut", "orphan"} : [task[w] EXCEPT !.pc = pc] \in Tasks
    BY <1>1 DEF Tasks, Asking, Pc
  <1> QED BY <1>1, <1>2, <1>3

(* fopen() and unlink() change nothing but the state of uploads.           *)
LEMMA ReopenedTasks ==
  ASSUME Threads, NEW x \in Node, NEW f \in File
  PROVE  /\ Reopened(x, f) \in [Thread -> Tasks] /\ Unlinked(x, f) \in [Thread -> Tasks]
         /\ \A w \in Thread : w[1] \notin up => Reopened(x, f)[w] = Idle /\ Unlinked(x, f)[w] = Idle
  <1>1. \A w \in Thread : w[1] \notin up => w \notin Writers(x, f) /\ task[w] = Idle
    BY WriterTasks DEF Threads
  <1>2. Unlinked(x, f) \in [Thread -> Tasks]
    BY WriterTasks DEF Unlinked, Threads
  <1>3. ASSUME NEW w \in Thread
        PROVE  /\ Reopened(x, f)[w] \in Tasks
               /\ w[1] \notin up => Reopened(x, f)[w] = Idle
    <2> DEFINE u == IF w \in Writers(x, f) THEN [task[w] EXCEPT !.pc = "overrun"] ELSE task[w]
               source == /\ w = <<x, "monitor">> /\ task[w].file = f
                         /\ task[w].pc \in {"sending", "overrun", "cut", "orphan"}
               r == Reopened(x, f)[w]
    <2>1. u \in Tasks
      BY <1>3, WriterTasks DEF Threads
    <2>2. task[w] \in Tasks
      BY DEF Threads
    <2>3. r = [task[w] EXCEPT !.pc = IF w \in Writers(x, f) THEN "overrun" ELSE @,
                              !.spoilt = @ \/ source]
      BY DEF Reopened
    <2>4. r = [u EXCEPT !.spoilt = task[w].spoilt \/ source]
      BY <2>2, <2>3 DEF Tasks
    <2>5. (task[w].spoilt \/ source) \in BOOLEAN
      OBVIOUS
    <2>6. r \in Tasks
      <3> HIDE DEF r, u, source
      <3> QED BY <2>1, <2>4, <2>5 DEF Tasks
    <2>7. w[1] \notin up => r = Idle
      <3> SUFFICES ASSUME w[1] \notin up PROVE r = Idle
        OBVIOUS
      <3>1. u = Idle /\ task[w] = Idle
        BY <1>1
      <3>2. ~source /\ Idle.spoilt = FALSE
        BY <3>1 DEF Idle
      <3>3. r = [Idle EXCEPT !.spoilt = FALSE]
        BY <2>4, <3>1, <3>2
      <3> QED BY <2>2, <3>1, <3>2, <3>3 DEF Tasks
    <2> QED BY <2>6, <2>7
  <1>4. Reopened(x, f) \in [Thread -> Tasks]
    <2>1. Reopened(x, f) = [w \in Thread |-> Reopened(x, f)[w]]
      BY DEF Reopened
    <2> HIDE DEF Reopened
    <2> QED BY <1>3, <2>1
  <1>5. \A w \in Thread : w[1] \notin up => Unlinked(x, f)[w] = Idle
    BY <1>1 DEF Unlinked
  <1> QED BY <1>2, <1>3, <1>4, <1>5

(* An answer is where_to()'s, whichever flag it reads from end(): what     *)
(* holds of that one holds of an answer that is sent.                      *)
LEMMA AnswerHolds ==
  ASSUME NEW letter, NEW alive, alive \subseteq Node, NEW ips,
         \/ ips = WhereTo(letter, Node, alive, TRUE)
         \/ ips = WhereTo(letter, Node, alive, FALSE),
         END \notin {ips[i] : i \in 1..3}
  PROVE  /\ ips \in [1..3 -> Node]
         /\ Cardinality(alive) >= 2 => Cardinality(Named(ips)) >= 2
  <1>1. PICK e \in BOOLEAN : ips = WhereTo(letter, Node, alive, e)
    OBVIOUS
  <1> QED BY <1>1, AnswerIsAlive

(* An answer that is sent names three nodes of the list.                   *)
LEMMA AnswerNamesNodes ==
  ASSUME StoreAssumption, NEW f \in File, NEW lost \in SUBSET Node, NEW e \in EndReads,
         Divisor(Node \ lost) # 0, Answered(Answers[f][lost][e])
  PROVE  Answers[f][lost][e] \in [1..3 -> Node]
  <1>1. Answers[f][lost][e] = WhereTo(Letter[f], Node, Node \ lost, e)
    <2>1. e \in BOOLEAN
      BY DEF StoreAssumption
    <2> QED BY <2>1 DEF Answers
  <1>2. PICK ips : ips = WhereTo(Letter[f], Node, Node \ lost, e)
    OBVIOUS
  <1>3. END \notin {ips[i] : i \in 1..3}
    BY <1>1, <1>2 DEF Answered, Addresses
  <1>4. Node \subseteq Node /\ Node \ lost \subseteq Node
    OBVIOUS
  <1>5. \/ ips = WhereTo(Letter[f], Node, Node \ lost, TRUE)
        \/ ips = WhereTo(Letter[f], Node, Node \ lost, FALSE)
    BY <1>2 DEF StoreAssumption
  <1>6. ips \in [1..3 -> Node]
    BY <1>3, <1>4, <1>5, AnswerHolds
  <1> QED BY <1>1, <1>2, <1>6

(* Asking the master leaves the thread waiting, or with three nodes to     *)
(* work through; the master's process or its service may end.              *)
LEMMA AskKeeps ==
  ASSUME StoreAssumption, Running, Views, Listings, Threads,
         NEW th \in Thread, th[1] \in up, NEW cmd \in Command \cup {"monitor"},
         NEW f \in File, NEW v \in {0} \cup Version, Ask(th, cmd, f, v)
  PROVE  Running' /\ Listings' /\ Threads'
  <1> DEFINE n == th[1]
             m == master[n]
             rest == IF th[2] = "monitor" THEN listing[n] \ {f} ELSE listing[n]
             waits == [task EXCEPT ![th] = Stuck]
  <1>1. n \in Node /\ m \in Node /\ rest \subseteq File
    BY DEF Thread, Views, Listings
  <1>2. [listing EXCEPT ![n] = rest] \in [Node -> SUBSET File]
    BY <1>1 DEF Listings
  <1>3. waits \in [Thread -> Tasks] /\ \A w \in Thread : w[1] \notin up => waits[w] = Idle
    BY RestingTasks DEF Threads
  <1>4. listing' = [listing EXCEPT ![n] = rest] /\ up' = up => Listings'
    BY <1>2 DEF Listings
  <1>5. CASE /\ task' = [task EXCEPT ![th] = Unanswered(cmd, f)]
             /\ listing' = [listing EXCEPT ![n] = rest] /\ UNCHANGED processes
    <2>1. Threads'
      BY <1>5, RestingTasks DEF Threads, processes
    <2> QED BY <1>4, <1>5, <2>1 DEF Running, processes
  <1>6. CASE /\ task' = waits
             /\ listing' = [listing EXCEPT ![n] = rest] /\ UNCHANGED processes
    <2>1. Threads'
      BY <1>3, <1>6 DEF Threads, processes
    <2> QED BY <1>4, <1>6, <2>1 DEF Running, processes
  <1>7. CASE /\ up' = up \ {m} /\ serving' = serving \ {m}
             /\ task' = [w \in Thread |-> IF w[1] = m THEN Idle ELSE waits[w]]
             /\ listing' = [listing EXCEPT ![n] = rest, ![m] = {}]
    <2>1. Threads'
      BY <1>3, <1>7, RestingTasks DEF Threads
    <2>2. Listings'
      BY <1>1, <1>7 DEF Listings
    <2> QED BY <1>7, <2>1, <2>2 DEF Running
  <1>8. ASSUME NEW e \in EndReads, Divisor(Node \ failed[m]) # 0, up' = up,
               LET ips == Answers[f][failed[m]][e]
               IN  /\ serving' = IF Answered(ips) THEN serving ELSE serving \ {m}
                   /\ task' = IF Answered(ips)
                                THEN [task EXCEPT ![th] =
                                        [pc |-> FirstPc(cmd), cmd |-> cmd, file |-> f,
                                         ips |-> ips, j |-> 1, ver |-> v,
                                         needed |-> FALSE, spoilt |-> FALSE]]
                                ELSE waits,
               listing' = [listing EXCEPT ![n] = rest]
        PROVE  Running' /\ Listings' /\ Threads'
    <2> DEFINE ips == Answers[f][failed[m]][e]
               t == [pc |-> FirstPc(cmd), cmd |-> cmd, file |-> f, ips |-> ips, j |-> 1,
                     ver |-> v, needed |-> FALSE, spoilt |-> FALSE]
    <2>1. Answered(ips) => t \in Tasks
      <3> SUFFICES ASSUME Answered(ips) PROVE t \in Tasks
        OBVIOUS
      <3>1. failed[m] \in SUBSET Node
        BY <1>1 DEF Views
      <3>2. ips \in [1..3 -> Node]
        BY <1>8, <3>1, AnswerNamesNodes
      <3>3. cmd \in {"monitor", "put", "get", "ls", "delete"}
        BY DEF StoreAssumption
      <3>4. FirstPc(cmd) \in Asking /\ (FirstPc(cmd) = "check" => cmd \in {"monitor", "get", "ls"})
        BY <3>3 DEF FirstPc, Asking, Pc
      <3>5. v \in Contents
        BY ContentsClosed
      <3> HIDE DEF ips
      <3> QED BY <3>2, <3>3, <3>4, <3>5 DEF Tasks, Asking
    <2>2. Threads'
      <3> HIDE DEF t, waits
      <3>1. task' = IF Answered(ips) THEN [task EXCEPT ![th] = t] ELSE waits
        BY <1>8 DEF t
      <3> QED BY <1>3, <1>8, <2>1, <3>1 DEF Threads
    <2> QED BY <1>4, <1>8, <2>2 DEF Running
  <1> QED BY <1>5, <1>6, <1>7, <1>8 DEF Ask

(* What a reader gets is a version, a part of one or a mixture, and so is  *)
(* what writers leave in a file that is emptied under them.                *)
LEMMA ContentsWritten ==
  ASSUME StoreAssumption, Threads, NEW x \in Node, NEW f \in File
  PROVE  Reading(x, f) \in Contents /\ Emptied(x, f) \subseteq Contents
  <1>1. Reading(x, f) \in Contents
    <2>1. CASE \E v \in Version : Whole(x, f, v)
      <3>0. ~\E u \in Version : disk[x][f] = {-u}
        <4>1. PICK v \in Version : v \in disk[x][f]
          BY <2>1 DEF Whole
        <4>2. \A u \in Version : v # -u
          BY ContentsClosed
        <4> QED BY <4>1, <4>2
      <3>1. Reading(x, f) = CHOOSE v \in Version : Whole(x, f, v)
        BY <2>1, <3>0 DEF Reading
      <3>2. (CHOOSE v \in Version : Whole(x, f, v)) \in Version
        BY <2>1
      <3> QED BY <3>1, <3>2, ContentsClosed
    <2>2. CASE /\ ~\E v \in Version : Whole(x, f, v)
               /\ \E v \in Version : disk[x][f] = {-v}
      <3>1. Reading(x, f) = CHOOSE v \in {-w : w \in Version} : disk[x][f] = {v}
        BY <2>2 DEF Reading
      <3>2. (CHOOSE v \in {-w : w \in Version} : disk[x][f] = {v}) \in {-w : w \in Version}
        <4>1. \E v \in {-w : w \in Version} : disk[x][f] = {v}
          BY <2>2
        <4> QED BY <4>1
      <3> QED BY <3>1, <3>2, ContentsClosed
    <2>3. CASE /\ ~\E v \in Version : Whole(x, f, v)
               /\ ~\E v \in Version : disk[x][f] = {-v}
      <3>1. Reading(x, f) = MIXED
        BY <2>3 DEF Reading
      <3> QED BY <3>1, ContentsClosed
    <2> QED BY <2>1, <2>2, <2>3
  <1>2. \A w \in Writers(x, f) : task[w].ver \in Contents
    BY DEF Writers, Threads, Tasks
  <1> QED BY <1>1, <1>2, ContentsClosed DEF Emptied

(* A copy that is written or removed stays a set of contents.              *)
LEMMA CopyChanges ==
  ASSUME Copies, NEW x \in Node, NEW f \in File, NEW c, c \subseteq Contents,
         disk' = [disk EXCEPT ![x][f] = c]
  PROVE  Copies'
  BY DEF Copies

(* The end of a process in the course of an upload, or the step into it.   *)
LEMMA SendStartKeeps ==
  ASSUME StoreAssumption, IInv, NEW th \in Thread, SendStart(th)
  PROVE  IInv'
  <1> DEFINE t == task[th]
             n == th[1]
             x == Target(th)
             f == t.file
             v == IF t.cmd = "monitor" THEN Reading(n, t.file) ELSE t.ver
             gone == t.cmd = "monitor" /\ ~Present(n, t.file)
  <1> USE DEF IInv
  <1>1. /\ n \in up /\ t.pc = "send" /\ t \in Tasks /\ n \in Node
        /\ UNCHANGED <<membership, stored, last, faults>>
    BY DEF SendStart, Threads, Thread
  <1>2. t.pc \in Asking /\ x \in Node /\ f \in File
    <2>1. t.pc \in Asking
      BY <1>1 DEF Asking, Pc
    <2> QED BY <1>1, <2>1, TargetIsNode DEF Tasks
  <1>3. v \in Contents /\ (t.cmd # "monitor" => v \in {0} \cup Version)
    BY <1>1, <1>2, ContentsWritten DEF Tasks
  <1>4. Copies'
    <2>1. {IF gone THEN MIXED ELSE Part(v)} \cup Emptied(x, f) \subseteq Contents
      BY <1>2, <1>3, ContentsClosed, ContentsWritten
    <2>2. \/ disk' = disk
          \/ disk' = [disk EXCEPT ![x][f] = {IF gone THEN MIXED ELSE Part(v)} \cup Emptied(x, f)]
      BY DEF SendStart
    <2> QED BY <1>2, <2>1, <2>2, CopyChanges DEF Copies
  <1>5. CASE x \in up /\ ~gone
    <2> DEFINE s == t.cmd = "monitor" /\ x = n
               u == [t EXCEPT !.pc = "sending", !.ver = v, !.spoilt = s]
    <2>1. u \in Tasks
      <3>1. s \in BOOLEAN
        OBVIOUS
      <3> HIDE DEF s, v
      <3> QED BY <1>1, <1>2, <1>3, <3>1 DEF Tasks, Asking, Pc
    <2>2. task' = [Reopened(x, f) EXCEPT ![th] = u] /\ UNCHANGED <<processes, listing>>
      BY <1>5 DEF SendStart
    <2>3. Threads'
      <3> HIDE DEF u, x, f, t
      <3> QED BY <1>1, <1>2, <2>1, <2>2, ReopenedTasks DEF Threads, processes
    <2> QED BY <1>1, <1>4, <2>2, <2>3 DEF Running, Views, Puts, Listings, processes, membership
  <1>6. CASE ~(x \in up /\ ~gone)
    <2>1. /\ up' = up \ {n} /\ serving' = serving \ {n}
          /\ listing' = [listing EXCEPT ![n] = {}]
          /\ task' = [w \in Thread |-> CASE w[1] = n -> Idle
                                         [] w[1] # n /\ x \in up -> Reopened(x, f)[w]
                                         [] OTHER -> task[w]]
      BY <1>6 DEF SendStart
    <2>2. \A w \in Thread : task'[w] = IF w[1] = n THEN Idle
                                     ELSE IF x \in up THEN Reopened(x, f)[w] ELSE task[w]
      BY <2>1
    <2>3. task' = [w \in Thread |-> task'[w]]
      BY <2>1
    <2>4. Threads'
      <3> HIDE DEF x, f, t
      <3>1. \A w \in Thread : task'[w] \in Tasks /\ (w[1] \notin up' => task'[w] = Idle)
        BY <1>2, <2>1, <2>2, ReopenedTasks, RestingTasks DEF Threads
      <3> QED BY <2>3, <3>1 DEF Threads
    <2>5. Listings'
      BY <2>1 DEF Listings
    <2> QED BY <1>1, <1>4, <2>1, <2>4, <2>5 DEF Running, Views, Puts, membership
  <1> QED BY <1>5, <1>6

(* The end of an upload: the copy is whole or spoilt, and the thread goes  *)
(* on or has died.                                                         *)
LEMMA SendEndKeeps ==
  ASSUME StoreAssumption, IInv, NEW th \in Thread, SendEnd(th)
  PROVE  IInv'
  <1> DEFINE t == task[th]
  <1> USE DEF IInv
  <1>1. /\ th[1] \in up /\ t.pc \in Asking /\ t \in Tasks /\ th[1] \in Node
        /\ Target(th) \in Node /\ t.file \in File /\ t.ver \in Contents
    <2>1. th[1] \in up /\ t.pc \in Asking /\ t \in Tasks /\ th[1] \in Node
      BY DEF SendEnd, Threads, Thread, Asking, Pc
    <2> QED BY <2>1, TargetIsNode DEF Tasks
  <1>2. UNCHANGED <<membership, last, faults>>
    BY DEF SendEnd
  <1>3. Copies'
    <2>1. \/ disk' = disk
          \/ \E v \in {t.ver} \cup {w \in {MIXED} : t.spoilt} :
               disk' = [disk EXCEPT ![Target(th)][t.file] = @ \cup {v}]
      BY DEF SendEnd
    <2>2. ASSUME NEW v \in {t.ver} \cup {w \in {MIXED} : t.spoilt},
                 disk' = [disk EXCEPT ![Target(th)][t.file] = @ \cup {v}]
          PROVE  Copies'
      <3>1. v \in Contents
        BY <1>1, ContentsClosed
      <3> QED BY <1>1, <2>2, <3>1 DEF Copies
    <2> QED BY <2>1, <2>2 DEF Copies
  <1>4. CASE /\ task' = [task EXCEPT ![th] = Onwards(t)]
             /\ stored' = IF t.cmd = "put" /\ t.j = 3
                            THEN [stored EXCEPT ![t.file] = t.ver] ELSE stored
             /\ UNCHANGED <<processes, listing>>
    <2>1. Running' /\ Listings' /\ Threads'
      BY <1>1, <1>4, OnwardsTask, OneThread DEF processes
    <2>2. Puts'
      BY <1>1, <1>2, <1>4 DEF Puts, Tasks
    <2> QED BY <1>2, <1>3, <2>1, <2>2 DEF Views, membership
  <1>5. CASE Stop(th[1]) /\ UNCHANGED stored
    <2>1. Running' /\ Listings' /\ Threads'
      BY <1>1, <1>5, StopKeeps
    <2> QED BY <1>2, <1>3, <1>5, <2>1 DEF Views, Puts, membership
  <1> QED BY <1>4, <1>5 DEF SendEnd

(* The reply to a CHECK: the thread goes on, sends, fetches or is done.    *)
LEMMA CheckKeeps ==
  ASSUME StoreAssumption, IInv, NEW th \in Thread, Check(th)
  PROVE  IInv'
  <1> DEFINE t == task[th]
             u == Recognised(th)
  <1> USE DEF IInv
  <1>1. th[1] \in up /\ t.pc = "check" /\ t.pc \in Asking /\ t \in Tasks
    BY DEF Check, Threads, Asking, Pc
  <1>2. t.cmd \in {"monitor", "get", "ls"}
    BY <1>1 DEF Tasks
  <1>3. u \in Tasks /\ u.pc \in Asking /\ u.cmd = t.cmd
    <2> DEFINE b == t.needed \/ (t.cmd = "monitor" /\ Target(th) = th[1])
    <2>1. u = [t EXCEPT !.needed = b]
      BY DEF Recognised
    <2>2. b \in BOOLEAN
      OBVIOUS
    <2> HIDE DEF u, b, t
    <2> QED BY <1>1, <2>1, <2>2 DEF Tasks
  <1> HIDE DEF u, t
  <1>4. /\ Onwards(t) \in Tasks /\ Onwards(u) \in Tasks /\ Idle \in Tasks /\ Stuck \in Tasks
        /\ t.cmd = "get" => [t EXCEPT !.pc = "fetch"] \in Tasks
        /\ t.cmd = "monitor" => [u EXCEPT !.pc = "send"] \in Tasks
    <2>1. t.cmd = "get" => [t EXCEPT !.pc = "fetch"] \in Tasks
      BY <1>1 DEF Tasks, Asking, Pc
    <2>2. [u EXCEPT !.pc = "send"] \in Tasks
      BY <1>3 DEF Tasks, Asking, Pc
    <2> QED BY <1>1, <1>3, <2>1, <2>2, OnwardsTask, RestingTasks
  <1> DEFINE found == CASE t.cmd = "monitor" -> Onwards(u)
                        [] t.cmd = "get" -> [t EXCEPT !.pc = "fetch"]
                        [] t.cmd = "ls" -> Idle
             absent == IF t.cmd = "monitor" THEN [u EXCEPT !.pc = "send"] ELSE Onwards(t)
             next == CASE Target(th) \notin up -> Stuck
                       [] Target(th) \in up /\ Present(Target(th), t.file) -> found
                       [] OTHER -> absent
  <1>5. found \in Tasks /\ absent \in Tasks
    BY <1>2, <1>4
  <1>6. task' = [task EXCEPT ![th] = next]
    BY DEF Check, u, t
  <1> HIDE DEF found, absent
  <1>7. next \in Tasks
    BY <1>4, <1>5
  <1> HIDE DEF next
  <1>8. UNCHANGED <<processes, membership, files, listing, faults>>
    BY DEF Check
  <1>9. Running' /\ Listings' /\ Threads'
    BY <1>1, <1>6, <1>7, <1>8, OneThread DEF processes
  <1> QED BY <1>8, <1>9 DEF Views, Copies, Puts, membership, files

(* A DELETE removes the target's copy, and the reply may get lost.         *)
LEMMA UnlinkKeeps ==
  ASSUME StoreAssumption, IInv, NEW th \in Thread, Unlink(th)
  PROVE  IInv'
  <1> DEFINE t == task[th]
             x == Target(th)
  <1> USE DEF IInv
  <1>1. th[1] \in up /\ t.pc \in Asking /\ t \in Tasks
    BY DEF Unlink, Threads, Asking, Pc
  <1>2. x \in Node /\ t.file \in File
    BY <1>1, TargetIsNode DEF Tasks
  <1>3. UNCHANGED <<processes, membership, stored, last, listing>>
    BY DEF Unlink
  <1>4. Copies'
    <2>1. disk' = disk \/ disk' = [disk EXCEPT ![x][t.file] = {}]
      BY DEF Unlink
    <2> HIDE DEF x, t
    <2> QED BY <1>2, <2>1 DEF Copies
  <1>5. Threads'
    <2>1. Onwards(t) \in Tasks /\ Stuck \in Tasks
      BY <1>1, OnwardsTask, RestingTasks
    <2>2. \/ task' = [task EXCEPT ![th] = Stuck]
          \/ task' = [Unlinked(x, t.file) EXCEPT ![th] = Onwards(t)]
          \/ task' = [Unlinked(x, t.file) EXCEPT ![th] = Stuck]
      BY DEF Unlink
    <2> HIDE DEF x, t
    <2> QED BY <1>1, <1>2, <1>3, <2>1, <2>2, ReopenedTasks DEF Threads, processes
  <1> QED BY <1>3, <1>4, <1>5 DEF Running, Views, Puts, Listings, processes, membership

(* The monitor removes its own copy.                                       *)
LEMMA DiscardKeeps ==
  ASSUME StoreAssumption, IInv, NEW n \in Node, Discard(n)
  PROVE  IInv'
  <1> DEFINE th == <<n, "monitor">>
             f == task[th].file
  <1> USE DEF IInv
  <1>1. th \in Thread /\ th[1] \in up /\ task[th].pc = "discard"
    BY DEF Discard, Thread
  <1>2. f \in File
    BY <1>1 DEF Threads, Tasks
  <1>3. UNCHANGED <<processes, membership, stored, last, listing>>
    BY DEF Discard
  <1>4. disk' = [disk EXCEPT ![n][f] = {}] /\ task' = [Unlinked(n, f) EXCEPT ![th] = Idle]
    BY DEF Discard
  <1> HIDE DEF th, f
  <1>5. Copies'
    BY <1>2, <1>4 DEF Copies
  <1>6. Threads'
    BY <1>1, <1>2, <1>3, <1>4, ReopenedTasks, RestingTasks DEF Threads, processes
  <1> QED BY <1>3, <1>5, <1>6 DEF Running, Views, Puts, Listings, processes, membership

(* A download fetches, or its process exits.                               *)
LEMMA FetchKeeps ==
  ASSUME StoreAssumption, IInv, NEW th \in Thread, Fetch(th)
  PROVE  IInv'
  <1> USE DEF IInv
  <1>1. th[1] \in up /\ th[1] \in Node
    BY DEF Fetch, Thread
  <1>2. Running' /\ Listings' /\ Threads'
    <2>1. CASE task' = [task EXCEPT ![th] = Idle] /\ UNCHANGED <<processes, listing>>
      BY <1>1, <2>1, OneThread, RestingTasks DEF processes
    <2>2. CASE Stop(th[1])
      BY <1>1, <2>2, StopKeeps
    <2> QED BY <2>1, <2>2 DEF Fetch
  <1> QED BY <1>2 DEF Fetch, Views, Copies, Puts, membership, files

(* A machine fails: the uploads it received are cut off.                   *)
LEMMA CrashKeeps ==
  ASSUME StoreAssumption, IInv, NEW n \in Node, Crash(n)
  PROVE  IInv'
  <1> DEFINE received == UNION {Writers(n, f) : f \in File}
  <1> USE DEF IInv
  <1>1. /\ up' = up \ {n} /\ serving' = serving \ {n}
        /\ listing' = [listing EXCEPT ![n] = {}]
        /\ UNCHANGED <<membership, files>>
    BY DEF Crash
  <1>2. task' = [w \in Thread |-> CASE w[1] = n -> Idle
                                  [] w[1] # n /\ w \in received -> [task[w] EXCEPT !.pc = "cut"]
                                  [] OTHER -> task[w]]
    BY DEF Crash
  <1>3. \A w \in received : w[1] \in up /\ [task[w] EXCEPT !.pc = "cut"] \in Tasks
    <2> TAKE w \in received
    <2>1. PICK f \in File : w \in Writers(n, f)
      OBVIOUS
    <2> QED BY <2>1, WriterTasks
  <1> HIDE DEF received
  <1>4. \A w \in Thread : task'[w] = IF w[1] = n THEN Idle
                                   ELSE IF w \in received THEN [task[w] EXCEPT !.pc = "cut"] ELSE task[w]
    BY <1>2
  <1>5. \A w \in Thread : task'[w] \in Tasks /\ (w[1] \notin up' => task'[w] = Idle)
    <2> TAKE w \in Thread
    <2>1. task[w] \in Tasks /\ (w[1] \notin up => task[w] = Idle)
      BY DEF Threads
    <2>2. w[1] \notin up' => w[1] = n \/ w[1] \notin up
      BY <1>1
    <2>3. CASE w[1] = n
      BY <1>4, <2>3, RestingTasks
    <2>4. CASE w[1] # n /\ w \in received
      BY <1>3, <1>4, <2>2, <2>4
    <2>5. CASE w[1] # n /\ w \notin received
      BY <1>4, <2>1, <2>2, <2>5
    <2> QED BY <2>3, <2>4, <2>5
  <1>6. task' = [w \in Thread |-> task'[w]]
    BY <1>2
  <1>7. Threads'
    BY <1>5, <1>6 DEF Threads
  <1>8. Listings'
    BY <1>1 DEF Listings
  <1> QED BY <1>1, <1>7, <1>8 DEF Running, Views, Copies, Puts, membership, files

(* The membership lists and the masters move on.                           *)
LEMMA ViewsMove ==
  ASSUME StoreAssumption, IInv, NEW n \in Node, NEW m \in Node,
         Detect(n, m) \/ Mistake(n, m) \/ Hear(n, m) \/ Elect(n) \/ Restart(n)
  PROVE  IInv'
  <1> USE DEF IInv
  <1>1. CASE Detect(n, m)
    <2>1. Views'
      BY <1>1 DEF Detect, Views, Running
    <2> QED BY <1>1, <2>1 DEF Detect, Running, Copies, Puts, Listings, Threads, processes, files
  <1>2. CASE Mistake(n, m)
    <2>1. n # m
      BY <1>2 DEF Mistake, StoreAssumption
    <2>2. Views'
      BY <1>2, <2>1 DEF Mistake, Views
    <2> QED BY <1>2, <2>2 DEF Mistake, Running, Copies, Puts, Listings, Threads, processes, files
  <1>3. CASE Hear(n, m)
    <2>1. Views'
      BY <1>3 DEF Hear, Views
    <2> QED BY <1>3, <2>1 DEF Hear, Running, Copies, Puts, Listings, Threads, processes, files
  <1>4. CASE Elect(n)
    <2> DEFINE candidates == Node \ (failed[n] \cup {Min(Node)})
    <2>1. candidates # {} /\ candidates \subseteq Node
      BY <1>4 DEF Elect
    <2>2. master' = [master EXCEPT ![n] = Max(candidates)]
      BY <1>4 DEF Elect
    <2> HIDE DEF candidates
    <2>3. Max(candidates) \in Node
      BY <2>1, GreatestNode
    <2>4. Views'
      BY <1>4, <2>2, <2>3 DEF Elect, Views
    <2> QED BY <1>4, <2>4 DEF Elect, Running, Copies, Puts, Listings, Threads, processes, files
  <1>5. CASE Restart(n)
    <2>1. Views'
      BY <1>5 DEF Restart, Views, StoreAssumption
    <2> QED BY <1>5, <2>1 DEF Restart, Running, Copies, Puts, Listings, Threads, files
  <1> QED BY <1>1, <1>2, <1>3, <1>4, <1>5

(* Users' commands, and the monitors' rounds.                              *)
LEMMA RequestsKeep ==
  ASSUME StoreAssumption, IInv, NEW n \in Node, NEW f \in File,
         (\E cmd \in Command : Type(n, cmd, f)) \/ Wake(n) \/ MonitorAsk(n, f)
  PROVE  IInv'
  <1> USE DEF IInv
  <1>1. ASSUME NEW cmd \in Command, Type(n, cmd, f) PROVE IInv'
    <2>1. PICK v \in {0} \cup Version : v = IF cmd = "put" THEN last + 1 ELSE 0
      BY <1>1 DEF Type
    <2>2. <<n, "user">> \in Thread /\ <<n, "user">>[1] \in up
      BY <1>1 DEF Type, Thread
    <2>3. Ask(<<n, "user">>, cmd, f, v)
      BY <1>1, <2>1 DEF Type
    <2>4. Running' /\ Listings' /\ Threads'
      BY <2>2, <2>3, AskKeeps
    <2>5. Puts'
      BY <1>1, <2>1 DEF Type, Puts
    <2> QED BY <1>1, <2>4, <2>5 DEF Type, Views, Copies, membership
  <1>2. CASE Wake(n)
    <2>1. Listings'
      BY <1>2 DEF Wake, Listings, processes
    <2> QED BY <1>2, <2>1 DEF Wake, Running, Views, Copies, Puts, Threads, processes, membership, files
  <1>3. CASE MonitorAsk(n, f)
    <2>1. <<n, "monitor">> \in Thread /\ <<n, "monitor">>[1] \in up
      BY <1>3 DEF MonitorAsk, Thread
    <2>2. Running' /\ Listings' /\ Threads'
      BY <1>3, <2>1, AskKeeps DEF MonitorAsk
    <2> QED BY <1>3, <2>2 DEF MonitorAsk, Views, Copies, Puts, membership, files
  <1> QED BY <1>1, <1>2, <1>3

(* Version 1 of a file that was put long before lies where it belongs.     *)
LEMMA InitHolds == ASSUME StoreAssumption, Init PROVE IInv
  <1>1. last \in {0} \cup Version
    <2>1. Cardinality(Before) \in Nat /\ Cardinality(Before) <= 1
      BY FS_CardinalityType DEF StoreAssumption
    <2>2. Before = {} => Cardinality(Before) = 0
      BY FS_EmptySet
    <2>3. Before # {} => 1 \in Version
      BY DEF StoreAssumption
    <2> QED BY <2>1, <2>2, <2>3 DEF Init
  <1>2. Puts
    BY <1>1 DEF Init, Puts, StoreAssumption
  <1>3. Copies
    <2>1. \A n \in Node, f \in File : disk[n][f] \subseteq Contents
      <3>1. Before # {} => 1 \in Contents /\ -1 \in Contents
        BY ContentsClosed DEF StoreAssumption
      <3>2. \A n \in Node, f \in File :
              disk[n][f] = IF f \in Before /\ n \in Replicas(f, {}) THEN {1, -1} ELSE {}
        BY DEF Init
      <3> QED BY <3>1, <3>2
    <2> QED BY <2>1 DEF Init, Copies
  <1>4. N \in Node
    BY PlacementAssumption DEF Node
  <1> QED BY <1>2, <1>3, <1>4, RestingTasks DEF Init, IInv, Running, Views, Listings, Threads, Thread

(* Every step keeps the inductive invariant.                               *)
LEMMA NextKeeps == ASSUME StoreAssumption, IInv, [Next]_vars PROVE IInv'
  <1>1. ASSUME NEW n \in Node, MonitorStep(n) PROVE IInv'
    <2>1. <<n, "monitor">> \in Thread
      BY DEF Thread
    <2>2. CASE Wake(n)
      <3>1. \E f \in File : Present(n, f)
        BY <2>2 DEF Wake
      <3> QED BY <2>2, <3>1, RequestsKeep
    <2>3. CASE \E f \in File : MonitorAsk(n, f)
      BY <2>3, RequestsKeep
    <2>4. CASE Check(<<n, "monitor">>) \/ Upload(<<n, "monitor">>) \/ Discard(n)
      BY <2>1, <2>4, CheckKeeps, SendStartKeeps, SendEndKeeps, DiscardKeeps DEF Upload
    <2> QED BY <1>1, <2>2, <2>3, <2>4 DEF MonitorStep
  <1>2. ASSUME NEW n \in User, UserStep(n) PROVE IInv'
    <2>1. <<n, "user">> \in Thread
      BY DEF Thread, StoreAssumption
    <2> QED BY <1>2, <2>1, CheckKeeps, SendStartKeeps, SendEndKeeps, UnlinkKeeps, FetchKeeps
            DEF UserStep, Upload
  <1>3. ASSUME NEW n \in User, NEW cmd \in Command, NEW f \in File, Type(n, cmd, f) PROVE IInv'
    BY <1>3, RequestsKeep DEF StoreAssumption
  <1>4. ASSUME NEW th \in Thread, Drop(th) PROVE IInv'
    <2>1. Running' /\ Listings' /\ Threads'
      BY <1>4, OneThread, RestingTasks DEF Drop, IInv, processes
    <2> QED BY <1>4, <2>1 DEF Drop, IInv, Views, Copies, Puts, membership, files
  <1>5. CASE UNCHANGED vars
    BY <1>5 DEF IInv, Running, Views, Copies, Puts, Listings, Threads, vars
  <1> QED BY <1>1, <1>2, <1>3, <1>4, <1>5, CrashKeeps, ViewsMove DEF Next

(* However threads, suspicions, crashes, restarts and losses interleave,   *)
(* requests go to nodes of the list only, copies hold nothing that was not *)
(* put, and nodes that do not run have neither threads nor uploads.        *)
THEOREM TypeCorrect == Spec => []TypeOK
  <1>1. Init => IInv
    BY InitHolds, StoreAssumption
  <1>2. IInv /\ [Next]_vars => IInv'
    BY NextKeeps, StoreAssumption
  <1>3. IInv => TypeOK
    <2> SUFFICES ASSUME IInv PROVE TypeOK
      OBVIOUS
    <2>1. ASSUME NEW th \in Thread
          PROVE  /\ th[1] \notin up => task[th] = Idle /\ listing[th[1]] = {}
                 /\ task[th].pc = "discard" => task[th].file \in File
                 /\ task[th].pc \notin {"idle", "stuck", "discard"} =>
                      /\ task[th].file \in File /\ task[th].j \in 1..3
                      /\ task[th].ips \in [1..3 -> Node] /\ task[th].ver \in Contents
      <3>1. task[th] \in Tasks /\ th[1] \in Node
        BY DEF IInv, Threads, Thread
      <3>2. th[1] \notin up => task[th] = Idle /\ listing[th[1]] = {}
        BY <3>1 DEF IInv, Threads, Listings
      <3> QED BY <3>1, <3>2 DEF Tasks, Asking
    <2> QED BY <2>1 DEF IInv, Running, Views, Copies, Puts, Listings, TypeOK
  <1>4. QED
    BY <1>1, <1>2, <1>3, PTL DEF Spec

-----------------------------------------------------------------------------
(* RemovesOnlySurplus.  What a monitor has to remember from one step to    *)
(* the next: the answer it works through names two nodes or more, and as   *)
(* long as it does not know that the file is required here, none of the    *)
(* addresses it has been told about is its own.                            *)
Looked(t) == IF t.pc = "check" THEN 1..(t.j - 1) ELSE 1..t.j

OnDuty(n, t) ==
  t.ips # <<>> =>
    /\ t.cmd = "monitor" /\ Cardinality(Addresses(t.ips)) >= 2
    /\ ~t.needed => \A i \in Looked(t) : t.ips[i] # n
    /\ t.pc = "discard" => t.j = 3 /\ ~t.needed

Duties == \A n \in Node : OnDuty(n, task[<<n, "monitor">>])

\* The stages of an upload.
Uploading == {"send", "sending", "overrun", "cut", "orphan"}

\* t and u have come equally far in the same answer.
AsFar(t, u) ==
  /\ u.ips = t.ips /\ u.cmd = t.cmd /\ u.j = t.j /\ u.needed = t.needed
  /\ u.pc = t.pc \/ (u.pc \in Uploading /\ t.pc \in Uploading)

(* A thread without an answer is not about to remove anything because of   *)
(* one.                                                                    *)
LEMMA OffDuty ==
  ASSUME NEW n, NEW t, t.ips = <<>>
  PROVE  OnDuty(n, t)
  BY DEF OnDuty

LEMMA RestingOffDuty ==
  /\ Idle.ips = <<>> /\ Stuck.ips = <<>>
  /\ \A cmd, f : Unanswered(cmd, f).ips = <<>>
  <1>1. Idle.ips = <<>> /\ Stuck.ips = <<>>
    BY DEF Idle, Stuck
  <1>2. \A cmd, f : Unanswered(cmd, f).ips = <<>>
    BY DEF Idle, Unanswered
  <1> QED BY <1>1, <1>2

LEMMA AsFarKeeps ==
  ASSUME NEW n, NEW t, NEW u, AsFar(t, u), OnDuty(n, t)
  PROVE  OnDuty(n, u)
  BY DEF AsFar, OnDuty, Looked, Uploading

(* A step in which every monitor stays as far as it was, goes to rest, or  *)
(* comes further in the right way.                                         *)
LEMMA DutiesKept ==
  ASSUME Duties,
         \A n \in Node : \/ AsFar(task[<<n, "monitor">>], task'[<<n, "monitor">>])
                         \/ task'[<<n, "monitor">>].ips = <<>>
                         \/ OnDuty(n, task'[<<n, "monitor">>])
  PROVE  Duties'
  <1> SUFFICES ASSUME NEW n \in Node PROVE OnDuty(n, task'[<<n, "monitor">>])
    BY DEF Duties
  <1>1. OnDuty(n, task[<<n, "monitor">>])
    BY DEF Duties
  <1> QED BY <1>1, AsFarKeeps, OffDuty

(* fopen() and unlink() under an upload do not bring it further.           *)
LEMMA ReopenedAsFar ==
  ASSUME Threads, NEW x \in Node, NEW f \in File, NEW w \in Thread
  PROVE  AsFar(task[w], Reopened(x, f)[w]) /\ AsFar(task[w], Unlinked(x, f)[w])
  <1>1. task[w] \in Tasks
    BY DEF Threads
  <1>2. w \in Writers(x, f) => task[w].pc \in Uploading
    BY DEF Writers, Uploading
  <1>3. AsFar(task[w], Unlinked(x, f)[w])
    BY <1>1, <1>2 DEF Unlinked, AsFar, Tasks, Uploading
  <1>4. AsFar(task[w], Reopened(x, f)[w])
    BY <1>1, <1>2 DEF Reopened, AsFar, Tasks, Uploading
  <1> QED BY <1>3, <1>4

(* A monitor that is through with an address that is not its own, or knows *)
(* that the file is required here.                                         *)
LEMMA OnwardsOnDuty ==
  ASSUME NEW n \in Node, NEW t \in Tasks, t.pc \in Asking, OnDuty(n, t),
         ~t.needed => t.ips[t.j] # n
  PROVE  OnDuty(n, Onwards(t))
  <1>1. t.ips # <<>> /\ t.j \in 1..3
    <2>1. t.ips \in [1..3 -> Node] /\ t.j \in 1..3
      BY DEF Tasks
    <2>2. DOMAIN t.ips = 1..3 /\ DOMAIN <<>> = {}
      BY <2>1
    <2> QED BY <2>1, <2>2
  <1>2. t.cmd = "monitor" /\ Cardinality(Addresses(t.ips)) >= 2
    BY <1>1 DEF OnDuty
  <1>3. ~t.needed => \A i \in 1..t.j : t.ips[i] # n
    BY <1>1 DEF OnDuty, Looked
  <1>4. CASE t.j < 3
    <2> DEFINE u == [t EXCEPT !.j = @ + 1, !.pc = FirstPc(t.cmd), !.spoilt = FALSE]
    <2>1. Onwards(t) = u
      BY <1>4 DEF Onwards
    <2>2. u.ips = t.ips /\ u.cmd = t.cmd /\ u.needed = t.needed /\ u.j = t.j + 1
      BY DEF Tasks
    <2>3. u.pc = "check"
      BY <1>2 DEF Tasks, FirstPc
    <2> HIDE DEF u
    <2>4. Looked(u) = 1..t.j
      BY <1>1, <2>2, <2>3 DEF Looked
    <2>5. OnDuty(n, u)
      BY <1>2, <1>3, <2>2, <2>3, <2>4 DEF OnDuty
    <2> QED BY <2>1, <2>5
  <1>5. CASE t.j = 3 /\ ~t.needed
    <2> DEFINE u == [t EXCEPT !.pc = "discard"]
    <2>1. Onwards(t) = u
      BY <1>2, <1>5 DEF Onwards, Tasks
    <2>2. /\ u.ips = t.ips /\ u.cmd = t.cmd /\ u.needed = t.needed /\ u.j = t.j
          /\ u.pc = "discard"
      BY DEF Tasks
    <2> HIDE DEF u
    <2>3. OnDuty(n, u)
      BY <1>2, <1>3, <1>5, <2>2 DEF OnDuty, Looked
    <2> QED BY <2>1, <2>3
  <1>6. CASE t.j = 3 /\ t.needed
    <2>1. Onwards(t) = Idle
      BY <1>6 DEF Onwards
    <2> QED BY <2>1, OffDuty, RestingOffDuty
  <1> QED BY <1>1, <1>4, <1>5, <1>6

(* A master that does not divide by zero names two nodes at least: it does *)
(* not suspect itself, so one other is alive in its list, and where_to()   *)
(* names two of any two.                                                   *)
LEMMA AnswerNamesTwo ==
  ASSUME StoreAssumption, Views, NEW f \in File, NEW m \in Node, NEW e \in EndReads,
         Divisor(Node \ failed[m]) # 0, Answered(Answers[f][failed[m]][e])
  PROVE  Cardinality(Addresses(Answers[f][failed[m]][e])) >= 2
  <1> DEFINE alive == Node \ failed[m]
  <1>1. e \in BOOLEAN /\ alive \subseteq Node /\ failed[m] \in SUBSET Node
    BY DEF StoreAssumption, Views
  <1>2. PICK ips : ips = WhereTo(Letter[f], Node, alive, e)
    OBVIOUS
  <1>3. Answers[f][failed[m]][e] = ips
    BY <1>1, <1>2 DEF Answers
  <1>4. Cardinality(alive) >= 2
    <2>1. IsFiniteSet(Node)
      BY FS_Interval, PlacementAssumption DEF Node
    <2>2. IsFiniteSet(alive)
      BY <2>1, FS_Subset
    <2>3. m \in alive
      BY DEF Views
    <2>4. Cardinality(alive) \in Nat /\ Cardinality(alive) # 0
      BY <2>2, <2>3, FS_CardinalityType, FS_EmptySet
    <2> HIDE DEF alive
    <2>5. Cardinality(alive) # 1
      BY <2>4 DEF Divisor, alive
    <2> QED BY <2>4, <2>5
  <1> HIDE DEF alive
  <1>5. END \notin {ips[i] : i \in 1..3}
    BY <1>3 DEF Answered, Addresses
  <1>6. Cardinality(Named(ips)) >= 2
    <2>1. \/ ips = WhereTo(Letter[f], Node, alive, TRUE)
          \/ ips = WhereTo(Letter[f], Node, alive, FALSE)
      BY <1>2 DEF StoreAssumption
    <2> QED BY <1>1, <1>4, <1>5, <2>1, AnswerHolds
  <1>7. Addresses(ips) = Named(ips)
    BY DEF Addresses, Named
  <1> QED BY <1>3, <1>6, <1>7

(* A monitor that asks begins its answer at the first address; nobody      *)
(* else comes further when somebody asks.                                  *)
LEMMA AskOnDuty ==
  ASSUME StoreAssumption, IInv, Duties, NEW th \in Thread, NEW cmd,
         th[2] = "monitor" => cmd = "monitor",
         NEW f \in File, NEW v, Ask(th, cmd, f, v)
  PROVE  Duties'
  <1> DEFINE m == master[th[1]]
             waits == [task EXCEPT ![th] = Stuck]
             asks(ips) ==
               [task EXCEPT ![th] = [pc |-> FirstPc(cmd), cmd |-> cmd, file |-> f, ips |-> ips,
                                     j |-> 1, ver |-> v, needed |-> FALSE, spoilt |-> FALSE]]
  <1> USE DEF IInv
  <1>1. m \in Node /\ task = [w \in Thread |-> task[w]]
    BY DEF Views, Threads, Thread
  <1>2. SUFFICES ASSUME NEW n \in Node
                 PROVE  \/ AsFar(task[<<n, "monitor">>], task'[<<n, "monitor">>])
                        \/ task'[<<n, "monitor">>].ips = <<>>
                        \/ OnDuty(n, task'[<<n, "monitor">>])
    BY DutiesKept
  <1> DEFINE w == <<n, "monitor">>
  <1>3. w \in Thread /\ w[2] = "monitor" /\ AsFar(task[w], task[w])
    BY DEF Thread, AsFar
  <1>4. waits[w] = task[w] \/ waits[w] = Stuck
    BY <1>1, <1>3
  <1>5. CASE task' = [task EXCEPT ![th] = Unanswered(cmd, f)]
    <2>1. task'[w] = task[w] \/ task'[w] = Unanswered(cmd, f)
      BY <1>1, <1>3, <1>5
    <2> QED BY <1>3, <2>1, RestingOffDuty
  <1>6. CASE task' = waits
    BY <1>3, <1>4, <1>6, RestingOffDuty
  <1>7. CASE task' = [x \in Thread |-> IF x[1] = m THEN Idle ELSE waits[x]]
    <2>1. task'[w] = Idle \/ task'[w] = waits[w]
      BY <1>3, <1>7
    <2> QED BY <1>3, <1>4, <2>1, RestingOffDuty
  <1>8. ASSUME NEW e \in EndReads, Divisor(Node \ failed[m]) # 0,
               Answered(Answers[f][failed[m]][e]), task' = asks(Answers[f][failed[m]][e])
        PROVE  AsFar(task[w], task'[w]) \/ OnDuty(n, task'[w])
    <2> DEFINE ips == Answers[f][failed[m]][e]
               t == [pc |-> FirstPc(cmd), cmd |-> cmd, file |-> f, ips |-> ips, j |-> 1,
                     ver |-> v, needed |-> FALSE, spoilt |-> FALSE]
    <2>1. Cardinality(Addresses(ips)) >= 2
      BY <1>1, <1>8, AnswerNamesTwo
    <2> HIDE DEF ips
    <2>2. cmd = "monitor" => OnDuty(n, t)
      <3> SUFFICES ASSUME cmd = "monitor" PROVE OnDuty(n, t)
        OBVIOUS
      <3>1. t.pc = "check" /\ t.cmd = "monitor" /\ t.ips = ips /\ t.j = 1
        BY DEF FirstPc
      <3> HIDE DEF t
      <3>2. Looked(t) = {}
        BY <3>1 DEF Looked
      <3> QED BY <2>1, <3>1, <3>2 DEF OnDuty
    <2>3. task'[w] = IF w = th THEN t ELSE task[w]
      BY <1>1, <1>3, <1>8 DEF ips
    <2> HIDE DEF t
    <2>4. CASE w = th
      BY <1>3, <2>2, <2>3, <2>4
    <2> QED BY <1>3, <2>3, <2>4
  <1> HIDE DEF w, waits
  <1>9. \/ task' = [task EXCEPT ![th] = Unanswered(cmd, f)]
        \/ task' = waits
        \/ task' = [x \in Thread |-> IF x[1] = m THEN Idle ELSE waits[x]]
        \/ \E e \in EndReads : /\ Divisor(Node \ failed[m]) # 0
                               /\ Answered(Answers[f][failed[m]][e])
                               /\ task' = asks(Answers[f][failed[m]][e])
    BY DEF Ask, waits
  <1> QED BY <1>5, <1>6, <1>7, <1>8, <1>9 DEF w

(* The step of one thread, by which its monitor stays on duty.             *)
LEMMA OneOnDuty ==
  ASSUME Threads, Duties, NEW th \in Thread, NEW t, task' = [task EXCEPT ![th] = t],
         \A n \in Node : th = <<n, "monitor">> => OnDuty(n, t)
  PROVE  Duties'
  <1>1. SUFFICES ASSUME NEW n \in Node
                 PROVE  \/ AsFar(task[<<n, "monitor">>], task'[<<n, "monitor">>])
                        \/ OnDuty(n, task'[<<n, "monitor">>])
    BY DutiesKept
  <1> DEFINE w == <<n, "monitor">>
  <1>2. w \in Thread /\ task'[w] = IF w = th THEN t ELSE task[w]
    BY DEF Thread, Threads
  <1>3. AsFar(task[w], task[w])
    BY DEF AsFar
  <1> QED BY <1>2, <1>3

(* A process ends.                                                         *)
LEMMA StopOnDuty ==
  ASSUME Duties, NEW n \in Node, Stop(n)
  PROVE  Duties'
  <1>1. SUFFICES ASSUME NEW k \in Node
                 PROVE  \/ AsFar(task[<<k, "monitor">>], task'[<<k, "monitor">>])
                        \/ task'[<<k, "monitor">>].ips = <<>>
    BY DutiesKept
  <1> DEFINE w == <<k, "monitor">>
  <1>2. w \in Thread /\ AsFar(task[w], task[w])
    BY DEF Thread, AsFar
  <1>3. task'[w] = Idle \/ task'[w] = task[w]
    BY <1>2 DEF Stop
  <1> QED BY <1>2, <1>3, RestingOffDuty

(* The reply to a CHECK: a monitor that is told of its own address knows   *)
(* from then on that the file is required here.                            *)
LEMMA CheckOnDuty ==
  ASSUME StoreAssumption, IInv, Duties, NEW th \in Thread, Check(th)
  PROVE  Duties'
  <1> DEFINE t == task[th]
             u == Recognised(th)
             b == t.needed \/ (t.cmd = "monitor" /\ Target(th) = th[1])
  <1> USE DEF IInv
  <1>1. t.pc = "check" /\ t.pc \in Asking /\ t \in Tasks
    BY DEF Check, Threads, Asking, Pc
  <1>2. u = [t EXCEPT !.needed = b] /\ b \in BOOLEAN
    BY DEF Recognised
  <1>3. /\ u.pc = t.pc /\ u.cmd = t.cmd /\ u.ips = t.ips /\ u.j = t.j /\ u.needed = b
        /\ u \in Tasks
    <2> HIDE DEF u, b, t
    <2> QED BY <1>1, <1>2 DEF Tasks
  <1>4. ASSUME NEW n \in Node, th = <<n, "monitor">>
        PROVE  /\ OnDuty(n, u) /\ t.cmd = "monitor" /\ (~u.needed => u.ips[u.j] # n)
               /\ OnDuty(n, [u EXCEPT !.pc = "send"])
    <2>1. OnDuty(n, t)
      BY <1>4 DEF Duties
    <2>2. t.ips # <<>>
      <3>1. t.ips \in [1..3 -> Node]
        BY <1>1 DEF Tasks
      <3>2. DOMAIN t.ips = 1..3 /\ DOMAIN <<>> = {}
        BY <3>1
      <3> HIDE DEF t
      <3> QED BY <3>2
    <2>3. t.cmd = "monitor" /\ th[1] = n /\ Target(th) = t.ips[t.j]
      BY <1>4, <2>1, <2>2 DEF OnDuty, Target
    <2>4. ~u.needed => u.ips[u.j] # n
      BY <1>3, <2>3
    <2> DEFINE r == [u EXCEPT !.pc = "send"]
    <2>5. /\ r.ips = u.ips /\ r.cmd = u.cmd /\ r.j = u.j /\ r.needed = u.needed /\ r.pc = "send"
      BY <1>3 DEF Tasks
    <2>6. t.j \in 1..3 /\ (u.needed \/ ~t.needed)
      BY <1>1, <1>3 DEF Tasks
    <2> HIDE DEF u, t, b, r
    <2>7. OnDuty(n, u)
      BY <1>1, <1>3, <2>1, <2>6 DEF OnDuty, Looked
    <2>8. Looked(r) = Looked(u) \cup {u.j}
      BY <1>1, <1>3, <2>5, <2>6 DEF Looked
    <2>9. OnDuty(n, r)
      BY <2>4, <2>5, <2>7, <2>8 DEF OnDuty
    <2> QED BY <2>3, <2>4, <2>7, <2>9 DEF r
  <1> DEFINE found == CASE t.cmd = "monitor" -> Onwards(u)
                        [] t.cmd = "get" -> [t EXCEPT !.pc = "fetch"]
                        [] t.cmd = "ls" -> Idle
             absent == IF t.cmd = "monitor" THEN [u EXCEPT !.pc = "send"] ELSE Onwards(t)
             next == CASE Target(th) \notin up -> Stuck
                       [] Target(th) \in up /\ Present(Target(th), t.file) -> found
                       [] OTHER -> absent
  <1>5. task' = [task EXCEPT ![th] = next]
    BY DEF Check
  <1>6. ASSUME NEW n \in Node, th = <<n, "monitor">> PROVE OnDuty(n, next)
    <2>1. t.cmd = "monitor"
      BY <1>4, <1>6
    <2> HIDE DEF u
    <2>2. next = Stuck \/ next = Onwards(u) \/ next = [u EXCEPT !.pc = "send"]
      BY <2>1
    <2>3. OnDuty(n, Stuck)
      BY OffDuty, RestingOffDuty
    <2>4. OnDuty(n, Onwards(u))
      BY <1>1, <1>3, <1>4, <1>6, OnwardsOnDuty
    <2> HIDE DEF next
    <2> QED BY <1>4, <1>6, <2>2, <2>3, <2>4
  <1> HIDE DEF next
  <1> QED BY <1>5, <1>6, OneOnDuty

(* The start of an upload: those it runs into come no further.             *)
LEMMA SendStartOnDuty ==
  ASSUME StoreAssumption, IInv, Duties, NEW th \in Thread, SendStart(th)
  PROVE  Duties'
  <1> DEFINE t == task[th]
             x == Target(th)
             f == t.file
             gone == t.cmd = "monitor" /\ ~Present(th[1], t.file)
  <1> USE DEF IInv
  <1>1. t.pc = "send" /\ t.pc \in Asking /\ t \in Tasks
    BY DEF SendStart, Threads, Asking, Pc
  <1>2. x \in Node /\ f \in File
    BY <1>1, TargetIsNode DEF Tasks
  <1>3. SUFFICES ASSUME NEW n \in Node
                 PROVE  \/ AsFar(task[<<n, "monitor">>], task'[<<n, "monitor">>])
                        \/ task'[<<n, "monitor">>].ips = <<>>
    BY DutiesKept
  <1> DEFINE w == <<n, "monitor">>
  <1>4. w \in Thread /\ AsFar(task[w], task[w])
    BY DEF Thread, AsFar
  <1>5. AsFar(task[w], Reopened(x, f)[w])
    BY <1>2, <1>4, ReopenedAsFar
  <1>6. CASE x \in up /\ ~gone
    <2> DEFINE v == IF t.cmd = "monitor" THEN Reading(th[1], t.file) ELSE t.ver
               s == t.cmd = "monitor" /\ x = th[1]
               u == [t EXCEPT !.pc = "sending", !.ver = v, !.spoilt = s]
    <2>1. task' = [Reopened(x, f) EXCEPT ![th] = u]
      BY <1>6 DEF SendStart
    <2>2. AsFar(t, u)
      <3> HIDE DEF v, s, t
      <3>1. u.ips = t.ips /\ u.cmd = t.cmd /\ u.j = t.j /\ u.needed = t.needed
        BY <1>1 DEF Tasks
      <3>2. u.pc = "sending"
        BY <1>1 DEF Tasks
      <3> HIDE DEF u
      <3> QED BY <1>1, <3>1, <3>2 DEF AsFar, Uploading
    <2> HIDE DEF u, x, f
    <2>3. task'[w] = IF w = th THEN u ELSE Reopened(x, f)[w]
      BY <1>2, <1>4, <2>1, ReopenedTasks
    <2> QED BY <1>5, <2>2, <2>3
  <1>7. CASE ~(x \in up /\ ~gone)
    <2>1. task' = [y \in Thread |-> CASE y[1] = th[1] -> Idle
                                      [] y[1] # th[1] /\ x \in up -> Reopened(x, f)[y]
                                      [] OTHER -> task[y]]
      BY <1>7 DEF SendStart
    <2>2. task'[w] = Idle \/ task'[w] = Reopened(x, f)[w] \/ task'[w] = task[w]
      <3> HIDE DEF w, x, f
      <3> QED BY <1>4, <2>1
    <2> QED BY <1>4, <1>5, <2>2, RestingOffDuty
  <1> QED BY <1>6, <1>7

(* The end of an upload: the monitor goes on to the next address, having   *)
(* been told of this one before, or its process has died.                  *)
LEMMA SendEndOnDuty ==
  ASSUME StoreAssumption, IInv, Duties, NEW th \in Thread, SendEnd(th)
  PROVE  Duties'
  <1> DEFINE t == task[th]
  <1> USE DEF IInv
  <1>1. t.pc \in Asking \ {"check"} /\ t \in Tasks /\ th[1] \in Node
    BY DEF SendEnd, Threads, Asking, Pc, Thread
  <1>2. CASE task' = [task EXCEPT ![th] = Onwards(t)]
    <2>1. ASSUME NEW n \in Node, th = <<n, "monitor">> PROVE OnDuty(n, Onwards(t))
      <3>1. OnDuty(n, t)
        BY <2>1 DEF Duties
      <3>2. t.ips \in [1..3 -> Node] /\ t.j \in 1..3
        BY <1>1 DEF Tasks
      <3>3. DOMAIN t.ips = 1..3 /\ DOMAIN <<>> = {}
        BY <3>2
      <3> HIDE DEF t
      <3>4. t.ips # <<>>
        BY <3>3
      <3>5. ~t.needed => t.ips[t.j] # n
        BY <1>1, <3>1, <3>2, <3>4 DEF OnDuty, Looked
      <3> QED BY <1>1, <3>1, <3>5, OnwardsOnDuty
    <2> QED BY <1>2, <2>1, OneOnDuty
  <1>3. CASE Stop(th[1])
    BY <1>1, <1>3, StopOnDuty
  <1> QED BY <1>2, <1>3 DEF SendEnd

(* A removal on n and the step of the thread that removes.                 *)
LEMMA RemovalOnDuty ==
  ASSUME Threads, Duties, NEW th \in Thread, NEW t, NEW n \in Node, NEW f \in File,
         task' = [Unlinked(n, f) EXCEPT ![th] = t],
         t.ips = <<>> \/ th[2] = "user"
  PROVE  Duties'
  <1>1. SUFFICES ASSUME NEW k \in Node
                 PROVE  \/ AsFar(task[<<k, "monitor">>], task'[<<k, "monitor">>])
                        \/ task'[<<k, "monitor">>].ips = <<>>
    BY DutiesKept
  <1> DEFINE w == <<k, "monitor">>
  <1>2. w \in Thread /\ w[2] # "user"
    BY DEF Thread
  <1>3. task'[w] = IF w = th THEN t ELSE Unlinked(n, f)[w]
    BY <1>2, ReopenedTasks
  <1> HIDE DEF w
  <1>4. AsFar(task[w], Unlinked(n, f)[w])
    BY <1>2, ReopenedAsFar
  <1> QED BY <1>2, <1>3, <1>4 DEF w

(* DELETE, the removal of a redundant copy, downloads.                     *)
LEMMA OthersOnDuty ==
  ASSUME StoreAssumption, IInv, Duties, NEW n \in Node,
         Unlink(<<n, "user">>) \/ Discard(n) \/ Fetch(<<n, "user">>)
  PROVE  Duties'
  <1> USE DEF IInv
  <1>1. CASE Unlink(<<n, "user">>)
    <2> DEFINE th == <<n, "user">>
               t == task[th]
               x == Target(th)
    <2>1. th \in Thread /\ th[2] = "user"
      BY DEF Thread
    <2>2. t.pc \in Asking /\ t \in Tasks
      BY <1>1, <2>1 DEF Unlink, Threads, Asking, Pc
    <2>3. x \in Node /\ t.file \in File
      BY <2>1, <2>2, TargetIsNode DEF Tasks
    <2>4. \/ task' = [task EXCEPT ![th] = Stuck]
          \/ task' = [Unlinked(x, t.file) EXCEPT ![th] = Onwards(t)]
          \/ task' = [Unlinked(x, t.file) EXCEPT ![th] = Stuck]
      BY <1>1 DEF Unlink
    <2> HIDE DEF x, t, th
    <2>5. CASE task' = [task EXCEPT ![th] = Stuck]
      <3>1. \A k \in Node : OnDuty(k, Stuck)
        BY OffDuty, RestingOffDuty
      <3> HIDE DEF Stuck
      <3> QED BY <2>1, <2>5, <3>1, OneOnDuty
    <2>6. CASE task' = [Unlinked(x, t.file) EXCEPT ![th] = Onwards(t)]
      BY <2>1, <2>3, <2>6, RemovalOnDuty
    <2>7. CASE task' = [Unlinked(x, t.file) EXCEPT ![th] = Stuck]
      BY <2>1, <2>3, <2>7, RemovalOnDuty
    <2> QED BY <2>4, <2>5, <2>6, <2>7
  <1>2. CASE Discard(n)
    <2> DEFINE th == <<n, "monitor">>
               f == task[th].file
    <2>1. th \in Thread /\ task[th].pc = "discard"
      BY <1>2 DEF Discard, Thread
    <2>2. f \in File
      BY <2>1 DEF Threads, Tasks
    <2>3. task' = [Unlinked(n, f) EXCEPT ![th] = Idle]
      BY <1>2 DEF Discard
    <2> HIDE DEF th, f
    <2> QED BY <2>1, <2>2, <2>3, RemovalOnDuty, RestingOffDuty
  <1>3. CASE Fetch(<<n, "user">>)
    <2>1. CASE task' = [task EXCEPT ![<<n, "user">>] = Idle]
      <3>1. <<n, "user">> \in Thread /\ \A k \in Node : OnDuty(k, Idle)
        BY OffDuty, RestingOffDuty DEF Thread
      <3> QED BY <2>1, <3>1, OneOnDuty
    <2>2. CASE Stop(<<n, "user">>[1])
      BY <2>2, StopOnDuty
    <2> QED BY <1>3, <2>1, <2>2 DEF Fetch
  <1> QED BY <1>1, <1>2, <1>3

(* A machine fails: monitors whose upload is cut off come no further.      *)
LEMMA CrashOnDuty ==
  ASSUME StoreAssumption, IInv, Duties, NEW n \in Node, Crash(n)
  PROVE  Duties'
  <1> DEFINE received == UNION {Writers(n, f) : f \in File}
  <1> USE DEF IInv
  <1>1. task' = [y \in Thread |-> CASE y[1] = n -> Idle
                                    [] y[1] # n /\ y \in received -> [task[y] EXCEPT !.pc = "cut"]
                                    [] OTHER -> task[y]]
    BY DEF Crash
  <1>2. \A y \in received : task[y].pc \in Uploading
    BY DEF Writers, Uploading
  <1>3. SUFFICES ASSUME NEW k \in Node
                 PROVE  \/ AsFar(task[<<k, "monitor">>], task'[<<k, "monitor">>])
                        \/ task'[<<k, "monitor">>].ips = <<>>
    BY DutiesKept
  <1> DEFINE w == <<k, "monitor">>
             cut == [task[w] EXCEPT !.pc = "cut"]
  <1>4. w \in Thread /\ task[w] \in Tasks /\ AsFar(task[w], task[w])
    BY DEF Thread, Threads, AsFar
  <1>5. w \in received => AsFar(task[w], cut)
    <2>1. /\ cut.ips = task[w].ips /\ cut.cmd = task[w].cmd /\ cut.j = task[w].j
          /\ cut.needed = task[w].needed /\ cut.pc = "cut"
      BY <1>4 DEF Tasks
    <2> QED BY <1>2, <2>1 DEF AsFar, Uploading
  <1> HIDE DEF w, received
  <1>6. \/ task'[w] = Idle \/ task'[w] = task[w]
        \/ w \in received /\ task'[w] = cut
    BY <1>1, <1>4
  <1> HIDE DEF cut
  <1> QED BY <1>4, <1>5, <1>6, RestingOffDuty DEF w

(* Every step keeps all monitors on duty.                                  *)
LEMMA NextOnDuty ==
  ASSUME StoreAssumption, IInv, Duties, [Next]_vars
  PROVE  Duties'
  <1>1. CASE UNCHANGED task
    BY <1>1 DEF Duties
  <1>2. ASSUME NEW n \in Node, MonitorStep(n) PROVE Duties'
    <2>1. <<n, "monitor">> \in Thread /\ <<n, "monitor">>[2] = "monitor"
      BY DEF Thread
    <2>2. ASSUME NEW f \in File, MonitorAsk(n, f) PROVE Duties'
      <3>1. Ask(<<n, "monitor">>, "monitor", f, 0)
        BY <2>2 DEF MonitorAsk
      <3> QED BY <2>1, <3>1, AskOnDuty
    <2>3. CASE Wake(n)
      BY <1>1, <2>3 DEF Wake
    <2>4. CASE Discard(n)
      BY <2>4, OthersOnDuty
    <2>5. CASE Check(<<n, "monitor">>) \/ Upload(<<n, "monitor">>)
      BY <2>1, <2>5, CheckOnDuty, SendStartOnDuty, SendEndOnDuty DEF Upload
    <2> QED BY <1>2, <2>2, <2>3, <2>4, <2>5 DEF MonitorStep
  <1>3. ASSUME NEW n \in User, UserStep(n) PROVE Duties'
    <2>1. <<n, "user">> \in Thread /\ n \in Node
      BY DEF Thread, StoreAssumption
    <2> QED BY <1>3, <2>1, CheckOnDuty, SendStartOnDuty, SendEndOnDuty, OthersOnDuty
            DEF UserStep, Upload
  <1>4. ASSUME NEW n \in User, NEW cmd \in Command, NEW f \in File, Type(n, cmd, f)
        PROVE  Duties'
    <2>1. <<n, "user">> \in Thread /\ <<n, "user">>[2] # "monitor"
      BY DEF Thread, StoreAssumption
    <2>2. PICK v : Ask(<<n, "user">>, cmd, f, v)
      BY <1>4 DEF Type
    <2> QED BY <2>1, <2>2, AskOnDuty
  <1>5. ASSUME NEW th \in Thread, Drop(th) PROVE Duties'
    <2>1. task' = [task EXCEPT ![th] = Stuck] /\ \A n \in Node : OnDuty(n, Stuck)
      BY <1>5, OffDuty, RestingOffDuty DEF Drop
    <2> QED BY <2>1, OneOnDuty DEF IInv
  <1>6. ASSUME NEW n \in Node, Elect(n) \/ Restart(n) PROVE Duties'
    BY <1>1, <1>6 DEF Elect, Restart
  <1>7. ASSUME NEW n \in Node, NEW m \in Node, Detect(n, m) \/ Mistake(n, m) \/ Hear(n, m)
        PROVE  Duties'
    BY <1>1, <1>7 DEF Detect, Mistake, Hear
  <1>8. CASE UNCHANGED vars
    BY <1>1, <1>8 DEF vars
  <1> QED BY <1>2, <1>3, <1>4, <1>5, <1>6, <1>7, <1>8, CrashOnDuty DEF Next

(* However the masters' views, the placement and the other threads move    *)
(* between its steps, a monitor that is about to remove its copy has       *)
(* worked through an answer of two or three other nodes, and none of them  *)
(* was this one; only a request that threw leaves it without an answer.    *)
THEOREM OnlySurplusGoes == Spec => []RemovesOnlySurplus
  <1>1. Init => IInv /\ Duties
    <2> SUFFICES ASSUME Init PROVE IInv /\ Duties
      OBVIOUS
    <2>1. \A n \in Node : task[<<n, "monitor">>] = Idle
      BY DEF Init, Thread
    <2> QED BY <2>1, InitHolds, StoreAssumption, OffDuty, RestingOffDuty DEF Duties
  <1>2. (IInv /\ Duties) /\ [Next]_vars => (IInv /\ Duties)'
    BY NextKeeps, NextOnDuty, StoreAssumption
  <1>3. IInv /\ Duties => RemovesOnlySurplus
    <2> SUFFICES ASSUME Duties, NEW n \in Node,
                        task[<<n, "monitor">>].pc = "discard", task[<<n, "monitor">>].ips # <<>>
                 PROVE  /\ n \notin Addresses(task[<<n, "monitor">>].ips)
                        /\ Cardinality(Addresses(task[<<n, "monitor">>].ips)) >= 2
      BY DEF RemovesOnlySurplus
    <2> DEFINE t == task[<<n, "monitor">>]
    <2>1. OnDuty(n, t)
      BY DEF Duties
    <2> HIDE DEF t
    <2>2. Looked(t) = 1..3
      BY <2>1 DEF OnDuty, Looked, t
    <2> QED BY <2>1, <2>2 DEF OnDuty, Addresses, t
  <1>4. QED
    BY <1>1, <1>2, <1>3, PTL DEF Spec

-----------------------------------------------------------------------------
(* KeptWhereRequired.  What nobody does to n's copy of f as long as f is   *)
(* required there: no thread is about to write it, as each was told "NO"   *)
(* by the node it writes to; and n's monitor knows an answer with n in it. *)
Writing == {"send", "sending", "overrun"}

Spares(n, f, th, t) ==
  /\ t.cmd \notin {"put", "delete"} /\ t.pc # "unlink"
  /\ t.pc \in Writing /\ t.file = f => t.ips[t.j] # n
  /\ th = <<n, "monitor">> => /\ t.pc = "discard" => t.ips # <<>>
                              /\ t.file = f /\ t.ips # <<>> => n \in Addresses(t.ips)

AllSpare(n, f) == \A th \in Thread : Spares(n, f, th, task[th])

\* As put long before, every version being followed by its end.
Kept(n, f) == disk[n][f] = {1, -1} /\ AllSpare(n, f)

\* u does for its answer what t does, and writes only if t does.
Like(t, u) ==
  /\ u.ips = t.ips /\ u.cmd = t.cmd /\ u.j = t.j /\ u.file = t.file
  /\ u.pc = t.pc \/ (u.pc \in Uploading /\ t.pc \in Uploading)
  /\ u.pc \in Writing => t.pc \in Writing

LEMMA LikeSpares ==
  ASSUME NEW n, NEW f, NEW th, NEW t, NEW u, Like(t, u), Spares(n, f, th, t)
  PROVE  Spares(n, f, th, u)
  BY DEF Like, Spares, Uploading

LEMMA RestingSpare ==
  ASSUME NEW n, NEW f, NEW th
  PROVE  Spares(n, f, th, Idle) /\ Spares(n, f, th, Stuck)
  <1>1. Idle.pc = "idle" /\ Idle.cmd = "none" /\ Idle.ips = <<>>
    BY DEF Idle
  <1>2. Stuck.pc = "stuck" /\ Stuck.cmd = "none" /\ Stuck.ips = <<>>
    BY DEF Idle, Stuck
  <1> HIDE DEF Idle, Stuck
  <1> QED BY <1>1, <1>2 DEF Spares, Writing

(* A step in which every thread stays what it was, goes to rest, or comes  *)
(* to something that spares the copy.                                      *)
LEMMA SparedOn ==
  ASSUME NEW n \in Node, NEW f \in File, AllSpare(n, f),
         \A th \in Thread : \/ Like(task[th], task'[th])
                            \/ task'[th] \in {Idle, Stuck}
                            \/ Spares(n, f, th, task'[th])
  PROVE  AllSpare(n, f)'
  <1> SUFFICES ASSUME NEW th \in Thread PROVE Spares(n, f, th, task'[th])
    BY DEF AllSpare
  <1>1. Spares(n, f, th, task[th])
    BY DEF AllSpare
  <1> QED BY <1>1, LikeSpares, RestingSpare

LEMMA OneSpared ==
  ASSUME Threads, NEW n \in Node, NEW f \in File, AllSpare(n, f), NEW th \in Thread, NEW t,
         task' = [task EXCEPT ![th] = t], Spares(n, f, th, t)
  PROVE  AllSpare(n, f)'
  <1>1. SUFFICES ASSUME NEW w \in Thread
                 PROVE  Like(task[w], task'[w]) \/ Spares(n, f, w, task'[w])
    BY SparedOn
  <1>2. task'[w] = IF w = th THEN t ELSE task[w]
    BY DEF Threads
  <1>3. Like(task[w], task[w])
    BY DEF Like
  <1> QED BY <1>2, <1>3

LEMMA StopSpares ==
  ASSUME NEW n \in Node, NEW f \in File, AllSpare(n, f), NEW k \in Node, Stop(k)
  PROVE  AllSpare(n, f)'
  <1>1. SUFFICES ASSUME NEW w \in Thread
                 PROVE  Like(task[w], task'[w]) \/ task'[w] = Idle
    BY SparedOn
  <1>2. Like(task[w], task[w])
    BY DEF Like
  <1>3. task'[w] = Idle \/ task'[w] = task[w]
    BY DEF Stop
  <1> QED BY <1>2, <1>3

LEMMA ReopenedLike ==
  ASSUME Threads, NEW x \in Node, NEW g \in File, NEW w \in Thread
  PROVE  Like(task[w], Reopened(x, g)[w]) /\ Like(task[w], Unlinked(x, g)[w])
  <1>1. task[w] \in Tasks
    BY DEF Threads
  <1>2. w \in Writers(x, g) => task[w].pc \in Uploading \cap Writing
    BY DEF Writers, Uploading, Writing
  <1>3. Like(task[w], Unlinked(x, g)[w])
    BY <1>1, <1>2 DEF Unlinked, Like, Tasks, Uploading, Writing
  <1>4. Like(task[w], Reopened(x, g)[w])
    BY <1>1, <1>2 DEF Reopened, Like, Tasks, Uploading, Writing
  <1> QED BY <1>3, <1>4

(* A thread that is through with one address spares the copy as before.    *)
LEMMA OnwardsSpares ==
  ASSUME NEW n \in Node, NEW f \in File, NEW th \in Thread, NEW t \in Tasks,
         t.pc \in Asking, Spares(n, f, th, t)
  PROVE  Spares(n, f, th, Onwards(t))
  <1>1. t.ips # <<>> /\ t.j \in 1..3 /\ t.cmd \in {"monitor", "get", "ls"}
    <2>1. t.ips \in [1..3 -> Node] /\ t.j \in 1..3 /\ t.cmd \in {"monitor", "get", "ls"}
      BY DEF Tasks, Spares
    <2>2. DOMAIN t.ips = 1..3 /\ DOMAIN <<>> = {}
      BY <2>1
    <2> QED BY <2>1, <2>2
  <1>2. CASE t.j < 3
    <2> DEFINE u == [t EXCEPT !.j = @ + 1, !.pc = FirstPc(t.cmd), !.spoilt = FALSE]
    <2>1. Onwards(t) = u
      BY <1>2 DEF Onwards
    <2>2. u.ips = t.ips /\ u.cmd = t.cmd /\ u.file = t.file /\ u.pc = "check"
      BY <1>1 DEF Tasks, FirstPc
    <2> HIDE DEF u
    <2> QED BY <2>1, <2>2 DEF Spares, Writing
  <1>3. CASE t.j = 3 /\ t.cmd = "monitor" /\ ~t.needed
    <2> DEFINE u == [t EXCEPT !.pc = "discard"]
    <2>1. Onwards(t) = u
      BY <1>3 DEF Onwards, Tasks
    <2>2. u.ips = t.ips /\ u.cmd = t.cmd /\ u.file = t.file /\ u.pc = "discard"
      BY DEF Tasks
    <2> HIDE DEF u
    <2> QED BY <1>1, <2>1, <2>2 DEF Spares, Writing
  <1>4. CASE ~(t.j < 3) /\ ~(t.j = 3 /\ t.cmd = "monitor" /\ ~t.needed)
    <2>1. Onwards(t) = Idle
      BY <1>4 DEF Onwards
    <2> QED BY <2>1, RestingSpare
  <1> QED BY <1>2, <1>3, <1>4

(* Whoever asks, n's monitor is told that f is required here.              *)
LEMMA AskSpares ==
  ASSUME StoreAssumption, IInv, NEW n \in Node \ Throwing, NEW f \in File, AllSpare(n, f),
         n \in up => Required(n, f), NEW th \in Thread, th[1] \in up,
         NEW cmd \in {"monitor", "get", "ls"},
         th[2] = "monitor" => cmd = "monitor",
         NEW g \in File, NEW v, Ask(th, cmd, g, v)
  PROVE  AllSpare(n, f)'
  <1> DEFINE m == master[th[1]]
             waits == [task EXCEPT ![th] = Stuck]
             asks(ips) ==
               [task EXCEPT ![th] = [pc |-> FirstPc(cmd), cmd |-> cmd, file |-> g, ips |-> ips,
                                     j |-> 1, ver |-> v, needed |-> FALSE, spoilt |-> FALSE]]
  <1> USE DEF IInv
  <1>1. m \in Node /\ m \in {master[k] : k \in up}
    BY DEF Views, Thread, Running
  <1>2. CASE th[1] \in Throwing /\ task' = [task EXCEPT ![th] = Unanswered(cmd, g)]
    <2>1. th # <<n, "monitor">>
      BY <1>2
    <2>2. Spares(n, f, th, Unanswered(cmd, g))
      <3>1. CASE cmd = "monitor"
        <4> DEFINE t == Unanswered(cmd, g)
        <4>1. t.pc = "discard" /\ t.cmd = "monitor"
          BY <3>1 DEF Unanswered, Idle
        <4> HIDE DEF t
        <4> QED BY <2>1, <4>1 DEF Spares, Writing, t
      <3>2. CASE cmd # "monitor"
        BY <3>2, RestingSpare DEF Unanswered
      <3> QED BY <3>1, <3>2
    <2> QED BY <1>2, <2>2, OneSpared
  <1>3. CASE task' = waits
    BY <1>3, RestingSpare, OneSpared
  <1>4. CASE task' = [w \in Thread |-> IF w[1] = m THEN Idle ELSE waits[w]]
    <2>1. SUFFICES ASSUME NEW w \in Thread
                   PROVE  Like(task[w], task'[w]) \/ task'[w] \in {Idle, Stuck}
      BY SparedOn
    <2>2. waits[w] = task[w] \/ waits[w] = Stuck
      BY DEF Threads
    <2> HIDE DEF waits
    <2>3. task'[w] = Idle \/ task'[w] = waits[w]
      BY <1>4
    <2> QED BY <2>2, <2>3 DEF Like
  <1>5. ASSUME m \in serving, Divisor(Node \ failed[m]) # 0,
               NEW e \in EndReads, Answered(Answers[g][failed[m]][e]),
               task' = asks(Answers[g][failed[m]][e])
        PROVE  AllSpare(n, f)'
    <2> DEFINE ips == Answers[g][failed[m]][e]
               t == [pc |-> FirstPc(cmd), cmd |-> cmd, file |-> g, ips |-> ips, j |-> 1,
                     ver |-> v, needed |-> FALSE, spoilt |-> FALSE]
    <2>1. g = f /\ th = <<n, "monitor">> => n \in Addresses(ips)
      <3> SUFFICES ASSUME g = f, th = <<n, "monitor">> PROVE n \in Addresses(ips)
        OBVIOUS
      <3>1. e \in BOOLEAN /\ failed[m] \in SUBSET Node
        BY <1>1 DEF StoreAssumption, Views
      <3>2. ips = WhereTo(Letter[f], Node, Node \ failed[m], e)
        BY <1>5, <3>1 DEF Answers
      <3>3. Required(n, f)
        OBVIOUS
      <3> HIDE DEF ips
      <3> QED BY <1>1, <1>5, <3>2, <3>3 DEF Required, ips
    <2> HIDE DEF ips
    <2>2. t.pc = "check" /\ t.cmd = cmd /\ t.ips = ips /\ t.file = g
      BY DEF FirstPc
    <2>3. task' = [task EXCEPT ![th] = t]
      BY <1>5 DEF ips
    <2> HIDE DEF t
    <2>4. Spares(n, f, th, t)
      BY <2>1, <2>2 DEF Spares, Writing
    <2> QED BY <2>3, <2>4, OneSpared
  <1> HIDE DEF waits
  <1>6. \/ th[1] \in Throwing /\ task' = [task EXCEPT ![th] = Unanswered(cmd, g)]
        \/ task' = waits
        \/ task' = [w \in Thread |-> IF w[1] = m THEN Idle ELSE waits[w]]
        \/ /\ m \in serving /\ Divisor(Node \ failed[m]) # 0
           /\ \E e \in EndReads : /\ Answered(Answers[g][failed[m]][e])
                                  /\ task' = asks(Answers[g][failed[m]][e])
    BY DEF Ask, waits
  <1> QED BY <1>2, <1>3, <1>4, <1>5, <1>6

(* Nobody is told "NO" by n when it asks for f.                            *)
LEMMA CheckSpares ==
  ASSUME StoreAssumption, IInv, NEW n \in Node, NEW f \in File, Kept(n, f),
         NEW th \in Thread, Check(th)
  PROVE  AllSpare(n, f)'
  <1> DEFINE t == task[th]
             u == Recognised(th)
             b == t.needed \/ (t.cmd = "monitor" /\ Target(th) = th[1])
             r == [u EXCEPT !.pc = "send"]
  <1> USE DEF IInv
  <1>1. t.pc = "check" /\ t.pc \in Asking /\ t \in Tasks /\ Spares(n, f, th, t)
    BY DEF Check, Threads, Asking, Pc, Kept, AllSpare
  <1>2. /\ t.cmd \in {"monitor", "get", "ls"} /\ t.ips \in [1..3 -> Node]
        /\ Target(th) = t.ips[t.j]
    BY <1>1 DEF Tasks, Target
  <1>3. /\ u.pc = t.pc /\ u.cmd = t.cmd /\ u.ips = t.ips /\ u.j = t.j /\ u.file = t.file
        /\ u \in Tasks
    <2>1. u = [t EXCEPT !.needed = b] /\ b \in BOOLEAN
      BY DEF Recognised
    <2> HIDE DEF u, b, t
    <2> QED BY <1>1, <2>1 DEF Tasks
  <1>4. r.cmd = u.cmd /\ r.ips = u.ips /\ r.j = u.j /\ r.file = u.file /\ r.pc = "send"
    BY <1>3 DEF Tasks
  <1> DEFINE found == CASE t.cmd = "monitor" -> Onwards(u)
                        [] t.cmd = "get" -> [t EXCEPT !.pc = "fetch"]
                        [] t.cmd = "ls" -> Idle
             absent == IF t.cmd = "monitor" THEN r ELSE Onwards(t)
             next == CASE Target(th) \notin up -> Stuck
                       [] Target(th) \in up /\ Present(Target(th), t.file) -> found
                       [] OTHER -> absent
  <1>5. task' = [task EXCEPT ![th] = next]
    BY DEF Check
  <1>6. Target(th) = n => t.file # f \/ Present(Target(th), t.file)
    BY DEF Kept, Present
  <1> HIDE DEF u, t, r
  <1>7. Spares(n, f, th, u)
    BY <1>1, <1>3 DEF Spares
  <1>8. Spares(n, f, th, Onwards(t)) /\ Spares(n, f, th, Onwards(u))
    BY <1>1, <1>3, <1>7, OnwardsSpares
  <1>9. Spares(n, f, th, [t EXCEPT !.pc = "fetch"])
    <2> DEFINE g == [t EXCEPT !.pc = "fetch"]
    <2>1. g.cmd = t.cmd /\ g.ips = t.ips /\ g.file = t.file /\ g.pc = "fetch"
      BY <1>1 DEF Tasks
    <2> HIDE DEF g
    <2>2. Spares(n, f, th, g)
      BY <1>1, <2>1 DEF Spares, Writing
    <2> QED BY <2>2 DEF g
  <1>10. Target(th) # n \/ t.file # f => Spares(n, f, th, r)
    BY <1>2, <1>3, <1>4, <1>7 DEF Spares
  <1>11. Spares(n, f, th, found)
    BY <1>2, <1>8, <1>9, RestingSpare
  <1> HIDE DEF found
  <1>12. Spares(n, f, th, next)
    <2>1. CASE Target(th) \notin up
      BY <2>1, RestingSpare
    <2>2. CASE Target(th) \in up /\ Present(Target(th), t.file)
      BY <1>11, <2>2
    <2>3. CASE Target(th) \in up /\ ~Present(Target(th), t.file)
      <3>1. Target(th) # n \/ t.file # f
        BY <1>6, <2>3
      <3>2. Spares(n, f, th, absent)
        BY <1>8, <1>10, <3>1
      <3>3. next = absent
        BY <2>3
      <3> QED BY <3>2, <3>3
    <2> QED BY <2>1, <2>2, <2>3
  <1> HIDE DEF next
  <1> QED BY <1>5, <1>12, OneSpared DEF Kept

(* An upload to n is of another file, and those of f go elsewhere.         *)
LEMMA SendSpares ==
  ASSUME StoreAssumption, IInv, NEW n \in Node, NEW f \in File, Kept(n, f),
         NEW th \in Thread, SendStart(th) \/ SendEnd(th)
  PROVE  Kept(n, f)'
  <1> DEFINE t == task[th]
             x == Target(th)
             g == t.file
  <1> USE DEF IInv
  <1>1. t.pc \in Asking \cap Uploading /\ t \in Tasks /\ Spares(n, f, th, t) /\ th[1] \in Node
    BY DEF SendStart, SendEnd, Threads, Asking, Pc, Uploading, Kept, AllSpare, Thread
  <1>2. x \in Node /\ g \in File /\ x = t.ips[t.j]
    BY <1>1, TargetIsNode DEF Tasks, Target
  <1>3. t.pc \in Writing => x # n \/ g # f
    BY <1>1, <1>2 DEF Spares
  <1>4. CASE SendStart(th)
    <2> DEFINE gone == t.cmd = "monitor" /\ ~Present(th[1], t.file)
    <2>1. t.pc = "send" /\ (disk' = disk \/ \E c : disk' = [disk EXCEPT ![x][g] = c])
      BY <1>4 DEF SendStart
    <2>2. x # n \/ g # f
      BY <1>3, <2>1 DEF Writing
    <2>3. disk'[n][f] = disk[n][f]
      <3> HIDE DEF x, g
      <3>1. ASSUME NEW c, disk' = [disk EXCEPT ![x][g] = c] PROVE disk'[n][f] = disk[n][f]
        BY <1>2, <2>2, <3>1 DEF Copies
      <3> QED BY <2>1, <3>1
    <2>4. SUFFICES ASSUME NEW w \in Thread
                   PROVE  Like(task[w], task'[w]) \/ task'[w] = Idle
      BY <2>3, SparedOn DEF Kept
    <2>5. Like(task[w], task[w]) /\ Like(task[w], Reopened(x, g)[w])
      BY <1>2, ReopenedLike DEF Like
    <2>6. CASE x \in up /\ ~gone
      <3> DEFINE v == IF t.cmd = "monitor" THEN Reading(th[1], t.file) ELSE t.ver
                 s == t.cmd = "monitor" /\ x = th[1]
                 u == [t EXCEPT !.pc = "sending", !.ver = v, !.spoilt = s]
      <3>1. task' = [Reopened(x, g) EXCEPT ![th] = u]
        BY <1>4, <2>6 DEF SendStart
      <3>2. Like(t, u)
        <4> HIDE DEF v, s, t
        <4>1. u.ips = t.ips /\ u.cmd = t.cmd /\ u.j = t.j /\ u.file = t.file
          BY <1>1 DEF Tasks
        <4>2. u.pc = "sending"
          BY <1>1 DEF Tasks
        <4> HIDE DEF u
        <4> QED BY <2>1, <4>1, <4>2 DEF Like, Uploading, Writing, t
      <3> HIDE DEF u, x, g
      <3>3. task'[w] = IF w = th THEN u ELSE Reopened(x, g)[w]
        BY <1>2, <3>1, ReopenedTasks
      <3> QED BY <2>5, <3>2, <3>3
    <2>7. CASE ~(x \in up /\ ~gone)
      <3>1. task' = [y \in Thread |-> CASE y[1] = th[1] -> Idle
                                        [] y[1] # th[1] /\ x \in up -> Reopened(x, g)[y]
                                        [] OTHER -> task[y]]
        BY <1>4, <2>7 DEF SendStart
      <3> HIDE DEF x, g
      <3>2. task'[w] = Idle \/ task'[w] = Reopened(x, g)[w] \/ task'[w] = task[w]
        BY <3>1
      <3> QED BY <2>5, <3>2
    <2> QED BY <2>6, <2>7
  <1>5. CASE SendEnd(th)
    <2>1. disk'[n][f] = disk[n][f]
      <3>1. CASE t.pc = "sending"
        <4>1. \E c : disk' = [disk EXCEPT ![x][g] = c]
          BY <1>5, <3>1 DEF SendEnd
        <4>2. x # n \/ g # f
          BY <1>3, <3>1 DEF Writing
        <4> HIDE DEF x, g
        <4> QED BY <1>2, <4>1, <4>2 DEF Copies
      <3>2. CASE t.pc # "sending"
        BY <1>5, <3>2 DEF SendEnd
      <3> QED BY <3>1, <3>2
    <2>2. CASE task' = [task EXCEPT ![th] = Onwards(t)]
      <3>1. Spares(n, f, th, Onwards(t))
        BY <1>1, OnwardsSpares
      <3> HIDE DEF t
      <3> QED BY <2>1, <2>2, <3>1, OneSpared DEF Kept
    <2>3. CASE Stop(th[1])
      BY <1>1, <2>1, <2>3, StopSpares DEF Kept
    <2> QED BY <1>5, <2>2, <2>3 DEF SendEnd
  <1> QED BY <1>4, <1>5

(* No monitor removes f from n: its own is on duty and knows an answer     *)
(* with n in it.                                                           *)
LEMMA DiscardSpares ==
  ASSUME StoreAssumption, IInv, Duties, NEW n \in Node, NEW f \in File, Kept(n, f),
         NEW k \in Node, Discard(k)
  PROVE  Kept(n, f)'
  <1> DEFINE th == <<k, "monitor">>
             t == task[th]
             g == t.file
  <1> USE DEF IInv
  <1>1. th \in Thread /\ t.pc = "discard" /\ t \in Tasks /\ g \in File
    <2>1. th \in Thread /\ t.pc = "discard"
      BY DEF Discard, Thread
    <2> QED BY <2>1 DEF Threads, Tasks
  <1>2. k # n \/ g # f
    <2> SUFFICES ASSUME k = n, g = f PROVE FALSE
      OBVIOUS
    <2>1. Spares(n, f, th, t) /\ OnDuty(n, t)
      BY <1>1 DEF Kept, AllSpare, Duties
    <2> HIDE DEF t
    <2>2. t.ips # <<>> /\ n \in Addresses(t.ips)
      BY <1>1, <2>1 DEF Spares
    <2>3. Looked(t) = 1..3 /\ \A i \in Looked(t) : t.ips[i] # n
      BY <1>1, <2>1, <2>2 DEF OnDuty, Looked
    <2> QED BY <2>2, <2>3 DEF Addresses
  <1>3. disk' = [disk EXCEPT ![k][g] = {}] /\ task' = [Unlinked(k, g) EXCEPT ![th] = Idle]
    BY DEF Discard
  <1> HIDE DEF g, t, th
  <1>4. disk'[n][f] = disk[n][f]
    BY <1>1, <1>2, <1>3 DEF Copies
  <1>5. SUFFICES ASSUME NEW w \in Thread
                 PROVE  Like(task[w], task'[w]) \/ task'[w] = Idle
    BY <1>4, SparedOn DEF Kept
  <1>6. task'[w] = IF w = th THEN Idle ELSE Unlinked(k, g)[w]
    BY <1>1, <1>3, ReopenedTasks
  <1> QED BY <1>1, <1>6, ReopenedLike

(* A machine fails.                                                        *)
LEMMA CrashSpares ==
  ASSUME StoreAssumption, IInv, NEW n \in Node, NEW f \in File, Kept(n, f),
         NEW k \in Node, Crash(k)
  PROVE  Kept(n, f)'
  <1> DEFINE received == UNION {Writers(k, g) : g \in File}
  <1> USE DEF IInv
  <1>1. task' = [y \in Thread |-> CASE y[1] = k -> Idle
                                    [] y[1] # k /\ y \in received -> [task[y] EXCEPT !.pc = "cut"]
                                    [] OTHER -> task[y]]
    BY DEF Crash
  <1>2. \A y \in received : task[y].pc \in Uploading
    BY DEF Writers, Uploading
  <1>3. disk' = disk
    BY DEF Crash, files
  <1>4. SUFFICES ASSUME NEW w \in Thread
                 PROVE  Like(task[w], task'[w]) \/ task'[w] = Idle
    BY <1>3, SparedOn DEF Kept
  <1> DEFINE cut == [task[w] EXCEPT !.pc = "cut"]
  <1>5. task[w] \in Tasks /\ Like(task[w], task[w])
    BY DEF Threads, Like
  <1>6. w \in received => Like(task[w], cut)
    <2>1. /\ cut.ips = task[w].ips /\ cut.cmd = task[w].cmd /\ cut.j = task[w].j
          /\ cut.file = task[w].file /\ cut.pc = "cut"
      BY <1>5 DEF Tasks
    <2> QED BY <1>2, <2>1 DEF Like, Uploading, Writing
  <1> HIDE DEF received
  <1>7. \/ task'[w] = Idle \/ task'[w] = task[w]
        \/ w \in received /\ task'[w] = cut
    BY <1>1
  <1> HIDE DEF cut
  <1> QED BY <1>5, <1>6, <1>7

(* Every step from a state in which f is required on n, or n does not run, *)
(* spares the copy.                                                        *)
LEMMA NextSpares ==
  ASSUME StoreAssumption, Command \subseteq {"get", "ls"}, IInv, Duties,
         NEW n \in Node \ Throwing, NEW f \in File, Kept(n, f),
         n \in up => Required(n, f), [Next]_vars
  PROVE  Kept(n, f)'
  <1>1. CASE UNCHANGED <<task, disk>>
    BY <1>1 DEF Kept, AllSpare
  <1>2. ASSUME AllSpare(n, f)', disk' = disk PROVE Kept(n, f)'
    BY <1>2 DEF Kept
  <1>3. AllSpare(n, f) /\ Threads
    BY DEF Kept, IInv
  <1>4. ASSUME NEW k \in Node, MonitorStep(k) PROVE Kept(n, f)'
    <2>1. <<k, "monitor">> \in Thread /\ <<k, "monitor">>[2] = "monitor"
      BY DEF Thread
    <2>2. ASSUME NEW g \in File, MonitorAsk(k, g) PROVE Kept(n, f)'
      <3>1. Ask(<<k, "monitor">>, "monitor", g, 0) /\ <<k, "monitor">>[1] \in up /\ disk' = disk
        BY <2>2 DEF MonitorAsk, files
      <3> QED BY <1>2, <1>3, <2>1, <3>1, AskSpares
    <2>3. CASE Wake(k)
      BY <1>1, <2>3 DEF Wake, files
    <2>4. CASE Discard(k)
      BY <2>4, DiscardSpares
    <2>5. CASE Check(<<k, "monitor">>)
      <3>1. disk' = disk
        BY <2>5 DEF Check, files
      <3> QED BY <1>2, <2>1, <2>5, <3>1, CheckSpares
    <2>6. CASE Upload(<<k, "monitor">>)
      BY <2>1, <2>6, SendSpares DEF Upload
    <2> QED BY <1>4, <2>2, <2>3, <2>4, <2>5, <2>6 DEF MonitorStep
  <1>5. ASSUME NEW k \in User, UserStep(k) PROVE Kept(n, f)'
    <2>1. <<k, "user">> \in Thread /\ k \in Node /\ <<k, "user">>[1] = k
      BY DEF Thread, StoreAssumption
    <2>2. CASE Check(<<k, "user">>)
      <3>1. disk' = disk
        BY <2>2 DEF Check, files
      <3> QED BY <1>2, <2>1, <2>2, <3>1, CheckSpares
    <2>3. CASE Upload(<<k, "user">>)
      BY <2>1, <2>3, SendSpares DEF Upload
    <2>4. ~Unlink(<<k, "user">>)
      BY <1>3, <2>1 DEF AllSpare, Spares, Unlink
    <2>5. CASE Fetch(<<k, "user">>)
      <3>1. disk' = disk
        BY <2>5 DEF Fetch, files
      <3>2. CASE task' = [task EXCEPT ![<<k, "user">>] = Idle]
        BY <1>2, <1>3, <2>1, <3>1, <3>2, OneSpared, RestingSpare
      <3>3. CASE Stop(k)
        BY <1>2, <1>3, <2>1, <3>1, <3>3, StopSpares
      <3> QED BY <2>1, <2>5, <3>2, <3>3 DEF Fetch
    <2> QED BY <1>5, <2>2, <2>3, <2>4, <2>5 DEF UserStep
  <1>6. ASSUME NEW k \in User, NEW cmd \in Command, NEW g \in File, Type(k, cmd, g)
        PROVE  Kept(n, f)'
    <2>1. <<k, "user">> \in Thread /\ <<k, "user">>[2] # "monitor" /\ <<k, "user">>[1] = k
      BY DEF Thread, StoreAssumption
    <2>2. PICK v : Ask(<<k, "user">>, cmd, g, v)
      BY <1>6 DEF Type
    <2>3. k \in up /\ disk' = disk /\ cmd \in {"monitor", "get", "ls"}
      BY <1>6 DEF Type
    <2> QED BY <1>2, <1>3, <2>1, <2>2, <2>3, AskSpares
  <1>7. ASSUME NEW th \in Thread, Drop(th) PROVE Kept(n, f)'
    <2>1. task' = [task EXCEPT ![th] = Stuck] /\ disk' = disk
      BY <1>7 DEF Drop, files
    <2> QED BY <1>2, <1>3, <2>1, OneSpared, RestingSpare
  <1>8. ASSUME NEW k \in Node, Elect(k) \/ Restart(k) PROVE Kept(n, f)'
    BY <1>1, <1>8 DEF Elect, Restart, files
  <1>9. ASSUME NEW k \in Node, NEW m \in Node, Detect(k, m) \/ Mistake(k, m) \/ Hear(k, m)
        PROVE  Kept(n, f)'
    BY <1>1, <1>9 DEF Detect, Mistake, Hear, files
  <1>10. CASE UNCHANGED vars
    BY <1>1, <1>10 DEF vars
  <1> QED BY <1>4, <1>5, <1>6, <1>7, <1>8, <1>9, <1>10, CrashSpares DEF Next

(* Where nobody puts or deletes, and for any number of failures, restarts, *)
(* suspicions and losses: a copy is safe as long as its node, when it      *)
(* runs, belongs to the placement by every list that a master answers      *)
(* from.  It is only when the placement moves away from all the holders of *)
(* a file that the monitors can lose the copies.                           *)
THEOREM HoldersKeep == Spec => KeptWhereRequired
  <1>1. ASSUME Command \subseteq {"get", "ls"}, NEW f \in Before, NEW n \in Node \ Throwing,
               n \in Replicas(f, {})
        PROVE  Spec /\ [](n \in up => Required(n, f)) => []Whole(n, f, 1)
    <2>1. f \in File
      BY StoreAssumption DEF StoreAssumption
    <2>2. Init => IInv /\ Duties /\ Kept(n, f)
      <3> SUFFICES ASSUME Init PROVE IInv /\ Duties /\ Kept(n, f)
        OBVIOUS
      <3>1. \A th \in Thread : task[th] = Idle
        BY DEF Init
      <3>2. disk[n][f] = {1, -1}
        BY <1>1, <2>1 DEF Init
      <3>3. Duties
        BY <3>1, OffDuty, RestingOffDuty DEF Duties, Thread
      <3>4. AllSpare(n, f)
        BY <3>1, RestingSpare DEF AllSpare
      <3> QED BY <3>2, <3>3, <3>4, InitHolds, StoreAssumption DEF Kept
    <2>3. (IInv /\ Duties /\ Kept(n, f)) /\ (n \in up => Required(n, f)) /\ [Next]_vars
            => (IInv /\ Duties /\ Kept(n, f))'
      BY <1>1, <2>1, NextKeeps, NextOnDuty, NextSpares, StoreAssumption
    <2>4. Kept(n, f) => Whole(n, f, 1)
      BY DEF Kept, Whole
    <2> QED BY <2>2, <2>3, <2>4, PTL DEF Spec
  <1>2. ASSUME Command \subseteq {"get", "ls"}
        PROVE  Spec => \A f \in Before, n \in Node \ Throwing :
                         n \in Replicas(f, {}) /\ [](n \in up => Required(n, f))
                           => []Whole(n, f, 1)
    BY <1>1, <1>2
  <1> QED BY <1>2 DEF KeptWhereRequired

-----------------------------------------------------------------------------
(* NoLoss where one holder is left.  Nothing is put or deleted, so what    *)
(* was put before is what has to be found.                                 *)
AsBefore == \A f \in File : stored[f] # 0 => f \in Before /\ stored[f] = 1

\* No step stores or deletes a file where only get and ls are typed.
LEMMA NothingStored ==
  ASSUME StoreAssumption, Command \subseteq {"get", "ls"}, NEW n, NEW f, Kept(n, f), [Next]_vars
  PROVE  stored' = stored
  <1>1. ASSUME NEW th \in Thread, Upload(th) PROVE stored' = stored
    <2>1. task[th].cmd # "put"
      BY DEF Kept, AllSpare, Spares
    <2>2. CASE SendStart(th)
      BY <2>2 DEF SendStart
    <2>3. CASE SendEnd(th)
      BY <2>1, <2>3 DEF SendEnd
    <2> QED BY <1>1, <2>2, <2>3 DEF Upload
  <1>2. ASSUME NEW k \in Node, MonitorStep(k) PROVE stored' = stored
    <2>1. <<k, "monitor">> \in Thread
      BY DEF Thread
    <2> QED BY <1>1, <1>2, <2>1
            DEF MonitorStep, Wake, MonitorAsk, Check, Discard, files
  <1>3. ASSUME NEW k \in User, UserStep(k) PROVE stored' = stored
    <2>1. <<k, "user">> \in Thread
      BY DEF Thread, StoreAssumption
    <2> QED BY <1>1, <1>3, <2>1 DEF UserStep, Check, Unlink, Fetch, files
  <1>4. ASSUME NEW k \in User, NEW cmd \in Command, NEW g \in File, Type(k, cmd, g)
        PROVE  stored' = stored
    BY <1>4 DEF Type
  <1>5. ASSUME NEW th \in Thread, Drop(th) PROVE stored' = stored
    BY <1>5 DEF Drop, files
  <1>6. ASSUME NEW k \in Node, Elect(k) \/ Crash(k) \/ Restart(k) PROVE stored' = stored
    BY <1>6 DEF Elect, Crash, Restart, files
  <1>7. ASSUME NEW k \in Node, NEW m \in Node, Detect(k, m) \/ Mistake(k, m) \/ Hear(k, m)
        PROVE  stored' = stored
    BY <1>7 DEF Detect, Mistake, Hear, files
  <1>8. CASE UNCHANGED vars
    BY <1>8 DEF vars
  <1> QED BY <1>2, <1>3, <1>4, <1>5, <1>6, <1>7, <1>8 DEF Next

(* However many of the others fail, restart or are suspected, and whatever *)
(* the monitors do in answer: while nobody puts or deletes, the file is    *)
(* not lost as long as one node where it was put runs and belongs to the   *)
(* placement by the list of every master, and no request of its own throws.*)
THEOREM OneHolderIsEnough ==
  ASSUME Command \subseteq {"get", "ls"}, NEW f \in Before, NEW n \in Node \ Throwing,
         n \in Replicas(f, {})
  PROVE  Spec /\ [](n \in up /\ Required(n, f)) => []NoLoss
  <1> DEFINE Safe == IInv /\ Duties /\ Kept(n, f) /\ AsBefore
  <1>1. f \in File /\ 1 \in Version
    BY StoreAssumption DEF StoreAssumption
  <1>2. Init => Safe
    <2> SUFFICES ASSUME Init PROVE Safe
      OBVIOUS
    <2>1. \A th \in Thread : task[th] = Idle
      BY DEF Init
    <2>2. disk[n][f] = {1, -1}
      BY <1>1 DEF Init
    <2>3. Duties
      BY <2>1, OffDuty, RestingOffDuty DEF Duties, Thread
    <2>4. AllSpare(n, f)
      BY <2>1, RestingSpare DEF AllSpare
    <2>5. AsBefore
      BY DEF Init, AsBefore
    <2> QED BY <2>2, <2>3, <2>4, <2>5, InitHolds, StoreAssumption DEF Kept
  <1>3. Safe /\ (n \in up /\ Required(n, f)) /\ [Next]_vars => Safe'
    <2> SUFFICES ASSUME Safe, Required(n, f), [Next]_vars PROVE Safe'
      OBVIOUS
    <2>1. IInv' /\ Duties' /\ Kept(n, f)'
      BY <1>1, NextKeeps, NextOnDuty, NextSpares, StoreAssumption
    <2>2. AsBefore'
      BY NothingStored, StoreAssumption DEF AsBefore
    <2> QED BY <2>1, <2>2
  <1>4. Safe /\ (n \in up /\ Required(n, f)) => NoLoss
    <2> SUFFICES ASSUME Kept(n, f), AsBefore, n \in up, NEW g \in File, stored[g] # 0
                 PROVE  \E k \in up, v \in Version : v >= stored[g] /\ Whole(k, g, v)
      BY DEF NoLoss
    <2>1. g \in Before /\ stored[g] = 1
      BY DEF AsBefore
    <2>2. g = f
      <3>1. IsFiniteSet(Before) /\ Cardinality(Before) <= 1
        BY StoreAssumption DEF StoreAssumption
      <3> SUFFICES ASSUME g # f PROVE FALSE
        OBVIOUS
      <3>2. {f, g, g} \subseteq Before /\ Cardinality({f, g, g}) >= 2
        BY <2>1, TwoDifferent
      <3>3. Cardinality({f, g, g}) <= Cardinality(Before)
        BY <3>1, <3>2, FS_Subset
      <3> QED BY <3>1, <3>2, <3>3, FS_Subset, FS_CardinalityType
    <2>3. Whole(n, f, 1)
      BY DEF Kept, Whole
    <2> QED BY <1>1, <2>1, <2>2, <2>3
  <1> HIDE DEF Safe
  <1>5. QED
    BY <1>2, <1>3, <1>4, PTL DEF Spec

-----------------------------------------------------------------------------
(* NoLoss, where one machine at most fails and takes no hash with it.  The *)
(* failure may come at any time, in any view, and at the worst moment of   *)
(* an upload.                                                              *)
OneFailure ==
  /\ N >= 4 /\ Ascending
  /\ \A f \in Before, m \in Node :
       HashOctet(Letter[f], Node \ {m}) = HashOctet(Letter[f], Node)
  /\ MaxCrashes \in {0, 1} /\ MaxRestarts = 0
  /\ Throwing = {} /\ Mistaken = {}
  /\ Command \subseteq {"ls"}

Away == Node \ up

\* Where f was put, when all nodes ran.
Home(f) == Named(AnswerWithout(Letter[f], {}))

\* Answers that were sent before the failure, or after it.
Current(f, ips, away) ==
  /\ END \notin Named(ips)
  /\ \E lost \in {{}, away} : ips = AnswerWithout(Letter[f], lost)

(* A thread t at th goes by such an answer; it writes only from one of the *)
(* nodes where its file was put to a running one where it was not.         *)
Rests(t) == t.pc \in {"idle", "stuck"} /\ t.cmd = "none"
Lists(t) == t.pc = "check" /\ t.cmd = "ls"
Tends(n, t, away) ==
  /\ t.pc \in {"check", "discard"} \cup (Uploading \ {"cut"}) /\ t.cmd = "monitor"
  /\ Current(t.file, t.ips, away) /\ ~t.spoilt
  /\ t.pc \in Uploading => n \in Home(t.file) /\ t.ips[t.j] \notin Home(t.file) \cup away

Honest(th, t, away) ==
  Rests(t) \/ (th[2] = "user" /\ Lists(t)) \/ (th[2] = "monitor" /\ Tends(th[1], t, away))

\* The monitor of n has the file it deals with, and will not come to it again.
Holds(n) ==
  LET t == task[<<n, "monitor">>]
  IN  Rests(t) \/ (Present(n, t.file) /\ t.file \notin listing[n])

(* Threads are like that, and copies lie where an answer put them.         *)
AllHonest == \A th \in Thread : Honest(th, task[th], Away)
AllHold   == \A n \in Node : Holds(n) /\ \A g \in listing[n] : Present(n, g)
InPlace   == \A n \in Node, g \in File :
               Present(n, g) => /\ g \in Before
                                /\ n \in Home(g) \cup Named(AnswerWithout(Letter[g], Away))
Calm      == AllHonest /\ AllHold /\ InPlace

\* One node at most does not run, and nobody takes another for failed.
OneAway == /\ faults \in [crashes : Nat, restarts : Nat, mistakes : Nat, lost : Nat]
           /\ up = Node \/ (faults.crashes >= 1 /\ \E m \in Node : up = Node \ {m})
           /\ \A n \in Node : failed[n] \subseteq Away

\* The copies that were put long before are untouched.
Intact == /\ \A f \in Before : \A n \in Home(f) \cap Node : Kept(n, f)
          /\ AsBefore

-----------------------------------------------------------------------------
\* What OneAway says of the nodes that are away.
LEMMA AwayIsOne ==
  ASSUME OneAway
  PROVE  Away = {} \/ \E m \in Node : Away = {m}
  BY DEF OneAway, Away

(* An answer for f that is current names all the homes of f that run, and  *)
(* one other node at most.                                                 *)
LEMMA CurrentNames ==
  ASSUME StoreAssumption, OneFailure, OneAway, NEW f \in Before, NEW ips,
         Current(f, ips, Away)
  PROVE  /\ Home(f) \ Away \subseteq Named(ips)
         /\ Named(ips) \subseteq Home(f) \cup Named(AnswerWithout(Letter[f], Away))
         /\ \A a, b \in Named(ips) \ Home(f) : a = b
         /\ \A a, b \in (Home(f) \cup Named(AnswerWithout(Letter[f], Away))) \ Home(f) :
              a \in Named(ips) => a = b
  <1>1. Letter[f] \in Int /\ f \in File
    BY DEF StoreAssumption
  <1>2. CASE ips = AnswerWithout(Letter[f], {})
    BY <1>2 DEF Home
  <1>3. CASE ips = AnswerWithout(Letter[f], Away) /\ Away # {}
    <2>1. PICK m \in Node : Away = {m}
      BY <1>3, AwayIsOne
    <2>2. HashOctet(Letter[f], Node \ {m}) = HashOctet(Letter[f], Node) /\ N >= 4 /\ Ascending
      BY DEF OneFailure
    <2>3. END \notin Named(AnswerWithout(Letter[f], {m}))
      BY <1>3, <2>1 DEF Current
    <2>4. /\ Home(f) \ {m} \subseteq Named(AnswerWithout(Letter[f], {m}))
          /\ \A a, b \in Named(AnswerWithout(Letter[f], {m})) \ Home(f) : a = b
      BY <1>1, <2>2, <2>3, AnswerAfterFailure DEF Home
    <2> QED BY <1>3, <2>1, <2>4
  <1> QED BY <1>2, <1>3 DEF Current

\* u is what t is, but for the stage of its upload.
Akin(t, u) ==
  /\ u.ips = t.ips /\ u.cmd = t.cmd /\ u.j = t.j /\ u.file = t.file /\ u.spoilt = t.spoilt
  /\ u.pc = t.pc \/ (u.pc \in Uploading \ {"cut"} /\ t.pc \in Uploading)

\* A thread that stays akin to what it was stays honest.
LEMMA AkinHonest ==
  ASSUME NEW th, NEW t, NEW u, NEW away, Akin(t, u), Honest(th, t, away)
  PROVE  Honest(th, u, away)
  <1>1. CASE Rests(t)
    BY <1>1 DEF Rests, Akin, Honest, Uploading
  <1>2. CASE th[2] = "user" /\ Lists(t)
    BY <1>2 DEF Lists, Akin, Honest, Uploading
  <1>3. CASE th[2] = "monitor" /\ Tends(th[1], t, away)
    <2>1. Tends(th[1], u, away)
      BY <1>3 DEF Tends, Akin, Uploading
    <2> QED BY <1>3, <2>1 DEF Honest
  <1> QED BY <1>1, <1>2, <1>3 DEF Honest

\* An idle thread is at rest, and one that waits for ever.
LEMMA Resting == Rests(Idle) /\ Rests(Stuck)
  BY DEF Rests, Idle, Stuck

\* The threads of a step that are akin to what they were, at rest, or honest.
LEMMA HonestOn ==
  ASSUME AllHonest, up' = up,
         \A w \in Thread : \/ Akin(task[w], task'[w])
                           \/ task'[w] \in {Idle, Stuck}
                           \/ Honest(w, task'[w], Away)
  PROVE  AllHonest'
  <1>1. Away' = Away
    BY DEF Away
  <1> SUFFICES ASSUME NEW w \in Thread PROVE Honest(w, task'[w], Away)
    BY <1>1 DEF AllHonest
  <1>2. Honest(w, task[w], Away)
    BY DEF AllHonest
  <1> QED BY <1>2, AkinHonest, Resting DEF Honest

\* A monitor that is not at rest deals with one of the files.
LEMMA TendedFile ==
  ASSUME Threads, AllHonest, NEW n \in Node, ~Rests(task[<<n, "monitor">>])
  PROVE  task[<<n, "monitor">>].file \in File
  <1> DEFINE th == <<n, "monitor">>
             t == task[th]
  <1>1. th \in Thread /\ th[1] = n /\ th[2] = "monitor"
    BY DEF Thread
  <1>2. t \in Tasks /\ Honest(th, t, Away)
    BY <1>1 DEF Threads, AllHonest
  <1>3. Tends(n, t, Away)
    BY <1>1, <1>2 DEF Honest
  <1> HIDE DEF t
  <1>4. t.file \in File
    BY <1>2, <1>3 DEF Tends, Tasks, Asking, Pc, Uploading
  <1> QED BY <1>4 DEF t

(* The monitors of a step in which no copy goes and no listing gets longer *)
(* hold what they held.                                                    *)
LEMMA HoldOn ==
  ASSUME IInv, AllHonest, AllHold,
         \A n \in Node, g \in File : Present(n, g) => Present(n, g)',
         \A n \in Node : listing'[n] \subseteq listing[n],
         \A n \in Node : \/ Akin(task[<<n, "monitor">>], task'[<<n, "monitor">>])
                         \/ task'[<<n, "monitor">>] \in {Idle, Stuck}
                         \/ Holds(n)'
  PROVE  AllHold'
  <1> SUFFICES ASSUME NEW n \in Node
               PROVE  Holds(n)' /\ \A g \in listing'[n] : Present(n, g)'
    BY DEF AllHold
  <1> DEFINE s == task[<<n, "monitor">>]
             u == task'[<<n, "monitor">>]
  <1>1. Holds(n) /\ listing[n] \subseteq File /\ \A g \in listing[n] : Present(n, g)
    BY DEF AllHold, IInv, Listings
  <1>2. \A g \in listing'[n] : Present(n, g)'
    BY <1>1
  <1>3. Akin(s, u) => Holds(n)'
    <2> SUFFICES ASSUME Akin(s, u) PROVE Holds(n)'
      OBVIOUS
    <2>1. Rests(s) \/ (s.file \in File /\ Present(n, s.file) /\ s.file \notin listing[n])
      BY <1>1, TendedFile DEF Holds, IInv
    <2>2. PICK g : g = s.file
      OBVIOUS
    <2> HIDE DEF s, u
    <2>3. u.file = g /\ (Rests(s) => Rests(u))
      BY <2>2 DEF Akin, Rests, Uploading
    <2>4. Rests(u) \/ (Present(n, g)' /\ g \notin listing'[n])
      BY <2>1, <2>2, <2>3
    <2> QED BY <2>3, <2>4 DEF Holds, u
  <1>4. u \in {Idle, Stuck} => Holds(n)'
    BY Resting DEF Holds
  <1> QED BY <1>2, <1>3, <1>4

\* Copies that were there before are where they belong.
LEMMA PlaceKept ==
  ASSUME InPlace, up' = up,
         \A n \in Node, g \in File : Present(n, g)' => Present(n, g)
  PROVE  InPlace'
  <1>1. Away' = Away
    BY DEF Away
  <1> QED BY <1>1 DEF InPlace

(* What fopen() and unlink() do to the uploads that are under way: a node  *)
(* where a file is written is none of those that send it.                  *)
LEMMA ReopenedAkin ==
  ASSUME Threads, AllHonest, NEW x \in Node, NEW g \in File, NEW w \in Thread
  PROVE  /\ x \notin Home(g) => Akin(task[w], Reopened(x, g)[w])
         /\ Akin(task[w], Unlinked(x, g)[w])
  <1> DEFINE t == task[w]
             emptied == /\ w = <<x, "monitor">> /\ t.file = g
                        /\ t.pc \in {"sending", "overrun", "cut", "orphan"}
             b == t.spoilt \/ emptied
             pc == IF w \in Writers(x, g) THEN "overrun" ELSE t.pc
  <1>1. t \in Tasks /\ Honest(w, t, Away)
    BY DEF Threads, AllHonest
  <1>2. w \in Writers(x, g) => t.pc \in Uploading
    BY DEF Writers, Uploading
  <1>3. Akin(t, Unlinked(x, g)[w])
    BY <1>1, <1>2 DEF Unlinked, Akin, Tasks, Uploading
  <1>4. x \notin Home(g) => ~emptied
    <2> HIDE DEF t
    <2> QED BY <1>1 DEF Honest, Tends, Rests, Lists, Uploading
  <1>5. Reopened(x, g)[w] = [t EXCEPT !.pc = pc, !.spoilt = b]
    BY DEF Reopened
  <1>6. x \notin Home(g) => b = t.spoilt
    <2> HIDE DEF t, emptied
    <2> QED BY <1>1, <1>4 DEF Tasks
  <1> HIDE DEF emptied, b, t
  <1>7. ASSUME b = t.spoilt PROVE Akin(t, [t EXCEPT !.pc = pc, !.spoilt = b])
    <2> DEFINE u == [t EXCEPT !.pc = pc, !.spoilt = b]
    <2>1. /\ u.ips = t.ips /\ u.cmd = t.cmd /\ u.j = t.j /\ u.file = t.file
          /\ u.spoilt = b /\ u.pc = pc
      BY <1>1 DEF Tasks
    <2> HIDE DEF u
    <2>2. Akin(t, u)
      BY <1>2, <1>7, <2>1 DEF Akin, Uploading
    <2> QED BY <2>2 DEF u
  <1> QED BY <1>3, <1>5, <1>6, <1>7 DEF t

\* So does a thread that is through with one address.
LEMMA OnwardsHonest ==
  ASSUME NEW th, NEW t \in Tasks, NEW away, t.pc \in Asking, Honest(th, t, away)
  PROVE  /\ Honest(th, Onwards(t), away)
         /\ Onwards(t) = Idle \/ Onwards(t).file = t.file
  <1>1. \/ th[2] = "user" /\ t.cmd = "ls"
        \/ /\ th[2] = "monitor" /\ t.cmd = "monitor" /\ ~t.spoilt
           /\ Current(t.file, t.ips, away)
    <2>1. ~Rests(t)
      BY DEF Rests, Asking
    <2> QED BY <2>1 DEF Honest, Lists, Tends, Tasks
  <1>2. CASE t.j < 3
    <2> DEFINE u == [t EXCEPT !.j = @ + 1, !.pc = FirstPc(t.cmd), !.spoilt = FALSE]
    <2>1. Onwards(t) = u
      BY <1>2 DEF Onwards
    <2>2. u.ips = t.ips /\ u.cmd = t.cmd /\ u.file = t.file /\ u.pc = "check" /\ ~u.spoilt
      BY <1>1 DEF Tasks, FirstPc
    <2> HIDE DEF u
    <2> QED BY <1>1, <2>1, <2>2 DEF Honest, Lists, Tends, Uploading
  <1>3. CASE t.j = 3 /\ t.cmd = "monitor" /\ ~t.needed
    <2> DEFINE u == [t EXCEPT !.pc = "discard"]
    <2>1. Onwards(t) = u
      BY <1>3 DEF Onwards, Tasks
    <2>2. /\ u.ips = t.ips /\ u.cmd = t.cmd /\ u.file = t.file /\ u.pc = "discard"
          /\ u.spoilt = t.spoilt
      BY DEF Tasks
    <2> HIDE DEF u
    <2> QED BY <1>1, <1>3, <2>1, <2>2 DEF Honest, Tends, Uploading
  <1>4. CASE ~(t.j < 3) /\ ~(t.j = 3 /\ t.cmd = "monitor" /\ ~t.needed)
    <2>1. Onwards(t) = Idle
      BY <1>4 DEF Onwards
    <2> QED BY <2>1, Resting DEF Honest
  <1> QED BY <1>2, <1>3, <1>4

(* A step of one thread that writes nothing.                               *)
LEMMA OneCalm ==
  ASSUME IInv, Calm, up' = up, disk' = disk, NEW th \in Thread, NEW t,
         task' = [task EXCEPT ![th] = t], Honest(th, t, Away),
         \A n \in Node : listing'[n] \subseteq listing[n],
         \/ th[2] # "monitor" \/ Rests(t)
         \/ Present(th[1], t.file) /\ t.file \notin listing'[th[1]]
  PROVE  Calm'
  <1>1. \A w \in Thread : task'[w] = IF w = th THEN t ELSE task[w]
    BY DEF IInv, Threads
  <1>2. \A w \in Thread : Akin(task[w], task[w])
    BY DEF Akin
  <1>3. AllHonest'
    BY <1>1, <1>2, HonestOn DEF Calm
  <1>4. \A n, g : Present(n, g)' <=> Present(n, g)
    BY DEF Present
  <1>5. AllHold'
    <2> SUFFICES ASSUME NEW n \in Node
                 PROVE  \/ Akin(task[<<n, "monitor">>], task'[<<n, "monitor">>])
                        \/ Holds(n)'
      BY <1>4, HoldOn DEF Calm
    <2>1. <<n, "monitor">> \in Thread
      BY DEF Thread
    <2>2. CASE th = <<n, "monitor">>
      <3>1. th[1] = n /\ th[2] = "monitor" /\ task'[<<n, "monitor">>] = t
        BY <1>1, <2>1, <2>2
      <3> QED BY <1>4, <3>1 DEF Holds
    <2>3. CASE th # <<n, "monitor">>
      BY <1>1, <1>2, <2>1, <2>3
    <2> QED BY <2>2, <2>3
  <1>6. InPlace'
    BY <1>4, PlaceKept DEF Calm
  <1> QED BY <1>3, <1>5, <1>6 DEF Calm

\* The list of a master marks nobody, or the node that is away.
LEMMA ListsSeeOne ==
  ASSUME IInv, OneAway, NEW m \in Node
  PROVE  failed[m] \in SUBSET Node /\ failed[m] \in {{}, Away}
  <1>1. failed[m] \subseteq Away /\ failed[m] \in SUBSET Node
    BY DEF IInv, Views, OneAway
  <1>2. PICK S : S = failed[m]
    OBVIOUS
  <1>3. S \subseteq Away
    BY <1>1, <1>2
  <1>4. S = {} \/ S = Away
    BY <1>3, AwayIsOne
  <1> QED BY <1>1, <1>2, <1>4

\* An answer that is sent from such a list is current.
LEMMA SentIsCurrent ==
  ASSUME StoreAssumption, NEW g, NEW lost \in {{}, Away}, NEW e \in EndReads, NEW ips,
         ips = WhereTo(Letter[g], Node, Node \ lost, e), Answered(ips)
  PROVE  Current(g, ips, Away)
  <1>1. END \notin Named(ips)
    BY DEF Answered, Addresses, Named
  <1>2. ips = AnswerWithout(Letter[g], lost)
    <2>1. CASE e = TRUE
      BY <2>1 DEF AnswerWithout
    <2>2. CASE e = FALSE
      <3>1. ips = WhereTo(Letter[g], Node, Node \ lost, FALSE)
        BY <2>2
      <3>2. END \notin Named(WhereTo(Letter[g], Node, Node \ lost, FALSE))
        BY <1>1, <3>1
      <3> QED BY <3>1, <3>2, SentWithoutEnd DEF AnswerWithout
    <2> QED BY <2>1, <2>2 DEF StoreAssumption
  <1> QED BY <1>1, <1>2 DEF Current

(* A request to the master: its list marks nobody but the node that is     *)
(* away, so that there is a divisor, and an answer that is sent is current.*)
LEMMA AskCalm ==
  ASSUME StoreAssumption, OneFailure, IInv, OneAway, Calm,
         NEW th \in Thread, th[1] \in up, NEW cmd, NEW g \in File, NEW v,
         Ask(th, cmd, g, v), disk' = disk,
         \/ th[2] = "user" /\ cmd = "ls"
         \/ /\ th[2] = "monitor" /\ cmd = "monitor" /\ g \in listing[th[1]]
  PROVE  Calm' /\ up' = up
  <1> DEFINE n == th[1]
             m == master[n]
             rest == IF th[2] = "monitor" THEN listing[n] \ {g} ELSE listing[n]
             waits == [task EXCEPT ![th] = Stuck]
             asks(ips) ==
               [task EXCEPT ![th] = [pc |-> FirstPc(cmd), cmd |-> cmd, file |-> g, ips |-> ips,
                                     j |-> 1, ver |-> v, needed |-> FALSE, spoilt |-> FALSE]]
  <1> USE DEF IInv
  <1>1. n \in Node /\ m \in Node /\ failed[m] \in SUBSET Node /\ failed[m] \in {{}, Away}
    BY ListsSeeOne DEF Thread, Views
  <1>2. Divisor(Node \ failed[m]) # 0
    <2>1. IsFiniteSet(Node) /\ Cardinality(Node) = N /\ N \in Nat /\ N >= 4
      BY PlacementAssumption, FS_Interval DEF Node, OneFailure
    <2>2. CASE failed[m] = {}
      <3>1. Node \ failed[m] = Node
        BY <2>2
      <3>2. Cardinality(Node \ failed[m]) = N
        BY <2>1, <3>1
      <3> QED BY <2>1, <3>2 DEF Divisor
    <2>3. CASE \E k \in Node : failed[m] = {k}
      <3>1. PICK k \in Node : failed[m] = {k}
        BY <2>3
      <3>2. Cardinality(Node \ {k}) = N - 1
        BY <2>1, FS_RemoveElement
      <3>3. Cardinality(Node \ failed[m]) = N - 1
        BY <3>1, <3>2
      <3> QED BY <2>1, <3>3 DEF Divisor
    <2> QED BY <1>1, <2>2, <2>3, AwayIsOne
  <1>3. /\ \/ task' = waits
           \/ \E e \in EndReads : LET ips == Answers[g][failed[m]][e]
                                  IN  task' = IF Answered(ips) THEN asks(ips) ELSE waits
        /\ listing' = [listing EXCEPT ![n] = rest] /\ up' = up
    BY <1>2 DEF Ask, OneFailure, processes
  <1>4. \A k \in Node : listing'[k] \subseteq listing[k]
    BY <1>1, <1>3 DEF Listings
  <1>5. CASE task' = waits
    <2>1. Honest(th, Stuck, Away) /\ Rests(Stuck)
      BY Resting DEF Honest
    <2> QED BY <1>3, <1>4, <1>5, <2>1, OneCalm
  <1>6. ASSUME NEW e \in EndReads, Answered(Answers[g][failed[m]][e]),
               task' = asks(Answers[g][failed[m]][e])
        PROVE  Calm'
    <2> DEFINE ips == Answers[g][failed[m]][e]
               t == [pc |-> FirstPc(cmd), cmd |-> cmd, file |-> g, ips |-> ips, j |-> 1,
                     ver |-> v, needed |-> FALSE, spoilt |-> FALSE]
    <2>1. ips = WhereTo(Letter[g], Node, Node \ failed[m], e)
      <3>1. e \in BOOLEAN
        BY DEF StoreAssumption
      <3> QED BY <1>1, <1>2, <3>1 DEF Answers
    <2>2. Current(g, ips, Away)
      <3> HIDE DEF ips
      <3>1. Answered(ips)
        BY <1>6 DEF ips
      <3> QED BY <1>1, <2>1, <3>1, SentIsCurrent
    <2>3. task' = [task EXCEPT ![th] = t]
      BY <1>6
    <2> HIDE DEF ips
    <2>4. t.pc = "check" /\ t.cmd = cmd /\ t.ips = ips /\ t.file = g /\ ~t.spoilt
      BY DEF FirstPc
    <2> HIDE DEF t
    <2>5. Honest(th, t, Away)
      BY <2>2, <2>4 DEF Honest, Lists, Tends, Uploading
    <2>6. \/ th[2] # "monitor"
          \/ Present(n, t.file) /\ t.file \notin listing'[n]
      BY <1>1, <1>3, <2>4 DEF Calm, AllHold, Listings
    <2> QED BY <1>3, <1>4, <2>3, <2>5, <2>6, OneCalm
  <1> HIDE DEF waits
  <1> QED BY <1>3, <1>5, <1>6

(* What a monitor that deals with a file knows of it.                      *)
LEMMA MonitorHas ==
  ASSUME IInv, Calm, NEW n \in Node, ~Rests(task[<<n, "monitor">>])
  PROVE  LET t == task[<<n, "monitor">>]
         IN  /\ Present(n, t.file) /\ t.file \notin listing[n] /\ Tends(n, t, Away)
             /\ t.file \in Before
             /\ n \in Home(t.file) \cup Named(AnswerWithout(Letter[t.file], Away))
  <1> DEFINE th == <<n, "monitor">>
             t == task[th]
  <1>1. th \in Thread /\ th[1] = n /\ th[2] = "monitor"
    BY DEF Thread
  <1>2. Honest(th, t, Away)
    BY <1>1 DEF Calm, AllHonest
  <1>3. Tends(n, t, Away)
    BY <1>1, <1>2 DEF Honest
  <1>4. Present(n, t.file) /\ t.file \notin listing[n]
    BY DEF Calm, AllHold, Holds
  <1>5. t.file \in File
    <2>1. t \in Tasks
      BY <1>1 DEF IInv, Threads
    <2> QED BY <1>3, <2>1 DEF Tends, Tasks, Asking, Pc, Uploading
  <1> QED BY <1>3, <1>4, <1>5 DEF Calm, InPlace

(* Whoever is told "NO" by a running node asks one where the file was not  *)
(* put; and as it has the file, and the answer names one such node only,   *)
(* it is itself one where the file was put.                                *)
LEMMA CheckCalm ==
  ASSUME StoreAssumption, OneFailure, IInv, OneAway, Calm, Intact,
         NEW th \in Thread, Check(th)
  PROVE  Calm' /\ up' = up
  <1> DEFINE t == task[th]
             n == th[1]
             x == Target(th)
             u == Recognised(th)
             b == t.needed \/ (t.cmd = "monitor" /\ Target(th) = th[1])
             r == [u EXCEPT !.pc = "send"]
             found == CASE t.cmd = "monitor" -> Onwards(u)
                        [] t.cmd = "get" -> [t EXCEPT !.pc = "fetch"]
                        [] t.cmd = "ls" -> Idle
             absent == IF t.cmd = "monitor" THEN r ELSE Onwards(t)
             next == CASE x \notin up -> Stuck
                       [] x \in up /\ Present(x, t.file) -> found
                       [] OTHER -> absent
  <1> USE DEF IInv
  <1>1. task' = [task EXCEPT ![th] = next] /\ up' = up /\ disk' = disk /\ listing' = listing
    BY DEF Check, processes, files
  <1>2. t.pc = "check" /\ t.pc \in Asking /\ t \in Tasks /\ Honest(th, t, Away) /\ n \in Node
    BY DEF Check, Threads, Asking, Pc, Calm, AllHonest, Thread
  <1>3. t.ips \in [1..3 -> Node] /\ t.j \in 1..3 /\ x = t.ips[t.j] /\ x \in Node
    BY <1>2, TargetIsNode DEF Tasks, Target
  <1>4. /\ u.pc = t.pc /\ u.cmd = t.cmd /\ u.ips = t.ips /\ u.j = t.j /\ u.file = t.file
        /\ u.spoilt = t.spoilt /\ u \in Tasks
    <2>1. u = [t EXCEPT !.needed = b] /\ b \in BOOLEAN
      BY DEF Recognised
    <2> HIDE DEF u, b, t
    <2> QED BY <1>2, <2>1 DEF Tasks
  <1>5. /\ r.cmd = t.cmd /\ r.ips = t.ips /\ r.j = t.j /\ r.file = t.file /\ r.pc = "send"
        /\ r.spoilt = t.spoilt
    <2> HIDE DEF u
    <2> QED BY <1>4 DEF Tasks
  <1> HIDE DEF u, r
  <1>6. Honest(th, u, Away)
    <2>1. Akin(t, u)
      BY <1>4 DEF Akin
    <2> QED BY <1>2, <2>1, AkinHonest
  <1>7. /\ Honest(th, Onwards(t), Away) /\ (Onwards(t) = Idle \/ Onwards(t).file = t.file)
        /\ Honest(th, Onwards(u), Away) /\ (Onwards(u) = Idle \/ Onwards(u).file = t.file)
    <2> HIDE DEF t
    <2> QED BY <1>2, <1>4, <1>6, OnwardsHonest
  <1>8. Honest(th, Stuck, Away) /\ Honest(th, Idle, Away)
    BY Resting DEF Honest
  <1>9. CASE th[2] # "monitor"
    <2>1. t.cmd = "ls"
      <3> HIDE DEF t
      <3> QED BY <1>2, <1>9 DEF Honest, Rests, Lists
    <2>2. next \in {Stuck, Idle, Onwards(t)}
      <3> HIDE DEF t, x
      <3> QED BY <2>1
    <2> HIDE DEF next, t
    <2>3. Honest(th, next, Away)
      BY <1>7, <1>8, <2>2
    <2> QED BY <1>1, <1>9, <2>3, OneCalm
  <1>10. CASE th[2] = "monitor"
    <2>1. th = <<n, "monitor">>
      BY <1>10 DEF Thread
    <2>2. ~Rests(t)
      BY <1>2 DEF Rests
    <2>3. /\ Present(n, t.file) /\ t.file \notin listing[n] /\ Tends(n, t, Away)
          /\ t.file \in Before
          /\ n \in Home(t.file) \cup Named(AnswerWithout(Letter[t.file], Away))
      BY <1>2, <2>1, <2>2, MonitorHas
    <2> DEFINE f == t.file
    <2>4. t.cmd = "monitor" /\ Current(f, t.ips, Away) /\ ~t.spoilt
      BY <2>3 DEF Tends
    <2>5. x \in up /\ ~Present(x, f) => x \notin Home(f) \cup Away /\ n \in Home(f)
      <3> SUFFICES ASSUME x \in up, ~Present(x, f)
                   PROVE  x \notin Home(f) \cup Away /\ n \in Home(f)
        OBVIOUS
      <3>1. x \notin Home(f)
        <4>1. \A h \in Home(f) \cap Node : Present(h, f)
          BY <2>3 DEF Intact, Kept, Present
        <4> QED BY <1>3, <4>1
      <3>2. x \in Named(t.ips)
        BY <1>3 DEF Named
      <3>3. x # n
        BY <2>3
      <3> HIDE DEF t, x, f
      <3>4. f \in Before /\ n \in Home(f) \cup Named(AnswerWithout(Letter[f], Away))
        BY <2>3 DEF f
      <3>5. /\ Named(t.ips) \subseteq Home(f) \cup Named(AnswerWithout(Letter[f], Away))
            /\ \A p, q \in (Home(f) \cup Named(AnswerWithout(Letter[f], Away))) \ Home(f) :
                 p \in Named(t.ips) => p = q
        BY <2>4, <3>4, CurrentNames
      <3>6. n \in Home(f)
        BY <3>1, <3>2, <3>3, <3>4, <3>5
      <3> QED BY <3>1, <3>6 DEF Away
    <2>6. x \in up /\ ~Present(x, f) => Honest(th, r, Away)
      <3> HIDE DEF t
      <3> QED BY <1>3, <1>5, <1>10, <2>4, <2>5 DEF Honest, Tends, Uploading
    <2>7. Honest(th, next, Away) /\ (Rests(next) \/ next.file = f)
      <3>1. CASE x \notin up
        BY <1>8, <3>1, Resting
      <3>2. CASE x \in up /\ Present(x, f)
        <4>1. next = Onwards(u)
          BY <2>4, <3>2
        <4> QED BY <1>7, <4>1, Resting
      <3>3. CASE x \in up /\ ~Present(x, f)
        <4>1. next = r
          BY <2>4, <3>3
        <4> QED BY <1>5, <2>6, <3>3, <4>1
      <3> QED BY <3>1, <3>2, <3>3
    <2>8. \/ Rests(next)
          \/ Present(n, next.file) /\ next.file \notin listing'[n]
      <3>1. Present(n, f) /\ f \notin listing[n]
        BY <2>3
      <3> HIDE DEF next, f
      <3> QED BY <1>1, <2>7, <3>1 DEF f
    <2> HIDE DEF next
    <2> QED BY <1>1, <2>7, <2>8, OneCalm
  <1> QED BY <1>1, <1>9, <1>10

\* Only monitors upload, and nobody receives who is not there.
LEMMA Uploader ==
  ASSUME StoreAssumption, OneFailure, IInv, OneAway, Calm,
         NEW th \in Thread, task[th].pc \in Uploading
  PROVE  LET t == task[th]
             n == th[1]
             x == Target(th)
         IN  /\ n \in Node /\ th = <<n, "monitor">> /\ t \in Tasks /\ t.pc \in Asking
             /\ t.cmd = "monitor" /\ ~t.spoilt /\ t.pc # "cut"
             /\ Present(n, t.file) /\ t.file \notin listing[n]
             /\ t.file \in Before /\ t.file \in File
             /\ x = t.ips[t.j] /\ x \in up /\ x \notin Home(t.file) /\ n \in Home(t.file)
             /\ x \in Named(AnswerWithout(Letter[t.file], Away))
  <1> DEFINE t == task[th]
             n == th[1]
             x == Target(th)
             f == t.file
  <1>1. t \in Tasks /\ Honest(th, t, Away) /\ n \in Node
    BY DEF IInv, Threads, Calm, AllHonest, Thread
  <1>2. t.pc \in Asking /\ ~Rests(t) /\ th[2] = "monitor"
    <2> HIDE DEF t
    <2>1. t.pc \in Uploading
      BY DEF t
    <2> QED BY <1>1, <2>1 DEF Honest, Rests, Lists, Uploading, Asking, Pc
  <1>3. th = <<n, "monitor">>
    BY <1>2 DEF Thread
  <1>4. /\ Present(n, f) /\ f \notin listing[n] /\ Tends(n, t, Away) /\ f \in Before
    BY <1>1, <1>2, <1>3, MonitorHas
  <1>5. x \in Node /\ x = t.ips[t.j] /\ t.ips \in [1..3 -> Node] /\ t.j \in 1..3 /\ f \in File
    BY <1>1, <1>2, TargetIsNode DEF IInv, Tasks, Target
  <1>6. /\ t.cmd = "monitor" /\ ~t.spoilt /\ t.pc # "cut" /\ Current(f, t.ips, Away)
        /\ n \in Home(f) /\ x \notin Home(f) \cup Away
    <2> HIDE DEF t
    <2>1. t.pc \in Uploading
      BY DEF t
    <2> QED BY <1>4, <1>5, <2>1 DEF Tends, Uploading
  <1>7. x \in Named(t.ips)
    BY <1>5 DEF Named
  <1> HIDE DEF f, t, x
  <1>8. Named(t.ips) \subseteq Home(f) \cup Named(AnswerWithout(Letter[f], Away))
    BY <1>4, <1>6, CurrentNames
  <1>9. x \in up
    BY <1>5, <1>6 DEF Away
  <1> QED BY <1>1, <1>2, <1>3, <1>4, <1>5, <1>6, <1>7, <1>8, <1>9 DEF f, t, x

(* The file to send is there and the target runs, so that nobody exits;    *)
(* and as nobody uploads from the target, no source is emptied.            *)
LEMMA SendStartCalm ==
  ASSUME StoreAssumption, OneFailure, IInv, OneAway, Calm, NEW th \in Thread, SendStart(th)
  PROVE  Calm' /\ up' = up
  <1> DEFINE t == task[th]
             n == th[1]
             x == Target(th)
             f == t.file
             v == IF t.cmd = "monitor" THEN Reading(n, t.file) ELSE t.ver
             u == [t EXCEPT !.pc = "sending", !.ver = v,
                            !.spoilt = t.cmd = "monitor" /\ x = n]
             c == {Part(v)} \cup Emptied(x, f)
  <1> USE DEF IInv
  <1>1. t.pc = "send" /\ t.pc \in Uploading
    BY DEF SendStart, Uploading
  <1>2. /\ n \in Node /\ th = <<n, "monitor">> /\ t \in Tasks
        /\ t.cmd = "monitor" /\ ~t.spoilt /\ Present(n, f) /\ f \notin listing[n]
        /\ f \in Before /\ f \in File /\ x \in up /\ x \notin Home(f) /\ n \in Home(f)
        /\ x \in Named(AnswerWithout(Letter[f], Away))
    BY <1>1, Uploader
  <1>3. /\ disk' = [disk EXCEPT ![x][f] = c]
        /\ task' = [Reopened(x, f) EXCEPT ![th] = u]
        /\ UNCHANGED <<processes, listing>>
    BY <1>2 DEF SendStart
  <1>4. up' = up /\ listing' = listing /\ c # {} /\ x \in Node
    BY <1>2, <1>3 DEF processes, Running
  <1>5. Akin(t, u)
    <2> DEFINE s == t.cmd = "monitor" /\ x = n
    <2>1. s = FALSE
      BY <1>2
    <2> HIDE DEF v, s, t, f, x
    <2>2. /\ u.ips = t.ips /\ u.cmd = t.cmd /\ u.j = t.j /\ u.file = t.file
          /\ u.spoilt = s /\ u.pc = "sending"
      BY <1>2 DEF Tasks, s
    <2>3. u.spoilt = t.spoilt
      BY <1>2, <2>1, <2>2 DEF Tasks
    <2> HIDE DEF u
    <2> QED BY <1>1, <2>2, <2>3 DEF Akin, Uploading
  <1> HIDE DEF u, f, x, c
  <1>6. \A w \in Thread : Akin(task[w], task'[w])
    <2> SUFFICES ASSUME NEW w \in Thread PROVE Akin(task[w], task'[w])
      OBVIOUS
    <2>1. task'[w] = IF w = th THEN u ELSE Reopened(x, f)[w]
      BY <1>2, <1>3, <1>4, ReopenedTasks
    <2>2. Akin(task[w], Reopened(x, f)[w])
      BY <1>2, <1>4, ReopenedAkin DEF Calm
    <2> QED BY <1>5, <2>1, <2>2
  <1>7. AllHonest'
    BY <1>4, <1>6, HonestOn DEF Calm
  <1>8. \A k \in Node, g \in File :
          Present(k, g)' <=> Present(k, g) \/ (k = x /\ g = f)
    BY <1>2, <1>3, <1>4 DEF Present, Copies
  <1>9. AllHold'
    <2>1. \A k \in Node : <<k, "monitor">> \in Thread
      BY DEF Thread
    <2> QED BY <1>4, <1>6, <1>8, <2>1, HoldOn DEF Calm
  <1>10. InPlace'
    <2>1. Away' = Away
      BY <1>4 DEF Away
    <2>2. ASSUME NEW k \in Node, NEW g \in File, Present(k, g)'
          PROVE  /\ g \in Before
                 /\ k \in Home(g) \cup Named(AnswerWithout(Letter[g], Away))
      <3>1. CASE Present(k, g)
        BY <3>1 DEF Calm, InPlace
      <3>2. CASE k = x /\ g = f
        BY <1>2, <3>2
      <3> QED BY <1>8, <2>2, <3>1, <3>2
    <2> QED BY <2>1, <2>2 DEF InPlace
  <1> QED BY <1>4, <1>7, <1>9, <1>10 DEF Calm

(* The copy that an upload ends in lies where the answer put it, and the   *)
(* monitor goes on.                                                        *)
LEMMA SendEndCalm ==
  ASSUME StoreAssumption, OneFailure, IInv, OneAway, Calm, NEW th \in Thread, SendEnd(th)
  PROVE  Calm' /\ up' = up /\ stored' = stored
  <1> DEFINE t == task[th]
             n == th[1]
             x == Target(th)
             f == t.file
  <1> USE DEF IInv
  <1>1. t.pc \in Uploading
    BY DEF SendEnd, Uploading
  <1>2. /\ n \in Node /\ th = <<n, "monitor">> /\ t \in Tasks /\ t.pc \in Asking
        /\ t.cmd = "monitor" /\ ~t.spoilt /\ t.pc # "cut"
        /\ Present(n, f) /\ f \notin listing[n]
        /\ f \in Before /\ f \in File /\ x \in up
        /\ x \in Named(AnswerWithout(Letter[f], Away))
    BY <1>1, Uploader
  <1>3. /\ disk' = disk \/ \E v : disk' = [disk EXCEPT ![x][f] = @ \cup {v}]
        /\ task' = [task EXCEPT ![th] = Onwards(t)]
        /\ UNCHANGED <<processes, listing, stored>>
    BY <1>2 DEF SendEnd
  <1>4. up' = up /\ listing' = listing /\ stored' = stored /\ x \in Node
    BY <1>2, <1>3 DEF processes, Running
  <1>5. /\ Honest(th, Onwards(t), Away)
        /\ Onwards(t) = Idle \/ Onwards(t).file = f
    <2>1. Honest(th, t, Away)
      BY DEF Calm, AllHonest
    <2> HIDE DEF t
    <2> QED BY <1>2, <2>1, OnwardsHonest
  <1> HIDE DEF f, x, t
  <1>6. \A w \in Thread : task'[w] = IF w = th THEN Onwards(t) ELSE task[w]
    BY <1>3 DEF Threads
  <1>7. \A k \in Node, g \in File : Present(k, g) => Present(k, g)'
    <2>1. CASE disk' = disk
      BY <2>1 DEF Present
    <2>2. ASSUME NEW v, disk' = [disk EXCEPT ![x][f] = @ \cup {v}]
          PROVE  \A k \in Node, g \in File : disk[k][g] \subseteq disk'[k][g]
      BY <1>2, <1>4, <2>2 DEF Copies
    <2> QED BY <1>3, <2>1, <2>2 DEF Present
  <1>8. \A k \in Node, g \in File : Present(k, g)' => Present(k, g) \/ (k = x /\ g = f)
    <2>1. CASE disk' = disk
      BY <2>1 DEF Present
    <2>2. ASSUME NEW v, disk' = [disk EXCEPT ![x][f] = @ \cup {v}]
          PROVE  \A k \in Node, g \in File :
                   disk'[k][g] = disk[k][g] \/ (k = x /\ g = f)
      BY <1>2, <1>4, <2>2 DEF Copies
    <2> QED BY <1>3, <2>1, <2>2 DEF Present
  <1>9. \A w \in Thread : Akin(task[w], task[w])
    BY DEF Akin
  <1>10. AllHonest'
    BY <1>4, <1>5, <1>6, <1>9, HonestOn DEF Calm
  <1>11. AllHold'
    <2> SUFFICES ASSUME NEW k \in Node
                 PROVE  \/ Akin(task[<<k, "monitor">>], task'[<<k, "monitor">>])
                        \/ task'[<<k, "monitor">>] \in {Idle, Stuck}
                        \/ Holds(k)'
      BY <1>4, <1>7, HoldOn DEF Calm
    <2>1. <<k, "monitor">> \in Thread
      BY DEF Thread
    <2>2. CASE k # n
      BY <1>2, <1>6, <1>9, <2>1, <2>2
    <2>3. CASE k = n /\ Onwards(t) # Idle
      <3>1. task'[<<n, "monitor">>].file = f
        BY <1>2, <1>5, <1>6, <2>3
      <3>2. PICK g : g = f
        OBVIOUS
      <3>3. Present(n, g)' /\ g \notin listing'[n]
        BY <1>2, <1>4, <1>7, <3>2
      <3>4. Holds(n)'
        BY <3>1, <3>2, <3>3 DEF Holds
      <3> QED BY <2>3, <3>4
    <2>4. CASE k = n /\ Onwards(t) = Idle
      BY <1>2, <1>6, <2>1, <2>4
    <2> QED BY <2>2, <2>3, <2>4
  <1>12. InPlace'
    <2>1. Away' = Away
      BY <1>4 DEF Away
    <2>2. ASSUME NEW k \in Node, NEW g \in File, Present(k, g)'
          PROVE  /\ g \in Before
                 /\ k \in Home(g) \cup Named(AnswerWithout(Letter[g], Away))
      <3>1. CASE Present(k, g)
        BY <3>1 DEF Calm, InPlace
      <3>2. CASE k = x /\ g = f
        BY <1>2, <3>2
      <3> QED BY <1>8, <2>2, <3>1, <3>2
    <2> QED BY <2>1, <2>2 DEF InPlace
  <1> QED BY <1>4, <1>10, <1>11, <1>12 DEF Calm

(* A monitor that removes its copy is through with it; the uploads to it   *)
(* go on into the removed file.                                            *)
LEMMA DiscardCalm ==
  ASSUME StoreAssumption, OneFailure, IInv, OneAway, Calm, NEW n \in Node, Discard(n)
  PROVE  Calm' /\ up' = up
  <1> DEFINE th == <<n, "monitor">>
             t == task[th]
             f == t.file
  <1> USE DEF IInv
  <1>1. /\ t.pc = "discard" /\ disk' = [disk EXCEPT ![n][f] = {}]
        /\ task' = [Unlinked(n, f) EXCEPT ![th] = Idle]
        /\ up' = up /\ listing' = listing
    BY DEF Discard, processes
  <1>2. th \in Thread /\ ~Rests(t)
    BY <1>1 DEF Rests, Thread
  <1>3. f \in Before /\ f \notin listing[n]
    BY <1>2, MonitorHas
  <1>4. PICK h \in File : h = f
    BY <1>3 DEF StoreAssumption
  <1> HIDE DEF t, f
  <1>5. \A w \in Thread : Akin(task[w], Unlinked(n, h)[w])
    BY <1>4, ReopenedAkin DEF Calm
  <1>6. \A w \in Thread : task'[w] = IF w = th THEN Idle ELSE Unlinked(n, h)[w]
    BY <1>1, <1>4, ReopenedTasks
  <1>7. AllHonest'
    BY <1>1, <1>5, <1>6, HonestOn DEF Calm
  <1>8. \A k \in Node, g \in File :
          ~(k = n /\ g = h) => (Present(k, g)' <=> Present(k, g))
    BY <1>1, <1>4 DEF Present, Copies
  <1>9. ~Present(n, h)'
    BY <1>1, <1>4 DEF Present, Copies
  <1>10. InPlace'
    <2>1. \A k \in Node, g \in File : Present(k, g)' => Present(k, g)
      BY <1>8, <1>9
    <2> QED BY <1>1, <2>1, PlaceKept DEF Calm
  <1>11. AllHold'
    <2> SUFFICES ASSUME NEW k \in Node
                 PROVE  Holds(k)' /\ \A g \in listing'[k] : Present(k, g)'
      BY DEF AllHold
    <2>1. Holds(k) /\ listing[k] \subseteq File /\ \A g \in listing[k] : Present(k, g)
      BY DEF Calm, AllHold, Listings
    <2>2. \A g \in listing'[k] : Present(k, g)'
      BY <1>1, <1>3, <1>4, <1>8, <2>1
    <2>3. CASE k = n
      <3>1. task'[<<k, "monitor">>] = Idle
        BY <1>2, <1>6, <2>3
      <3> QED BY <2>2, <3>1, Resting DEF Holds
    <2>4. CASE k # n
      <3> DEFINE s == task[<<k, "monitor">>]
                 u == task'[<<k, "monitor">>]
      <3>1. <<k, "monitor">> \in Thread /\ <<k, "monitor">> # th
        BY <2>4 DEF Thread
      <3>2. Akin(s, u)
        BY <1>5, <1>6, <3>1
      <3>3. \A g \in File : Present(k, g)' <=> Present(k, g)
        BY <1>8, <2>4
      <3>4. \/ Rests(s)
            \/ Present(k, s.file) /\ s.file \notin listing[k] /\ s.file \in File
        BY <2>1, TendedFile DEF Holds, Calm
      <3> HIDE DEF s, u
      <3>5. Rests(s) => Rests(u)
        BY <3>2 DEF Akin, Rests, Uploading
      <3>6. PICK g : g = s.file
        OBVIOUS
      <3>7. u.file = g
        BY <3>2, <3>6 DEF Akin
      <3>8. Rests(u) \/ (Present(k, g)' /\ g \notin listing'[k])
        BY <1>1, <3>3, <3>4, <3>5, <3>6
      <3>9. Holds(k)'
        BY <3>7, <3>8 DEF Holds, u
      <3> QED BY <2>2, <3>9
    <2> QED BY <2>3, <2>4
  <1> QED BY <1>1, <1>7, <1>10, <1>11 DEF Calm

(* A monitor that starts a round is at rest, and lists what is there.      *)
LEMMA WakeCalm ==
  ASSUME IInv, Calm, NEW n \in Node, Wake(n)
  PROVE  Calm' /\ up' = up
  <1>1. /\ task[<<n, "monitor">>].pc = "idle" /\ task' = task /\ disk' = disk /\ up' = up
        /\ listing' = [listing EXCEPT ![n] = {f \in File : Present(n, f)}]
    BY DEF Wake, processes, files
  <1>2. \A k \in Node, g \in File : Present(k, g)' <=> Present(k, g)
    BY <1>1 DEF Present
  <1>3. \A w \in Thread : Akin(task[w], task'[w])
    BY <1>1 DEF Akin
  <1>4. AllHonest' /\ InPlace'
    BY <1>1, <1>2, <1>3, HonestOn, PlaceKept DEF Calm
  <1>5. Rests(task[<<n, "monitor">>])
    <2>1. <<n, "monitor">> \in Thread /\ <<n, "monitor">>[1] = n /\ <<n, "monitor">>[2] = "monitor"
      BY DEF Thread
    <2>2. \/ Rests(task[<<n, "monitor">>])
          \/ Tends(n, task[<<n, "monitor">>], Away)
      BY <2>1 DEF Calm, AllHonest, Honest
    <2> QED BY <1>1, <2>2 DEF Tends, Uploading
  <1>6. AllHold'
    <2> SUFFICES ASSUME NEW k \in Node
                 PROVE  Holds(k)' /\ \A g \in listing'[k] : Present(k, g)'
      BY DEF AllHold
    <2>1. CASE k = n
      <3>1. listing'[n] = {f \in File : Present(n, f)}
        BY <1>1 DEF IInv, Listings
      <3> QED BY <1>1, <1>2, <1>5, <2>1, <3>1 DEF Holds
    <2>2. CASE k # n
      <3>1. listing'[k] = listing[k]
        BY <1>1, <2>2 DEF IInv, Listings
      <3>2. Holds(k) /\ \A g \in listing[k] : Present(k, g)
        BY DEF Calm, AllHold
      <3> QED BY <1>1, <3>1, <3>2 DEF Holds, Present
    <2> QED BY <2>1, <2>2
  <1> QED BY <1>1, <1>4, <1>6 DEF Calm

(* While all nodes run, answers name none but the nodes where a file was   *)
(* put, and nobody uploads: the failure cuts off no upload.                *)
LEMMA CrashCalm ==
  ASSUME StoreAssumption, OneFailure, IInv, OneAway, Calm, NEW k \in Node, Crash(k)
  PROVE  Calm' /\ OneAway'
  <1> USE DEF IInv
  <1>1. up = Node /\ Away = {} /\ faults.crashes = 0
    <2>1. faults.crashes < MaxCrashes /\ faults.crashes \in Nat
      BY DEF Crash, OneAway
    <2> QED BY <2>1 DEF OneFailure, OneAway, Away
  <1>2. /\ up' = Node \ {k} /\ disk' = disk /\ failed' = failed
        /\ faults' = [faults EXCEPT !.crashes = @ + 1]
        /\ listing' = [listing EXCEPT ![k] = {}]
    BY <1>1 DEF Crash, files, membership
  <1>3. Away' = {k}
    BY <1>2 DEF Away
  <1>4. OneAway'
    <2>1. /\ faults' \in [crashes : Nat, restarts : Nat, mistakes : Nat, lost : Nat]
          /\ faults'.crashes = faults.crashes + 1
      BY <1>2 DEF OneAway
    <2> QED BY <1>1, <1>2, <1>3, <2>1 DEF OneAway
  <1>5. \A w \in Thread : task[w].pc \notin Uploading
    <2> SUFFICES ASSUME NEW w \in Thread, task[w].pc \in Uploading PROVE FALSE
      OBVIOUS
    <2> DEFINE f == task[w].file
               x == Target(w)
    <2>1. x \in Named(AnswerWithout(Letter[f], Away)) /\ x \notin Home(f)
      BY Uploader
    <2> HIDE DEF f, x
    <2> QED BY <1>1, <2>1 DEF Home
  <1>6. \A w \in Thread : task'[w] = IF w[1] = k THEN Idle ELSE task[w]
    <2>1. \A g \in File : Writers(k, g) = {}
      BY <1>5 DEF Writers, Uploading
    <2>2. UNION {Writers(k, g) : g \in File} = {}
      BY <2>1
    <2> DEFINE received == UNION {Writers(k, g) : g \in File}
    <2> HIDE DEF received
    <2>3. task' = [w \in Thread |->
                     CASE w[1] = k -> Idle
                       [] w[1] # k /\ w \in received -> [task[w] EXCEPT !.pc = "cut"]
                       [] OTHER -> task[w]]
      BY DEF Crash, received
    <2>4. received = {}
      BY <2>2 DEF received
    <2> QED BY <2>3, <2>4
  <1>7. AllHonest'
    <2> SUFFICES ASSUME NEW w \in Thread PROVE Honest(w, task'[w], {k})
      BY <1>3 DEF AllHonest
    <2>1. CASE w[1] = k
      <3>1. task'[w] = Idle
        BY <1>6, <2>1
      <3> QED BY <3>1, Resting DEF Honest
    <2>2. CASE w[1] # k
      <3> DEFINE t == task[w]
      <3>1. Honest(w, t, {}) /\ t.pc \notin Uploading /\ task'[w] = t
        BY <1>1, <1>5, <1>6, <2>2 DEF Calm, AllHonest
      <3> HIDE DEF t
      <3>2. Current(t.file, t.ips, {}) => Current(t.file, t.ips, {k})
        BY DEF Current
      <3>3. Tends(w[1], t, {}) => Tends(w[1], t, {k})
        BY <3>1, <3>2 DEF Tends
      <3> QED BY <3>1, <3>3 DEF Honest
    <2> QED BY <2>1, <2>2
  <1>8. InPlace'
    <2> SUFFICES ASSUME NEW n \in Node, NEW g \in File, Present(n, g)'
                 PROVE  /\ g \in Before
                        /\ n \in Home(g) \cup Named(AnswerWithout(Letter[g], {k}))
      BY <1>3 DEF InPlace
    <2>1. Present(n, g)
      BY <1>2 DEF Present
    <2> QED BY <1>1, <2>1 DEF Calm, InPlace, Home
  <1>9. AllHold'
    <2>1. \A n \in Node : listing'[n] \subseteq listing[n]
      BY <1>2 DEF Listings
    <2>2. \A n \in Node, g \in File : Present(n, g) => Present(n, g)'
      BY <1>2 DEF Present
    <2>3. \A n \in Node : \/ Akin(task[<<n, "monitor">>], task'[<<n, "monitor">>])
                          \/ task'[<<n, "monitor">>] \in {Idle, Stuck}
      <3>1. \A n \in Node : <<n, "monitor">> \in Thread
        BY DEF Thread
      <3>2. \A w \in Thread : Akin(task[w], task[w])
        BY DEF Akin
      <3> QED BY <1>6, <3>1, <3>2
    <2> QED BY <2>1, <2>2, <2>3, HoldOn DEF Calm
  <1> QED BY <1>4, <1>7, <1>8, <1>9 DEF Calm

(* Where a file was put it belongs, by every list that a master answers    *)
(* from: the copy is spared as KeptWhereRequired says.                     *)
LEMMA HomesRequired ==
  ASSUME StoreAssumption, OneFailure, IInv, OneAway, NEW f \in Before, NEW n \in Home(f) \cap up
  PROVE  Required(n, f)
  <1> SUFFICES ASSUME NEW m \in {master[k] : k \in up} \cap serving, NEW e \in EndReads,
                      Answered(WhereTo(Letter[f], Node, Node \ failed[m], e))
               PROVE  n \in Addresses(WhereTo(Letter[f], Node, Node \ failed[m], e))
    BY DEF Required
  <1>1. m \in Node
    BY DEF IInv, Running, Views
  <1>2. PICK ips : ips = WhereTo(Letter[f], Node, Node \ failed[m], e)
    OBVIOUS
  <1>3. PICK lost : lost = failed[m] /\ lost \in {{}, Away}
    BY <1>1, ListsSeeOne
  <1>4. ips = WhereTo(Letter[f], Node, Node \ lost, e) /\ Answered(ips)
    BY <1>2, <1>3
  <1>5. Current(f, ips, Away)
    BY <1>3, <1>4, SentIsCurrent
  <1>6. Home(f) \ Away \subseteq Named(ips)
    BY <1>5, CurrentNames
  <1>7. n \in Named(ips)
    BY <1>6 DEF Away
  <1> QED BY <1>2, <1>7 DEF Named, Addresses

\* A step in which no process ends or starts and no flag changes.
LEMMA AwayStays ==
  ASSUME OneAway, up' = up, failed' = failed,
         faults' = faults \/ faults' = [faults EXCEPT !.lost = @ + 1]
  PROVE  OneAway'
  <1>1. /\ faults' \in [crashes : Nat, restarts : Nat, mistakes : Nat, lost : Nat]
        /\ faults'.crashes = faults.crashes
    BY DEF OneAway
  <1> QED BY <1>1 DEF OneAway, Away

(* Every step keeps what the argument rests on.                            *)
LEMMA NextCalm ==
  ASSUME StoreAssumption, OneFailure, IInv, OneAway, Calm, Intact, [Next]_vars
  PROVE  Calm' /\ OneAway' /\ stored' = stored
  <1>1. ASSUME UNCHANGED <<up, disk, listing, task>> PROVE Calm'
    BY <1>1 DEF Calm, AllHonest, AllHold, InPlace, Holds, Present, Away
  <1>2. ASSUME NEW k \in Node, MonitorStep(k) PROVE Calm' /\ OneAway' /\ stored' = stored
    <2> DEFINE th == <<k, "monitor">>
    <2>1. th \in Thread /\ th[2] = "monitor" /\ th[1] = k
      BY DEF Thread
    <2>2. ASSUME NEW g \in File, MonitorAsk(k, g) PROVE Calm' /\ OneAway' /\ stored' = stored
      <3>1. /\ Ask(th, "monitor", g, 0) /\ k \in up /\ g \in listing[k]
            /\ disk' = disk /\ stored' = stored /\ failed' = failed
        BY <2>2 DEF MonitorAsk, files, membership
      <3>2. Calm' /\ up' = up
        BY <2>1, <3>1, AskCalm
      <3>3. faults' = faults \/ faults' = [faults EXCEPT !.lost = @ + 1]
        BY <3>1 DEF Ask, OneFailure
      <3> QED BY <3>1, <3>2, <3>3, AwayStays
    <2>3. CASE Wake(k)
      <3>1. failed' = failed /\ faults' = faults /\ stored' = stored
        BY <2>3 DEF Wake, files, membership
      <3> QED BY <2>3, <3>1, WakeCalm, AwayStays
    <2>4. CASE Check(th)
      <3>1. failed' = failed /\ faults' = faults /\ stored' = stored
        BY <2>4 DEF Check, files, membership
      <3> QED BY <2>1, <2>4, <3>1, CheckCalm, AwayStays
    <2>5. CASE SendStart(th)
      <3>1. failed' = failed /\ faults' = faults /\ stored' = stored
        BY <2>5 DEF SendStart, membership
      <3> QED BY <2>1, <2>5, <3>1, SendStartCalm, AwayStays
    <2>6. CASE SendEnd(th)
      <3>1. failed' = failed /\ faults' = faults
        BY <2>6 DEF SendEnd, membership
      <3> QED BY <2>1, <2>6, <3>1, SendEndCalm, AwayStays
    <2>7. CASE Discard(k)
      <3>1. failed' = failed /\ faults' = faults /\ stored' = stored
        BY <2>7 DEF Discard, membership
      <3> QED BY <2>7, <3>1, DiscardCalm, AwayStays
    <2> QED BY <1>2, <2>2, <2>3, <2>4, <2>5, <2>6, <2>7 DEF MonitorStep, Upload
  <1>3. ASSUME NEW k \in User, UserStep(k) PROVE Calm' /\ OneAway' /\ stored' = stored
    <2> DEFINE th == <<k, "user">>
    <2>1. th \in Thread /\ th[2] = "user" /\ k \in Node
      BY DEF Thread, StoreAssumption
    <2>2. task[th].pc \in {"idle", "stuck", "check"}
      <3>1. Honest(th, task[th], Away)
        BY <2>1 DEF Calm, AllHonest
      <3> QED BY <2>1, <3>1 DEF Honest, Rests, Lists
    <2>3. Check(th)
      BY <1>3, <2>2 DEF UserStep, Upload, SendStart, SendEnd, Unlink, Fetch
    <2>4. failed' = failed /\ faults' = faults /\ stored' = stored
      BY <2>3 DEF Check, files, membership
    <2> QED BY <2>1, <2>3, <2>4, CheckCalm, AwayStays
  <1>4. ASSUME NEW k \in User, NEW cmd \in Command, NEW g \in File, Type(k, cmd, g)
        PROVE  Calm' /\ OneAway' /\ stored' = stored
    <2> DEFINE th == <<k, "user">>
    <2>1. th \in Thread /\ th[1] = k /\ th[2] = "user" /\ cmd = "ls"
      BY DEF Thread, StoreAssumption, OneFailure
    <2>2. /\ Ask(th, cmd, g, 0) /\ k \in up /\ failed' = failed
          /\ disk' = disk /\ stored' = stored
      BY <1>4, <2>1 DEF Type, membership
    <2>3. Calm' /\ up' = up
      BY <2>1, <2>2, AskCalm
    <2>4. faults' = faults \/ faults' = [faults EXCEPT !.lost = @ + 1]
      BY <2>2 DEF Ask, OneFailure
    <2> QED BY <2>2, <2>3, <2>4, AwayStays
  <1>5. ASSUME NEW th \in Thread, Drop(th) PROVE Calm' /\ OneAway' /\ stored' = stored
    <2>1. /\ task' = [task EXCEPT ![th] = Stuck]
          /\ up' = up /\ disk' = disk /\ listing' = listing /\ failed' = failed
          /\ faults' = [faults EXCEPT !.lost = @ + 1] /\ stored' = stored
      BY <1>5 DEF Drop, processes, membership, files
    <2>2. Honest(th, Stuck, Away) /\ Rests(Stuck)
      BY Resting DEF Honest
    <2> QED BY <2>1, <2>2, OneCalm, AwayStays
  <1>6. ASSUME NEW k \in Node, Elect(k) PROVE Calm' /\ OneAway' /\ stored' = stored
    <2>1. /\ UNCHANGED <<up, disk, listing, task>> /\ failed' = failed
          /\ faults' = faults /\ stored' = stored
      BY <1>6 DEF Elect, processes, files
    <2> QED BY <1>1, <2>1, AwayStays
  <1>7. ASSUME NEW k \in Node, Restart(k) PROVE FALSE
    <2>1. faults.restarts < MaxRestarts /\ faults.restarts \in Nat
      BY <1>7 DEF Restart, OneAway
    <2> QED BY <2>1 DEF OneFailure
  <1>8. ASSUME NEW k \in Node, Crash(k) PROVE Calm' /\ OneAway' /\ stored' = stored
    <2>1. stored' = stored
      BY <1>8 DEF Crash, files
    <2> QED BY <1>8, <2>1, CrashCalm
  <1>9. ASSUME NEW k \in Node, NEW m \in Node, Detect(k, m) \/ Hear(k, m)
        PROVE  Calm' /\ OneAway' /\ stored' = stored
    <2>1. /\ UNCHANGED <<up, disk, listing, task>> /\ faults' = faults /\ stored' = stored
          /\ \/ m \notin up /\ failed' = [failed EXCEPT ![k] = @ \cup {m}]
             \/ failed' = [failed EXCEPT ![k] = @ \ {m}]
      BY <1>9 DEF Detect, Hear, processes, files
    <2>2. \A n \in Node : failed'[n] \subseteq Away
      BY <2>1 DEF OneAway, Away, IInv, Views
    <2>3. OneAway'
      BY <2>1, <2>2 DEF OneAway, Away
    <2> QED BY <1>1, <2>1, <2>3
  <1>10. ASSUME NEW k \in Node, NEW m \in Node, Mistake(k, m) PROVE FALSE
    BY <1>10 DEF Mistake, OneFailure
  <1>11. CASE UNCHANGED vars
    <2>1. /\ UNCHANGED <<up, disk, listing, task>> /\ failed' = failed
          /\ faults' = faults /\ stored' = stored
      BY <1>11 DEF vars
    <2> QED BY <1>1, <2>1, AwayStays
  <1> QED BY <1>2, <1>3, <1>4, <1>5, <1>6, <1>7, <1>8, <1>9, <1>10, <1>11 DEF Next

\* No step touches the copies that were put long before.
LEMMA NextIntact ==
  ASSUME StoreAssumption, OneFailure, IInv, Duties, OneAway, Calm, Intact, [Next]_vars
  PROVE  Intact'
  <1>1. stored' = stored
    BY NextCalm
  <1>2. ASSUME NEW f \in Before, NEW n \in Home(f) \cap Node PROVE Kept(n, f)'
    <2>1. f \in File /\ n \in Node \ Throwing /\ Command \subseteq {"get", "ls"}
      BY DEF StoreAssumption, OneFailure
    <2>2. Kept(n, f)
      BY DEF Intact
    <2>3. n \in up => Required(n, f)
      BY <1>2, HomesRequired
    <2> QED BY <2>1, <2>2, <2>3, NextSpares
  <1> QED BY <1>1, <1>2 DEF Intact, AsBefore

\* At first every node where the file was put has it, and nobody is away.
LEMMA InitCalm ==
  ASSUME StoreAssumption, OneFailure, Init
  PROVE  Calm /\ OneAway /\ Intact
  <1>1. /\ up = Node /\ failed = [n \in Node |-> {}] /\ Away = {}
        /\ \A n \in Node : listing[n] = {} /\ \A th \in Thread : task[th] = Idle
        /\ faults = [crashes |-> 0, restarts |-> 0, mistakes |-> 0, lost |-> 0]
    BY DEF Init, Away
  <1>2. OneAway
    BY <1>1 DEF OneAway
  <1>3. ASSUME NEW f \in Before PROVE Replicas(f, {}) = Home(f)
    <2>1. f \in File /\ Node \ {} = Node
      BY DEF StoreAssumption
    <2>2. Divisor(Node) # 0
      <3>1. Cardinality(Node) = N /\ N \in Nat /\ N >= 4
        BY PlacementAssumption, FS_Interval DEF Node, OneFailure
      <3> QED BY <3>1 DEF Divisor
    <2>3. {} \in {lost \in SUBSET Node : Divisor(Node \ lost) # 0}
      BY <2>1, <2>2
    <2>4. Answers[f][{}][TRUE] = AnswerWithout(Letter[f], {})
      BY <2>1, <2>3 DEF Answers, AnswerWithout
    <2> QED BY <2>4 DEF Replicas, Home, Addresses, Named
  <1>4. \A n \in Node, f \in File :
          disk[n][f] = IF f \in Before /\ n \in Replicas(f, {}) THEN {1, -1} ELSE {}
    BY DEF Init
  <1>5. Calm
    <2>1. AllHonest
      BY <1>1, Resting DEF AllHonest, Honest
    <2>2. AllHold
      <3>1. \A n \in Node : <<n, "monitor">> \in Thread
        BY DEF Thread
      <3> QED BY <1>1, <3>1, Resting DEF AllHold, Holds
    <2>3. InPlace
      BY <1>3, <1>4 DEF InPlace, Present
    <2> QED BY <2>1, <2>2, <2>3 DEF Calm
  <1>6. Intact
    <2>1. ASSUME NEW f \in Before, NEW n \in Home(f) \cap Node PROVE Kept(n, f)
      <3>1. disk[n][f] = {1, -1}
        BY <1>3, <1>4 DEF StoreAssumption
      <3> QED BY <1>1, <3>1, RestingSpare DEF Kept, AllSpare
    <2>2. AsBefore
      BY DEF Init, AsBefore
    <2> QED BY <2>1, <2>2 DEF Intact
  <1> QED BY <1>2, <1>5, <1>6

(* One machine may fail, whichever it is and whenever it does, and however *)
(* many requests get lost meanwhile, no file is lost: its copies on the    *)
(* other nodes where it was put are never written again nor removed, while *)
(* monitors that go by the placement before the failure and others that    *)
(* go by the one after it upload it to the node that has come into it.     *)
THEOREM OneFailureSurvived == ASSUME OneFailure PROVE Spec => []NoLoss
  <1> DEFINE Safe == IInv /\ Duties /\ OneAway /\ Calm /\ Intact
  <1>1. Init => Safe
    <2> SUFFICES ASSUME Init PROVE Safe
      OBVIOUS
    <2>1. \A th \in Thread : task[th] = Idle
      BY DEF Init
    <2>2. Duties
      BY <2>1, OffDuty, RestingOffDuty DEF Duties, Thread
    <2> QED BY <2>2, InitHolds, InitCalm, StoreAssumption
  <1>2. Safe /\ [Next]_vars => Safe'
    BY NextKeeps, NextOnDuty, NextCalm, NextIntact, StoreAssumption
  <1>3. Safe => NoLoss
    <2> SUFFICES ASSUME OneAway, Intact, NEW f \in File, stored[f] # 0
                 PROVE  \E n \in up, v \in Version : v >= stored[f] /\ Whole(n, f, v)
      BY DEF NoLoss
    <2>1. f \in Before /\ stored[f] = 1
      BY DEF Intact, AsBefore
    <2>2. PICK a, b \in Home(f) \cap Node : a # b
      BY TwoHomes DEF Home, OneFailure
    <2>3. \E n \in {a, b} : n \in up
      BY <2>2, AwayIsOne DEF Away
    <2>4. Whole(a, f, 1) /\ Whole(b, f, 1)
      BY <2>1, <2>2 DEF Intact, Kept, Whole
    <2>5. 1 \in Version
      BY <2>1, StoreAssumption DEF StoreAssumption
    <2> QED BY <2>1, <2>3, <2>4, <2>5
  <1> HIDE DEF Safe
  <1>4. QED
    BY <1>1, <1>2, <1>3, PTL DEF Spec
=============================================================================
