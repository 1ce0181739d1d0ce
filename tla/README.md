# A TLA+ development of dfss, a small distributed file system

dfss keeps flat files on a group of machines. Each file lies on (about) three
of them; membership is kept by heartbeats and gossip, one node is elected
master and tells the others where a file belongs, and a monitor thread on
every node copies and removes files until they lie there. This directory
models that program, checks the models with TLC and proves facts about them
with TLAPS. `src/` below is the repository; line numbers refer to its files.

## 1. The system

One process, `client` (`src/src/client.cpp`), runs on every machine. The node
started with `-i` is the introducer.

| component | state | operations | talks to |
|---|---|---|---|
| Virtual ring (`virtual_ring.cpp`), introducer only | `introducer`, `count`, `next1/next2/prev1/prev2` of every node | `insert`, `leave`; `put_file` has no caller | called by `intro_handler`, walked by `update_nodes` |
| Introducer (`intro_handler`, `update_nodes`, `contact_introducer`, `leave_introducer`) | the ring | JOIN and LEAVE requests, neighbour lists sent back and in UPDATE datagrams by detached threads | every node |
| Membership (`heartbeat_handler`, `heartbeater`, `failure_detector`, `update_handler`) | `member_list` (address, time stamp, `failed_`), `local_neighbour_list` | heartbeat with the whole list every 300 ms, failure after 2 s, gossip of flags | its up to four neighbours |
| Master election (`master_elector`) | `master` | every second: the greatest address string not marked as failed | reads `member_list` |
| Placement (`where_to`, `number_of_active_nodes`) | none | three addresses for a file name | reads `member_list` of the master |
| Putfile service (`putfile_listener`, `putfile_handler`) | `safety_check`: when a file was last put | answers `force;file` with three addresses or CONFLICT | users and monitors of all nodes |
| File monitor (`monitor`, `monitor_listener`, `monitor_handler`) | the listing of a round, `./uploads/` | every 15 s and for every file: ask the master, CHECK the three nodes, upload to those that say NO, remove the own copy if none of them is this node | master, holders |
| User commands (`main`) | none | `put`, `get`, `delete`, `ls`, `store` | master, holders |
| File transfer (`ftpclient.cpp`, `ftpserver.cpp`) | `./uploads/`, one forked child per connection | upload, download, delete | |
| UDP requests (`com.cpp`) | | `udp_sendmsg` sends one datagram and waits for one reply, without a timeout; `udp_server` runs one handler at a time | |

All threads of a node share `member_list`, `local_neighbour_list` and
`master`; there are two locks, and most readers take neither. Nodes
interact by UDP requests and by TCP uploads. Nothing is persistent except
`./uploads/`.

What is hard here, and what makes each component correct:

* **Ring**: four pointers per node are repaired by five different pieces of
  code. After any sequence of joins and leaves they must describe one ring,
  and the neighbour lists read from them must be mutual and keep gossip
  connected when machines fail.
* **Placement**: the walk over the map wraps round past failed nodes in both
  directions and reads through `end()`. It should find three different live
  nodes.
* **Putfile service**: it should warn of a second put within a minute; it
  must go on answering while the membership changes.
* **Monitors, users, transfers**: every step acts on an answer that may be
  old. Copies are overwritten in place, removed because of a stale answer,
  read while they are emptied; machines fail between CHECK and upload;
  requests are never answered. A completed put must not get lost, copies must
  end where they belong, and concurrent puts must not leave different
  versions.
* **Membership**: time stamps, late heartbeats, mutual suspicion, gossip
  that contradicts the own detector. Nobody may be suspected without reason,
  failures must be noticed, wrong suspicions must heal.
* **Introducer**: walks of the ring run without a lock beside the handler
  that changes it, and may read half-linked nodes, run off the ring or send
  what is out of date; UPDATE datagrams may get lost or overtake each other.
  A request that nothing disturbs must not suffer from that, and must
  repair what it has left behind.
* **A single transfer**: three byte loops with fixed slabs, whose short and
  failing calls nobody looks at. What is written must be a beginning of the
  file, and all of it if nothing goes wrong.

`PROJECT.json` lists these hazards line by line.

## 2. The modules

| module | models |
|---|---|
| `RingOrder` | abstract specification: the ring is a list in the order of the last octets |
| `VirtualRing` | `virtual_ring.cpp`, neighbour lists; refines `RingOrder` |
| `Placement` | `where_to` and its helpers, no state |
| `PutfileServer` | `putfile_handler`, CONFLICT dialog, the master's list; uses `Placement` |
| `FileStore` | copies, monitors, commands, uploads, master election, failures; uses `Placement` |
| `Membership` | heartbeats, time stamps, gossip, failure detector, neighbour lists |
| `IntroService` | JOIN and LEAVE, the walks of `update_nodes`, UPDATE datagrams; contains `VirtualRing` |
| `FtpTransfer` | one upload or download: handshake and byte loops of both ends |
| `VirtualRing_proofs` | type correctness, `RingOK`, `WatchedByNeighbours`, `GossipSurvivesTwoFailures`, `JoinsSeparate` |
| `RingOrder_proofs` | `VirtualRing` implements `RingOrder` |
| `IntroService_proofs` | the service refines `VirtualRing`; type correctness, `OnlyOverlapCrashes`, `CleanRoundsRepair` |
| `Membership_proofs` | type correctness, with the four places of the neighbour list; `NoHastySuspicion` |
| `Placement_proofs` | lemmas about the answers of `where_to`, and what one failure changes in them |
| `PutfileServer_proofs` | type correctness, `EnoughReplicas`, `UnaskedOnlyAfterConfirmed`, `TwoLiveNodesServe` |
| `FileStore_proofs` | type correctness, `RemovesOnlySurplus`, `KeptWhereRequired`; `NoLoss` where one holder stays, and where one machine fails |
| `FtpTransfer_proofs` | type correctness and the three safety invariants |

The proofs hold for all values of the constants that satisfy the named assumption
of the module they are about.

`MC*` modules give the constants their values for the configurations of the
same prefix. Definitions that begin with the comment "Mutant" are changed
copies of the definition after them. They are used nowhere in the models; put
in the place of that definition, each makes the property fail that is named for
it in `PROJECT.json`, which shows that the property depends on the code.

### 2.1 VirtualRing

`next1`, `next2`, `prev1`, `prev2` are functions from addresses to addresses
or `NULL`; the introducer's pointers are those of the ring's head. `Init` is
the constructor, `InsertSecond`, `InsertThird`, `InsertFourth`, `InsertMore`
are the cases of `insert()` for `count` 2, 3, 4 and above (after its
increment), and `Leave` is `leave()`. `StopsAt` is the loop that looks for a
place, with its limit of `count` steps and the value 1 it starts with. All of
it runs in the handler of one UDP port, so one call is one action.
`insert()` of a known address returns early and changes nothing, and the
branch of `leave()` for the introducer cannot be reached: the introducer
never enters its menu, so it never sends LEAVE.

`Neighbours` is the set that `intro_handler` and `update_nodes` build.

### 2.2 Placement

Nodes are `1..N` in the order of their address strings, which is the order of
the `std::map`. `known` are the keys, `alive` those without `failed_`. What
the program finds behind `end()` is undefined: the flag read there is a
parameter and the address copied from there is `END`. The remainder has the
sign of C++.

### 2.3 PutfileServer

`Hear` and `Lose` are what heartbeats, gossip and the failure detector do to
the master's list; they may happen in any order at any time. `PutGranted`,
`PutConflict`, `Confirm`, `Decline` and `Lookup` are the branches of
`putfile_handler` and of the dialog in `main`. `Respond` is the call of
`where_to` with its outcomes: an answer, SIGFPE with one live node, an
exception when an address is taken from `end()`. The clock counts in units
of 30 s or so: `Window` of them are the 60 s of the code. `answer` holds the
last answer as long as the list has not changed since; `granted` is a history
variable.

### 2.4 FileStore

`disk[n][f]` is the copy in `./uploads/` of `n`, as the set of what has been
written to it since it was last emptied: a whole version, a part of one,
something mixed. `task` has a record for each monitor thread and each user,
with the program counter, the three addresses of its answer and its position
in them. A request and its reply are one step, in which the other node's
handler runs; an upload is two, `SendStart` up to the `fopen(.., "wb")` of the
receiver and `SendEnd`, between which others may write, empty, unlink
or read the same file, and either machine may fail. A process that exits
(`Stop`) leaves the children it forked for uploads it was receiving; a machine
that fails (`Crash`) takes them along. A monitor or user whose request is not
answered is `Stuck` for ever.

Simplifications, all of which restrict the behaviours looked at:

* every node already knows all others; the flags change, the keys do not;
* a request to the master may throw in the nodes of `Throwing`, which leaves the
  answer empty (`Unanswered`): a command then does nothing, a monitor takes itself
  for a node that should not have the file and removes its copy. CHECK and DELETE
  never throw: the code would go on with the first element of an empty vector;
* the reply handler and the sender's reaction to the reply are one step, so
  a reply is never late, only lost;
* a process that failed is never taken for the machine: connections to a
  node that is down are refused at once;
* monitors only run with four known nodes, as in the code, so the runs
  with three nodes are about users alone;
* no node suspects itself, although gossip can make it;
* a node that is down is not taken for alive again. In the code the list of a
  node that has not noticed yet may clear the flag (client.cpp:149-151), until
  the detector, where the node is a neighbour, sets it again: `Hear` leaves
  these setbacks out, `Membership` has them (`Noticed`). The placements of
  `FileStore` therefore follow a failure once per node, and what is said of
  them after two failures rests on that.

### 2.5 IntroService

The ring is that of `VirtualRing`, by `INSTANCE` with the same variables.
`phase[ip]` says whether the process at an address is out, has sent its JOIN, or
has taken the reply and opened the port of `updater()` (`Opens`). `Ends` is a
process that ends without LEAVE, whose address stays in the ring and may come
back; after a LEAVE the process goes on running.

A request is handled in two steps. `Join` and `Leave` take it as far as `count`
is changed (virtual_ring.cpp:143 and 68, before any pointer is stored), and
`Replies` is the rest: all pointers are stored, a JOIN is answered from them, and
a thread of `update_nodes` starts. Between the two `busy` is the node whose
request is handled. The ring's variables hold what the request will leave behind,
and `was` the pointers as it found them. `insert()` stores up to ten pointers in
an order that C++ does not guarantee to a thread without a lock; so a load by a
walk yields, for every pointer by itself, what was there or what will be
(`Sees`), and once it has yielded the new value no longer the old one. This
includes the order of the source lines, with nodes that are linked before their
own `next1` is set, and `leave()` with its node half cut out. The head that
`insert()` sets to another node meanwhile is in `Heads`.

`walk[w]` is a thread of `update_nodes`: it takes the head (`WalkBegins`), reads
the pointers of a node one by one and has a list sent (`WalkSends`), and goes on
to the next (`WalkGoesOn`). Requests may be begun and handled between any two of
these steps; `seen` keeps, for each pointer the walk has still to load at its
node, the values it may have had since the walk came there, so that the list a
step sends may be made of loads that lie far apart and be sent after that of a
later walk (`Adds`: a pointer is loaded up to three times, and each load may
yield a later value). `WalkCrashes` is a load through `NULL`: behind a node that
has left or is not linked yet, or of a pointer that becomes `NULL` after its
test. Every datagram is sent by a thread of its own, so `flight` is a set and
`Deliver` and `Drop` take any member of it. `round` and `faults` are history
variables.

Not in the model: the heartbeats of the introducer's `main()`, which read the head
of the ring, too (client.cpp:796), and a node that comes back while walks stand at
its old node; they would go on from the node that left, beside the new one.

### 2.6 Membership

`known`, `failed`, `age` are the three fields of `member_list`, `age` in
seconds and only as far as the detector looks. `local` is the neighbour list
as a set and `room` what is left of its four places: duplicates only repeat
heartbeats, but they use up places. `Beat` is a round of `heartbeater()` (or
of the introducer's loop), `Receive` is `heartbeat_handler()`, and `Compare`
and `Mark` are the two halves of `failure_detector()`, between which heartbeats
come in; `Update` is `update_handler()`. A tick is the time in which each
thread runs once, and `Second` of them make the second in which `time()`
counts; `phase` says where in it the tick falls. Datagrams arrive within a
tick; a heartbeat may get lost instead, an UPDATE may not.

### 2.7 FtpTransfer

`sender` and `receiver` are the program counters of the two ends, of which the
client is one and the forked child the other, according to `kind`. The
messages of the handshake (`mail`) arrive whole; then slabs are counted:
`left`, `read`, `sent` on one side, `taken`, `remaining` on the other.
`SendSlab` is a round of the sender's loop, which always sends a whole slab;
`Recv`, `RecvEnd`, `RecvFails` are a round of the receiver's with the outcomes
of `recv()`. `Killed` is SIGPIPE, `Open` without a file is the SIGSEGV of
`fseek(NULL)`. An end that dies closes its connection; a machine that
disappears without closing it leaves the other end waiting for ever
and is not modelled. `faults` is a history variable of what has gone wrong.

## 3. The runs

| run | configuration | checks | bounds |
|---|---|---|---|
| `ring` | `MCVirtualRing` | `TypeOK`, `RingOK`, `WatchedByNeighbours`, `GossipSurvivesTwoFailures`, `ImplementsOrder`, `JoinsSeparate` | 8 addresses |
| `putfile` | `MCPutfileServer` | `TypeOK`, `EnoughReplicas`, `TwoLiveNodesServe`, `UnaskedOnlyAfterConfirmed` | 5 nodes, 2 files, 2 clients, a window of 2, clock 0..2 |
| `introducer` | `MCIntroService` | `TypeOK`, `OnlyOverlapCrashes`, `CleanRoundsRepair`, `Settles` | 3 addresses, 2 walks at once, 3 requests or ends, 1 loss |
| `membership` | `MCMembership` | `TypeOK`, `NoHastySuspicion`, `Acquainted`, `Noticed`, `Heals` | 3 ordinary nodes, 1 failure, 4 lost heartbeats, 3 under way |
| `transfer` | `MCFtpTransfer` | `TypeOK`, `OnlyFileBytes`, `CopyIsWhole`, `SenderSurvives`, `Ends` | slabs of 3 bytes, files of 0 to 10, 7 bytes under way |
| `store_crashes` | `MCStoreCrashes` | `NoLoss`, `KeptWhereRequired` | 5 nodes, 2 of the 3 holders fail |
| `store_views` | `MCStoreViews` | `NoLoss`, `RemovesOnlySurplus` | 4 nodes, one wrong suspicion that heals or one request that throws, one lost message |
| `store_user` | `MCStoreUser` | `TypeOK`, `NoLoss` | 3 nodes, 1 user, 2 versions; one crash, restart, lost message and request that throws |
| `store_live` | `MCStoreLive` | `Settles` | 5 nodes, one failure without a copy |
| `store_parts` | `MCStoreParts` | `NoLoss` violated | 6 nodes, one holder fails |
| `store_blocked` | `MCStoreBlocked` | `Settles` violated | 5 nodes, the master fails with a copy |
| `store_order` | `MCStoreOrder` | `ReplicasAgree` violated | 3 nodes, 2 users, 2 puts |

What they show, and why the bounds are enough:

* **ring**. Eight addresses reach all four cases of `insert()` and `leave()`
  at every size from 3 to 8; the far pointers of the nodes around a change
  are all different from 5 nodes on, so 8 leave room on both sides. Two
  octets are equal, one is 1, the introducer's is in the middle.
  `GossipSurvivesTwoFailures` removes the introducer as well, because its
  heartbeats are empty. `JoinsSeparate` says that two older nodes never become
  neighbours by the join of a third, so that of two neighbours one was
  given the other's address when it joined; a `leave()` does bring strangers
  together.
* **putfile**. All subsets of five nodes as known and failed, with
  letters of hash below, within and (with the negative remainder of a capital
  letter) under the octets. `EnoughReplicas` needs four live nodes beside a
  failed one for its wrap-arounds. It demands three different nodes only from
  four live ones on: with three, the two walks of `where_to()` may meet
  (`PrevAlive` never answers with `begin()`), and the answer names two.
  Two users and a window of two units, with a clock that reaches its end, are
  the least in which one user is asked, another's put comes in between, and
  the window passes. `UnaskedOnlyAfterConfirmed` says exactly how much of the
  minute of README.md:22 is kept: a confirmed put is not recorded, so the next
  one within the minute passes without a question.
* **introducer**. Two nodes beside the introducer join, leave, end and come
  back while walks of earlier requests read the ring of two or three, beside
  the stores of the handler, and datagrams overtake each other. Three requests
  are the least in which one that nothing overtakes follows two that do: the
  first starts a walk, the second changes the ring under it, and the third
  finds what they have left. That the walks of two overlapping requests leave
  a wrong list behind, and that two JOINs alone can crash one of them, are
  behaviours of the model, as they are of the code. `OnlyOverlapCrashes` says that
  the crash needs such an overlap: nothing that earlier requests, losses or
  processes that ended have left behind leads a walk through `NULL`.
  `CleanRoundsRepair` says that lost, stale and mixed lists do not last longer
  than the next undisturbed request, and `Settles` that there is an end to them.
  The model stops when all requests have been made, so deadlock is not checked.
* **membership**. Three ordinary nodes are the least with a mutual suspicion
  and a third that gossips; they start as they have joined, not
  knowing those who came later, with both readings of the flag behind
  `end()`. Four lost heartbeats between two nodes are enough for two
  suspicions (`Second` is 2), so that one is renewed after it has healed.
  The introducer sends empty lists and detects nothing; with it and three
  nodes the safety part was once checked too (1.6 million states).
  `Noticed` and `Heals` are of the form `[]<>`, as nothing stronger holds: the
  flag of a dead node may be cleared by older gossip, and a suspicion may
  come back while it spreads. Three limits are part of the properties: a
  neighbour that failed before its first heartbeat is never noticed; two
  ordinary nodes alone that suspect each other do so for ever; the
  introducer marks nobody and sends heartbeats to the dead.
* **transfer**. Files of no byte, of less than a slab, of whole slabs and
  of up to three and a bit; pieces of any size; 7 bytes under way let the
  sender run two slabs ahead and block. Either end may die once at any step,
  the source may be removed before it is opened or emptied while it is
  sent. `CopyIsWhole` tells the two cases apart: without faults the copy is
  whole; after a short `recv()` in the branch for less than a slab it is cut
  off and nobody notices. An emptied source gives a copy of the right size with
  stale bytes, a sender that dies before the acknowledgement may leave garbage,
  and one that is killed with a slab or more to go leaves a child that spins.
  The transfer ends, so deadlock is not checked.
* **store_crashes**, **store_views**. From a file in place, all five (four)
  monitors run freely, also with answers of different masters at different
  times, while two machines fail (a suspicion comes and goes). The octets and
  the letter are such that the failure or suspicion moves the placement by
  one node, so that there are copies to create and to remove at once.
  Placements of four or five nodes overlap, whatever fails, and `NoLoss` rests
  on that. `KeptWhereRequired` says how: as long as a holder, whenever it runs,
  belongs to the placement by the list of every master that might be asked,
  nobody overwrites or removes its copy. In all 118726 states of `store_crashes`
  that is so of the three holders 3, 4 and 5, of which 4 and 5 fail and leave
  their copies as they were; the suspicion of `store_views` leaves nodes 2 and 4.
  There is no such node in `store_parts`.
  `store_views` is the run where copies are removed because of answers that
  were right when they were given, or because there was no answer at all: a
  monitor whose request throws removes its copy, once. `RemovesOnlySurplus`
  says what every single monitor guarantees nonetheless: if it had an answer,
  that answer named two other nodes at least and not its own.
  Deadlock is not checked there: when all monitors wait for answers that never
  come, or the machines are down, the model may stop, as the system does.
* **store_user**. `put` overwrites three copies one after the other, so a
  completed version must survive a put that stops anywhere, a client
  that dies, a restart of a node with its old copy, and the delete and get
  that run into the failed node. Deadlock as above.
* **store_live**. `Settles` says that in the end, and for ever, exactly the
  nodes of the placement hold the file. It is checked where the machine that
  failed is nobody's master and holds no copy: nobody waits for it, so all
  monitors live on. `Watching` leaves the failure to be noticed by the master's
  node, whose list is the one that decides.
* **store_blocked** shows that this restriction is needed: when the machine
  that fails is asked for anything before its failure is known, the asking
  thread never comes back from `receive_from()`, and the remaining holders
  can all be caught like that.
* **store_parts** shows that `NoLoss` does not extend to six nodes, where the
  placements before and after one failure may have no node in common. Node 5
  fails, and the file of nodes 3, 4 and 5 belongs on 1, 2 and 6. Nodes 3 and 4
  are both told "NO" by node 1. While 3 uploads to it, the monitor of 1 finds
  the name in its listing and sends what is there on to 2 and 6. Then the
  upload of 4 empties the file of 1 under that monitor, which dies of
  SIGPIPE, and the copies on 2 and 6 stay unfinished or mixed. Now 3 and 4
  are told "YES" by all three and remove their own. Each did what
  `RemovesOnlySurplus` allows; "YES" does not mean that the copy is any good.
* **store_order**: what the README promises about the order of updates is not
  kept.

The three violated properties quote README.md of the repository; `PROJECT.json`
has the lines under "findings".

Also tried and not kept as runs: one wrong suspicion and one failure on four
nodes violate `NoLoss` too. The suspicion moves the placement and back, the new
holder fails in between, and every monitor that has just been told "NO" by it
exits its whole process, as `upload_file` does when it cannot connect
(ftpclient.cpp:42). Two failures do the same where one is survived, as 5.6 proves:
with five nodes, any two of which may fail, and a file under `a`, `b` or `c`, the
first failure brings a node into the placement, it answers "NO" to the monitors
that are left, and as it fails in its turn they all exit. (In `store_crashes` the
machines that may fail are two of the holders, so that this does not happen.)
With puts *and* monitors together
(four nodes, one put, no failure at all) `NoLoss` is violated too, because a
half-written copy counts as present for CHECK and is replicated over the good
ones, and a monitor whose source file is emptied while it reads
dies of SIGPIPE. This is why `store_user` keeps to three nodes. One request
that throws together with one wrong suspicion violates `NoLoss` in the same way
without any put: the holder that has removed its copy is sent a new one, and the
half of it that is there counts as present. And with a request that throws,
`Settles` fails, as a half-written copy whose sender has gone is taken for a
whole one for ever; so `store_live` has none.

## 4. Fairness

`FairSpec` of `FileStore` adds, for every node, weak fairness of the monitor
thread and of the election (each is a loop with a sleep, and the operating
system schedules every thread), of a user's command once it is typed (the
command loop runs to its end; nobody is obliged to type), and of the detection
of machines that are down (`failure_detector` runs every 250 ms and marks a
node that has been silent for 2 s). Failures, lost messages, restarts and
suspicions have no fairness: they need not happen. Nor is it assumed that a
wrong suspicion heals, since two nodes that suspect each other stop sending
each other heartbeats. A thread in `Stuck` has no
step to be fair about, as nothing wakes `receive_from()`.

The other modules need weak fairness only, too. In `IntroService` something
goes on as long as the handler, a walk or a thread that sends can, or a reply or
a datagram that is not lost can arrive (`Progress`); which of them is left open,
which assumes less than a fair share for each of these threads. In `Membership` every thread runs: the loops of `heartbeater` and
`failure_detector` sleep 300 and 250 ms, handlers answer what has arrived, and
time passes when they have. In `FtpTransfer` both processes run and a reset
arrives. Requests, failures and losses have no fairness anywhere. `VirtualRing`
and `PutfileServer` have safety properties only.

## 5. Proofs

Each theorem holds for every value of the constants that satisfies the `ASSUME`
of its module: any number of nodes, files, users or bytes, and any bound on
failures. No theorem takes anything else on trust, except `AlwaysServed`,
`OneHolderIsEnough` and `OneFailureSurvived`, which state their own assumptions.

### 5.1 VirtualRing_proofs (RingAssumption)

The introducer is an address, octets are naturals, `NULL` is not an address.

* `Invariance`: `Spec => []IInv`
* `TypeCorrect`, `RingCorrect`: `TypeOK`, `RingOK`
* `WatchingIsMutual`: `WatchedByNeighbours`
* `GossipGetsAround`: `GossipSurvivesTwoFailures`
* `JoinsOnlySeparate`: `JoinsSeparate`

`RingOK` speaks of `Walk`, the recursive function that follows `next1` from
the introducer as the code does. It is not inductive in a convenient form: an
insertion in the middle shifts all positions behind it. `IInv` says that
*some* list `ord` of the members, starting anywhere, agrees with all four
pointers (`Ring(ord)`), and contains the introducer. A ring may be turned
(`Rotate`, `RotateToLast`), so every change can be taken to happen at the end
of the list: `InsertLinks` and `LeaveLinks` give the list after the change as an
append or a removal, `InsertPlace` says that the search of `insert()` ends
at a member, and `InsertSecondStep`, `InsertLaterStep`, `LeaveStep` are the
steps of the invariant. `FromIntroducer` and `WalkFollowsRing` turn the list
back to the introducer and show that the walk follows it, the latter by a least
counterexample (`MinimalFailure`).

For the neighbour lists, `NeighboursByPosition` says that two members watch each
other exactly if their places differ by at most two round the ring, which is
symmetric. `TwoGaps` is what gossip needs: if a set that no heartbeat leaves
meets the other live nodes somewhere round the ring, then across two lost nodes
in a row, and once more on the way back. That takes four lost nodes, and there
are at most three, two failures and the introducer.

For `JoinsOnlySeparate` the list after an insertion is the list before it with the
newcomer at the end, so that the distance of two older members round the ring
stays or grows (`OlderNeighbours`). `WalkIsPath` puts into words for the
introducer's proofs what a walk along `next1` meets.

### 5.2 RingOrder_proofs (RingAssumption)

* `ImplementsList`: `Spec => ImplementsOrder`, the refinement of `RingOrder`

`SInv` adds to `IInv` that the walk from the introducer is sorted. The list
cannot be turned here, as its place in the walk is the point. `WalkFollows`
says what walk the changed pointers make, `EntersAt` and `LeavesAt` that it is
the old one with the newcomer put in or the leaver taken out, and `InsertAtPlace`
and `RemoveAtPlace` what `InsertAt` and `RemoveAt` of sequences are made of, so
that a step of the pointers is a step of the list.

### 5.3 IntroService_proofs (IntroAssumption)

The assumption of the ring, and natural bounds.

* `ServiceIsRing`: the service refines the specification of the ring; the ring's
  variables are what each request leaves behind, so it is that, and not what a
  walk may read meanwhile, of which the theorems of `VirtualRing_proofs` speak
* `Invariance`, `TypeCorrect`: `TypeOK`
* `OverlapCrashes`: `OnlyOverlapCrashes`
* `CleanRoundsDo`: `CleanRoundsRepair`

`RingIsGood` takes from the ring what a walk needs: from a member it comes to a
member. The inductive invariant adds `Standing`: requests are handled and walks run
only when the ring has two members, and in a round that is not a mixed one no
walk runs while a request is handled, and every walk is `Fresh`: it stands at a
member, and what it has seen of the pointers is what is in them. A request makes a
round mixed unless all is settled (`BeginsKeeps`); so in any other round the walks
come after the last store, and no load of theirs has a choice (`SeesPointer`,
`AddsValue`). In a mixed round nothing of this holds: the invariant is silent
about its walks, and such a walk may read through `NULL`.

`CleanRoundsRepair` speaks of the time when all is settled, so the inductive part,
`Repairs`, says what holds until then: in a clean round everything under way is
right (`Addressed`), and the request is still being handled, or some walk is on
the track of the ring (`OnTrack`: it stands where as many steps from the
introducer lead) and the members it has passed have the right list or will get it
(`Informed`). When that walk ends it has passed all members (`WalkInformed`), as
the ring is a path that comes back to the introducer only after `count` steps
(`RingIsPath`). A round can only be clean if everything was settled when it began
(`CleanFromSettled`): then nothing old is under way that could overtake.

### 5.4 Membership_proofs (MembershipAssumption, JoinedInTurn)

Finitely many nodes, and the lists given by the introducer have at most four
entries. `JoinedInTurn` is about the ring at the time the model begins, when
every node has joined and none has left: being neighbours is mutual, as is proved
of the ring (`WatchingIsMutual`); of two neighbours one was given the other when
it joined (`JoinsOnlySeparate`); and everyone has four neighbours, or all know
all (`WatchedByNeighbours`, again). Only the last theorem uses it.

* `TypeCorrect`: `TypeOK`
* `NotHasty`: `NoHastySuspicion`

`OnlyEntries` and `FourPlaces` are the parts of `IInv` with content: only entries
of a node's list are ever marked, also by gossip and by a detector whose
comparison is old, and the neighbour list never outgrows its four places.

`HInv` adds what `NoHastySuspicion` rests on. As long as fewer heartbeats are lost
than a second has ticks (`Calm`), nobody who runs is accused in any list, in any
verdict or in any datagram (`NoneAccused`), and no time stamp of a running
neighbour is older, in ticks, than losses account for (`PairInTime`, `InTime`).
The difficulty lies in the beginning, when one of two neighbours does not know
the other: then the flag that is read behind `end()` may keep it from sending
(`Beat`), and its own time stamp at the other grows old although nothing of what
it sends is lost. What ends this is a heartbeat from the other, so that one must
have been lost, too: `PairInTime` is stronger by one in this case. It takes
`Entered` (one of the two does know the other) and `Placed` (a node that has been
told its neighbours sends to them). `Silent` is the detector's comparison, and
`SilentAreDown` that whoever it finds is down.

It is needed that neighbours have been introduced. Take nodes 2 to 5 with the
neighbours 2-3, 2-4, 3-5 and 4-5, where 4 was given 2, and 5 was given 3 and 4, but
neither 2 nor 3 was given the other: TLC finds a suspicion after one lost
heartbeat from 3 to 2, with two ticks to the second. In the program it is LEAVE
that makes strangers neighbours. They know each other from gossip, if at all, with
time stamps as old as that, and nothing keeps the detector from comparing these
before the first heartbeat. `JoinedInTurn` leaves that out: the theorem, like
the run, is about the time before anybody leaves.

### 5.5 Placement_proofs and PutfileServer_proofs (PlacementAssumption, PutfileAssumption)

There is a node, octets are naturals; types of the constants.

* `TypeCorrect`: `TypeOK`
* `GoodAnswers`: `EnoughReplicas`
* `AskedInTime`: `UnaskedOnlyAfterConfirmed`
* `AlwaysServed`: with last octets from 37 on, each given once (`Deployment`),
  `TwoLiveNodesServe`

The inductive invariant is `TypeOK /\ EnoughReplicas`. It is inductive because
every change of the list withdraws the answer (`MembershipStep`) and every answer
is read from the present list (`RespondStep`). What an answer names is shown by
`AnswerIsAlive`, from `NextIsAlive`, `PrevIsAlive` and `WalksDoNotMeet`: if the
live node that `where_to()` finds in front of the primary were the primary
itself or the one found behind it, the live nodes would be among `begin()`, the
primary and one more. `AlwaysServed` rests on `SomeEligible`, a pigeonhole
argument: `k` different octets from 37 on cannot all be below the hash, which is
at most `35 + k` (`HashBound`). `Deployment` is an assumption of this theorem
alone: the code has the number 37 built in and checks no address.

For the file store, `AnswerAfterFailure` compares the answers before and after
one node fails, where the octets go up with the address strings (`Ascending`) and the
hash of the name does not change: all that is left of the old answer is in the
new one, with one other node at most. The walks of `where_to()` pass over a failed
node to the next one (`NextStays`, `PrevStays`, `PrevPasses`), and if the primary
fails the node behind it, which was in the answer already, takes its place
(`FailureKeepsOthers`). `SentWithoutEnd` says that an answer that is sent does not
depend on the flag behind `end()`, and `FirstLetters` that the hash stays for the first
`N - 2` letters of the alphabet.

### 5.6 FileStore_proofs (StoreAssumption)

Types of the constants, versions are counted from 1.

* `TypeCorrect`: `TypeOK`
* `OnlySurplusGoes`: `RemovesOnlySurplus`
* `HoldersKeep`: `KeptWhereRequired`
* `OneHolderIsEnough`: `NoLoss`, as long as one holder runs and is required
* `OneFailureSurvived`: `NoLoss`, with one failure at most (`OneFailure`)

`IInv` strengthens `TypeOK` by what a thread can be doing at each program
counter (`Tasks`). Its content is that a thread only asks nodes of the list,
because an answer that names `end()` is never sent (`AnswerNamesNodes`); that
only running nodes have threads and listings, whatever ends or restarts
(`StopKeeps`, `CrashKeeps`); and that copies are made of versions that were put,
parts and mixtures of them (`ContentsClosed`, `ContentsWritten`).

For `OnlySurplusGoes` the inductive part is `Duties`, which says of every monitor
with an answer how much of it has been looked at (`Looked`: in `check` the
addresses before the present one, in the stages of an upload that one, too), and that
none of those is its own unless it knows that the file is required. Crashes,
`fopen()` and `unlink()` of others change the stage of its upload only (`AsFar`).
That the answer names two nodes at least comes from `AnswerIsAlive` of the
placement: no master suspects itself, and one that counts a single live node
divides by zero and answers nothing (`AnswerNamesTwo`).

`HoldersKeep` is about one copy at a time. Its hypothesis is a condition on all
times (`[](n \in up => Required(n, f))`), so the step of the invariant may use it in
the state before: `Kept` says that the copy is as it was put, and that every
thread `Spares` it. None is about to write it, since `CHECK` at a node that has the
file is never answered "NO" (`CheckSpares`), and whoever was told "NO" by
another node uploads there (`SendSpares`). And its own monitor, if it has an answer
for the file, has one that names its node (`AskSpares`), so with `Duties` it never
comes to remove it (`DiscardSpares`). While the node does not run its copy lies
still, since nobody can write there, so nothing is asked of the masters then.
Nothing is assumed about the other two holders, about failures of this one, or about
answers that are out of date. What the theorem leaves out are puts and deletes,
which change the copy on purpose, and a request of the node's own monitor that
throws. It says that the copy stays on the disk; the process may have ended, as in
the wrong suspicion of section 3.

`OneHolderIsEnough` draws the consequence: if such a holder also runs, for ever,
then the file is not lost, whatever else fails, restarts or is suspected. In
`store_crashes` node 3 is one.

That leaves it open when there is such a holder. `OneFailureSurvived` needs no
condition on the behaviour, only on the instance (`OneFailure`): one machine may fail,
any one, at any time; four nodes or more, octets that go up with the address
strings, and a name whose hash the failure does not change (by `FirstLetters` that
is every name under the first `N - 2` letters). Nodes do not restart, nobody is wrongly
suspected, no request throws, and users do nothing but look (`ls`). Any number of
requests may get lost. All of these matter: section 3 has the runs and
configurations in which a change of the hash, a second failure or a suspicion loses
the file, and a `get` from the failed node ends the process of a holder.

The argument: whoever was told "NO" asked a running node that does not have the
file, hence none of those where it was put (`Home`), whose copies are `Intact`. By
`AnswerAfterFailure` a current answer names one other node at most (`CurrentNames`).
The asking monitor has the file, and copies lie nowhere but at the homes and at
that node (`InPlace`), so it is a home itself. So uploads go from homes to the one
node that is none, which runs, because before the failure answers name homes only
and there is nothing to upload. Hence no upload is cut off, no source is emptied
under its reader and no connection refused (`Tends`, `Uploader`, `CrashCalm`), so
that nobody exits (`OneAway`); no list has more than one node marked, so that no
master divides by zero or leaves a home out that runs (`ListsSeeOne`,
`HomesRequired`), and the homes keep their copies by the lemma of `HoldersKeep`
(`NextSpares`). Two of the answer's nodes are different (`TwoHomes`), and one of them is
left. A monitor must also never start to upload a file that it has removed
meanwhile, as reading a file that is not there ends the process too: `Holds` says
that it has the file it deals with and that the file is not in the rest of its
listing.

`IInv /\ Duties /\ OneAway /\ Calm /\ Intact` is inductive for this instance. TLC
was asked about its parts first, with four nodes, `ls` and the letters `a` and `b`,
and with five nodes and the letter `c`: up to 47816 states, in some of which
copies have been created on a new node. It finds no state there in which such a copy is
removed again; the proof does not need that.

### 5.7 FtpTransfer_proofs (TransferAssumption)

The slab is positive, sizes are naturals.

* `Invariance`, `TypeCorrect`: `TypeOK`
* `PrefixWritten`, `WholeCopied`, `SenderLives`: `OnlyFileBytes`, `CopyIsWhole`,
  `SenderSurvives`

`IInv` relates the counters of the two ends (`Counters`, `Received`) and, as long
as at most `recv()` has been short, their program counters and the message
under way (`Handshake`, `Undisturbed`). Faults are remembered, so the
conditional parts are inductive.

### 5.8 Not proved

`NoLoss` is the one invariant of the runs that is not proved for all values of the
constants, since it is not true of all: `store_parts` and the other configurations
named in section 3 violate it. `OneHolderIsEnough` and `OneFailureSurvived` have
hypotheses for that reason. What they do not reach stays with TLC: puts
(`store_user`) and wrong suspicions, requests that throw (`store_views`), and a
hash that changes but leaves placements that overlap without a holder that is always
required.

Liveness stays with TLC altogether: both `Settles`, `Acquainted`, `Noticed`,
`Heals` and `Ends` depend on fairness and `ENABLED`, which the prover does not
handle. So does induction over data with an operator as the induction hypothesis.

## 6. Not modelled

* `put_file` of the ring, `add_to_memlist` beyond its effect on known nodes,
  `store` and the display of the membership list: dead or read-only.
* The TCP classes of `com.cpp`/`com.hpp`, `sdfs.cpp`, `server.cpp`,
  `daemon.c`, `test/DS_Introducer.cpp`: not part of the client.
* Of the FTP server: the requests `ls-remote` (nobody sends it) and `exit`, the
  echo of unknown ones, and running out of processes or descriptors, which the
  server never gives back.
* CHECK and DELETE requests that throw: the code reads past the end of an
  empty vector, where anything may be.
* An answer longer than the 512 bytes of a datagram's buffer, data races (on
  `master`, on `member_list`) and the stack growth of the threads that call
  themselves: below the level of these models.
* `safety_check` after an election: `PutfileServer` is one master. A new one
  starts with an empty table and asks nobody about puts the old one granted.
* A machine that disappears without closing its connections: the other end of a
  transfer waits for ever.
