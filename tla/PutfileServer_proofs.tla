------------------------- MODULE PutfileServer_proofs -------------------------
(***************************************************************************)
(* What the putfile service answers, for any number of nodes, files and    *)
(* users: its answers name live nodes only, three of them when four live,  *)
(* and it has an answer as long as two live.                               *)
(***************************************************************************)
EXTENDS PutfileServer, Placement_proofs

\* The inductive invariant: an answer stays good while the list stays the same.
IInv == TypeOK /\ EnoughReplicas

\* The end of putfile_handler keeps the types and leaves a good answer.
LEMMA RespondStep ==
  ASSUME IInv, NEW f \in File, Respond(f), UNCHANGED membership
  PROVE  /\ serving' \in BOOLEAN
         /\ answer' \in {NONE} \cup [1..3 -> Node]
         /\ EnoughReplicas'
  <1>1. CASE answer' = NONE /\ serving' = FALSE
    BY <1>1 DEF EnoughReplicas
  <1>2. CASE ~(answer' = NONE /\ serving' = FALSE)
    <2>1. PICK e \in EndReads :
            LET ips == WhereTo(Letter[f], known, Alive, e)
            IN  END \notin {ips[i] : i \in 1..3} /\ serving' = TRUE /\ answer' = ips
      BY <1>2 DEF Respond
    <2>2. e \in BOOLEAN
      BY PutfileAssumption
    <2>3. known \subseteq Node /\ Alive \subseteq known
      BY DEF IInv, TypeOK, Alive
    <2>4. /\ answer' \in [1..3 -> Node]
          /\ Replicas(answer') \subseteq Alive
          /\ Cardinality(Alive) >= 2 => Cardinality(Replicas(answer')) >= 2
          /\ Cardinality(Alive) >= 4 => Cardinality(Replicas(answer')) = 3
      <3>1. \A ips : Named(ips) = Replicas(ips)
        BY DEF Named, Replicas
      <3>2. /\ answer' \in [1..3 -> Node]
            /\ Named(answer') \subseteq Alive
            /\ Cardinality(Alive) >= 2 => Cardinality(Named(answer')) >= 2
            /\ Cardinality(Alive) >= 4 => Cardinality(Named(answer')) = 3
        BY <2>1, <2>2, <2>3, AnswerIsAlive
      <3> QED BY <3>1, <3>2
    <2>5. Alive' = Alive
      BY DEF membership, Alive
    <2>6. QED
      BY <2>1, <2>4, <2>5 DEF EnoughReplicas, Replicas
  <1>3. QED
    BY <1>1, <1>2

\* Changes of the list withdraw the answer.
LEMMA MembershipStep ==
  ASSUME IInv, NEW n \in Node, Hear(n) \/ Lose(n)
  PROVE  IInv'
  <1>1. EnoughReplicas'
    BY DEF Hear, Lose, EnoughReplicas
  <1>2. TypeOK'
    <2>1. CASE Hear(n)
      BY <2>1 DEF IInv, TypeOK, Hear, Alive
    <2>2. CASE Lose(n)
      BY <2>2 DEF IInv, TypeOK, Lose, Alive
    <2>3. QED
      BY <2>1, <2>2
  <1>3. QED
    BY <1>1, <1>2 DEF IInv

\* Steps that leave the list and the last answer alone leave the answer good.
LEMMA AnswerKept ==
  ASSUME EnoughReplicas, UNCHANGED <<membership, answer>>
  PROVE  EnoughReplicas'
  BY DEF EnoughReplicas, membership, Alive, Replicas

\* The steps of users, and of the service for them.
LEMMA RequestStep ==
  ASSUME IInv, NEW c \in Client, NEW f \in File,
         \/ Confirm(c) \/ Decline(c)
         \/ Lookup(f) \/ PutGranted(c, f) \/ PutConflict(c, f)
  PROVE  IInv'
  <1> USE DEF IInv
  <1>1. CASE Lookup(f)
    <2>1. UNCHANGED membership
      BY <1>1 DEF Lookup
    <2>2. /\ serving' \in BOOLEAN /\ answer' \in {NONE} \cup [1..3 -> Node]
          /\ EnoughReplicas'
      BY <1>1, <2>1, RespondStep DEF Lookup
    <2>3. TypeOK'
      BY <1>1, <2>2 DEF TypeOK, Lookup, membership
    <2>4. QED
      BY <2>2, <2>3
  <1>2. CASE PutGranted(c, f)
    <2>1. UNCHANGED membership
      BY <1>2 DEF PutGranted
    <2>2. /\ serving' \in BOOLEAN /\ answer' \in {NONE} \cup [1..3 -> Node]
          /\ EnoughReplicas'
      BY <1>2, <2>1, RespondStep DEF PutGranted
    <2>3. /\ safety' \in [File -> {NEVER} \cup 0..MaxTime]
          /\ granted' \in [File -> {NEVER} \cup 0..MaxTime]
      BY <1>2 DEF TypeOK, PutGranted
    <2>4. TypeOK'
      BY <1>2, <2>2, <2>3 DEF TypeOK, PutGranted, membership
    <2>5. QED
      BY <2>2, <2>4
  <1>3. CASE Confirm(c)
    <2>1. prompted[c] \in File /\ UNCHANGED membership
      BY <1>3 DEF TypeOK, Confirm
    <2>2. /\ serving' \in BOOLEAN /\ answer' \in {NONE} \cup [1..3 -> Node]
          /\ EnoughReplicas'
      BY <1>3, <2>1, RespondStep DEF Confirm
    <2>3. /\ granted' \in [File -> {NEVER} \cup 0..MaxTime]
          /\ prompted' \in [Client -> File \cup {NONE}]
      BY <1>3, <2>1 DEF TypeOK, Confirm
    <2>4. TypeOK'
      BY <1>3, <2>2, <2>3 DEF TypeOK, Confirm, membership
    <2>5. QED
      BY <2>2, <2>4
  <1>4. CASE Decline(c)
    <2>1. EnoughReplicas'
      BY <1>4, AnswerKept DEF Decline
    <2>2. TypeOK'
      BY <1>4 DEF TypeOK, Decline, membership
    <2>3. QED
      BY <2>1, <2>2
  <1>5. CASE PutConflict(c, f)
    <2>1. EnoughReplicas'
      BY <1>5, AnswerKept DEF PutConflict
    <2>2. TypeOK'
      BY <1>5 DEF TypeOK, PutConflict, membership
    <2>3. QED
      BY <2>1, <2>2
  <1>6. QED
    BY <1>1, <1>2, <1>3, <1>4, <1>5

(* Whatever the master hears and whoever asks, the types are kept and the  *)
(* last answer suits the list it was read from.                            *)
THEOREM Invariance == Spec => []IInv
  <1>1. Init => IInv
    BY PutfileAssumption DEF Init, IInv, TypeOK, EnoughReplicas, NEVER
  <1>2. IInv /\ [Next]_vars => IInv'
    <2>1. SUFFICES ASSUME IInv, [Next]_vars PROVE IInv'
      OBVIOUS
    <2>2. ASSUME NEW n \in Node, Hear(n) \/ Lose(n) PROVE IInv'
      BY <2>1, <2>2, MembershipStep
    <2>3. CASE Tick
      <3>1. EnoughReplicas'
        BY <2>1, <2>3, AnswerKept DEF Tick, IInv
      <3>2. now' \in 0..MaxTime
        BY <2>1, <2>3, PutfileAssumption DEF Tick, IInv, TypeOK
      <3>3. TypeOK'
        BY <2>1, <2>3, <3>2 DEF Tick, IInv, TypeOK, membership
      <3>4. QED
        BY <3>1, <3>3 DEF IInv
    <2>4. ASSUME NEW c \in Client, Confirm(c) \/ Decline(c) PROVE IInv'
      <3>1. prompted[c] \in File
        BY <2>1, <2>4 DEF IInv, TypeOK, Confirm, Decline
      <3>2. QED
        BY <2>1, <2>4, <3>1, RequestStep
    <2>5. ASSUME NEW f \in File, Lookup(f) PROVE IInv'
      <3>1. UNCHANGED membership
        BY <2>5 DEF Lookup
      <3>2. /\ serving' \in BOOLEAN /\ answer' \in {NONE} \cup [1..3 -> Node]
            /\ EnoughReplicas'
        BY <2>1, <2>5, <3>1, RespondStep DEF Lookup
      <3>3. TypeOK'
        BY <2>1, <2>5, <3>2 DEF IInv, TypeOK, Lookup, membership
      <3>4. QED
        BY <3>2, <3>3 DEF IInv
    <2>6. ASSUME NEW c \in Client, NEW f \in File, PutGranted(c, f) \/ PutConflict(c, f)
          PROVE  IInv'
      BY <2>1, <2>6, RequestStep
    <2>7. CASE UNCHANGED vars
      <3>1. EnoughReplicas'
        BY <2>1, <2>7, AnswerKept DEF vars, membership, IInv
      <3>2. TypeOK'
        BY <2>1, <2>7 DEF vars, IInv, TypeOK
      <3>3. QED
        BY <3>1, <3>2 DEF IInv
    <2>8. QED
      BY <2>1, <2>2, <2>3, <2>4, <2>5, <2>6, <2>7 DEF Next
  <1>3. QED
    BY <1>1, <1>2, PTL DEF Spec

\* The variables have their types.
THEOREM TypeCorrect == Spec => []TypeOK
  <1>1. IInv => TypeOK
    BY DEF IInv
  <1>2. QED
    BY <1>1, Invariance, PTL

(* The master's answers name live nodes, two different ones as soon as two *)
(* live and three as soon as four live, for any number of nodes, any       *)
(* addresses and any names.                                                *)
THEOREM GoodAnswers == Spec => []EnoughReplicas
  <1>1. IInv => EnoughReplicas
    BY DEF IInv
  <1>2. QED
    BY <1>1, Invariance, PTL

(* An unforced put is granted only a window after the last one that was    *)
(* recorded, and a confirmed one takes a prompt away: whoever was not      *)
(* asked comes late enough or after a confirmed put.                       *)
THEOREM AskedInTime == Spec => UnaskedOnlyAfterConfirmed
  <1> DEFINE A == \A f \in File :
                    granted'[f] # granted[f] /\ prompted' = prompted
                      => now - granted[f] >= Window \/ granted[f] > safety[f]
  <1>1. TypeOK /\ [Next]_vars => [A]_vars
    <2>1. SUFFICES ASSUME TypeOK, Next, NEW f \in File,
                          granted'[f] # granted[f], prompted' = prompted
                   PROVE  now - granted[f] >= Window \/ granted[f] > safety[f]
      OBVIOUS
    <2>2. ASSUME NEW c \in Client PROVE ~Confirm(c)
      BY <2>1, PutfileAssumption DEF TypeOK, Confirm
    <2>3. PICK c \in Client, g \in File : PutGranted(c, g)
      BY <2>1, <2>2 DEF Next, Hear, Lose, Tick, Decline, Lookup, PutConflict
    <2>4. g = f /\ ~(now - safety[f] < Window)
      BY <2>1, <2>3 DEF PutGranted, TypeOK, Recent
    <2>5. now \in Int /\ safety[f] \in Int /\ granted[f] \in Int /\ Window \in Int
      BY <2>1, PutfileAssumption DEF TypeOK, NEVER
    <2> QED
      BY <2>4, <2>5
  <1> QED
    BY <1>1, TypeCorrect, PTL DEF Spec, UnaskedOnlyAfterConfirmed

-----------------------------------------------------------------------------
(* In such a deployment where_to() finds a primary for every name as long  *)
(* as the master's list has two live nodes.                                *)
THEOREM AlwaysServed ==
  ASSUME Deployment
  PROVE  Spec => []TwoLiveNodesServe
  <1>1. TypeOK => TwoLiveNodesServe
    <2>1. SUFFICES ASSUME TypeOK, Cardinality(Alive) >= 2, NEW f \in File
                   PROVE  Eligible(Letter[f], Alive) # {}
      BY DEF TwoLiveNodesServe
    <2>2. Letter[f] \in Int /\ Alive \subseteq Node
      BY <2>1, PutfileAssumption DEF TypeOK, Alive
    <2>3. QED
      BY <2>1, <2>2, SomeEligible
  <1>2. QED
    BY <1>1, TypeCorrect, PTL
=============================================================================
