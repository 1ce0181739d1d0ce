-------------------------- MODULE FtpTransfer_proofs --------------------------
(* Safety of a transfer for slabs, files and socket buffers of any size.   *)
EXTENDS FtpTransfer, TLAPS

\* Only recv() has been short, if anything.
Clean == faults \subseteq {"short", "garbled"}

\* What the counters of the sender have to do with each other.
Counters ==
  /\ left + read = size
  /\ sender \in {"ask", "open"} => size = 0 /\ sent = 0
  /\ "emptied" \notin faults =>
       /\ sender \in {"sized", "slabs"} => source = size
       /\ read <= sent /\ (left # 0 => read = sent)

\* What has been received is part of what was announced.
Received ==
  /\ receiver \in {"ask", "request", "header"} => taken = 0
  /\ "garbled" \notin faults =>
       /\ taken <= size
       /\ receiver = "slabs" => taken + remaining <= size

\* The handshake as it goes when nothing fails.
Handshake ==
  \/ sender = "ask" /\ receiver = "request" /\ mail = "none" /\ kind = "put"
  \/ sender = "open" /\ receiver = "ask" /\ mail = "none" /\ kind = "get"
  \/ sender = "open" /\ receiver = "request" /\ mail = "request" /\ kind = "put"
  \/ sender = "open" /\ receiver = "header" /\ mail = "named" /\ kind = "put"
  \/ sender = "open" /\ receiver = "header" /\ mail = "request" /\ kind = "get"
  \/ sender = "sized" /\ receiver = "header" /\ mail = "header"
  \/ sender = "sized" /\ receiver \in {"slabs", "linger", "closed"} /\ mail = "ack"
  \/ sender \in {"slabs", "closed"} /\ receiver \in {"slabs", "linger", "closed"} /\ mail = "none"

\* How the two ends stand to each other when nothing fails.
Undisturbed ==
  /\ "garbled" \notin faults
  /\ Handshake
  /\ sender = "closed" => left = 0
  /\ receiver = "slabs" => taken + remaining = size
  /\ receiver \in {"linger", "closed"} =>
       /\ left < Slab /\ (reset => left = 0)
       /\ size < taken + Slab /\ ("short" \notin faults => taken = size)

IInv ==
  /\ TypeOK /\ Counters /\ Received
  /\ reset => receiver \in Gone
  /\ Clean => Undisturbed

-----------------------------------------------------------------------------
\* The invariant holds before the connection is made.
LEMMA InitIInv == Init => IInv
<1> SUFFICES ASSUME Init PROVE IInv
  OBVIOUS
<1>1. TypeOK
  <2>1. source \in Nat /\ read <= source /\ taken <= sent
    BY TransferAssumption DEF Init
  <2>2. sender \in {"ask", "open"} /\ receiver \in {"ask", "request"} /\ faults = {}
    BY DEF Init
  <2> QED
    BY <2>1, <2>2 DEF Init, TypeOK
<1>2. Counters /\ Received /\ ~reset
  BY DEF Init, Counters, Received
<1>3. Undisturbed
  BY DEF Init, Undisturbed, Handshake
<1> QED
  BY <1>1, <1>2, <1>3 DEF IInv

(* A sender that is dead shows that more has gone wrong than short slabs,  *)
(* so the invariant asks nothing of the two ends from then on.             *)
LEMMA DeadIsNotClean == IInv /\ sender = "dead" => ~Clean
  BY DEF IInv, Undisturbed, Handshake

(* The reset at the beginning of a connection, where the receiver's        *)
(* counters get out of step, is outside of everything but the types.       *)
LEMMA RecvFailsStep == IInv /\ RecvFails => IInv'
<1> SUFFICES ASSUME IInv, RecvFails PROVE IInv'
  OBVIOUS
<1>1. sender = "dead" /\ UNCHANGED <<kind, sender, out, reset>> /\ mail' = "none"
  BY DEF RecvFails
<1>2. faults \subseteq faults' /\ faults' \subseteq faults \cup {"garbled"}
  BY DEF RecvFails
<1>3. ~Clean'
  BY <1>1, <1>2, DeadIsNotClean DEF Clean
<1>4. TypeOK'
  <2>1. receiver' \in {"slabs", "linger", "closed", "dead"}
    BY DEF RecvFails, After
  <2>2. remaining' \in Nat /\ taken' = taken
    BY DEF RecvFails, IInv, TypeOK, in
  <2> QED
    BY <1>1, <1>2, <2>1, <2>2 DEF IInv, TypeOK, out, Gone
<1>5. Counters'
  BY <1>1, <1>2 DEF IInv, Counters, out
<1>6. receiver' \in {"dead", "slabs", "linger", "closed"} /\ taken' = taken /\ size' = size
  BY <1>1 DEF RecvFails, in, out, After
<1>7. Received'
  <2>1. CASE receiver' = "dead" /\ UNCHANGED <<in, faults>>
    BY <2>1, <1>6 DEF IInv, Received
  <2>2. CASE faults' = faults \cup {"garbled"}
    BY <2>2, <1>6 DEF Received
  <2> QED
    BY <2>1, <2>2 DEF RecvFails
<1>8. (reset => receiver \in Gone)'
  BY <1>1 DEF IInv, RecvFails, Gone, out
<1> QED
  BY <1>3, <1>4, <1>5, <1>7, <1>8 DEF IInv

\* Every step keeps the invariant.
LEMMA NextIInv == IInv /\ [Next]_vars => IInv'
<1> SUFFICES ASSUME IInv, [Next]_vars PROVE IInv'
  OBVIOUS
<1> USE TransferAssumption DEF IInv, TypeOK, Counters, Received, Clean, Undisturbed, Handshake, Gone, out, in
<1>1. CASE Ask
  BY <1>1 DEF Ask
<1>2. CASE Name
  BY <1>2 DEF Name
<1>3. CASE Open
  BY <1>3 DEF Open
<1>4. CASE Hangup
  BY <1>4 DEF Hangup
<1>5. CASE Head
  BY <1>5 DEF Head
<1>6. CASE Acked
  BY <1>6 DEF Acked
<1>7. CASE SendSlab
  BY <1>7 DEF SendSlab, Least
<1>8. CASE Killed
  BY <1>8 DEF Killed
<1>9. CASE Close
  BY <1>9 DEF Close
<1>10. CASE Recv
  BY <1>10 DEF Recv, Least, Wanted, Last, After
<1>11. CASE RecvEnd
  BY <1>11 DEF RecvEnd, Last, After
<1>12. CASE RecvFails
  BY <1>12, RecvFailsStep
<1>13. CASE RecvDone
  BY <1>13 DEF RecvDone, After
<1>14. CASE Linger
  BY <1>14 DEF Linger, Lingered
<1>15. CASE SenderDies
  BY <1>15 DEF SenderDies, Dies
<1>16. CASE ReceiverDies
  BY <1>16 DEF ReceiverDies, Dies
<1>17. CASE Remove
  BY <1>17 DEF Remove, Dies
<1>18. CASE Empty
  BY <1>18 DEF Empty, Dies
<1>19. CASE UNCHANGED vars
  BY <1>19 DEF vars
<1> QED
  BY <1>1, <1>2, <1>3, <1>4, <1>5, <1>6, <1>7, <1>8, <1>9, <1>10, <1>11, <1>12, <1>13, <1>14, <1>15, <1>16, <1>17, <1>18, <1>19 DEF Next, Sending, Receiving

(* For slabs, files and socket buffers of any size, the invariant holds    *)
(* as long as the transfer goes on.                                        *)
THEOREM Invariance == Spec => []IInv
  BY InitIInv, NextIInv, PTL DEF Spec

(* The counters of the two ends stay numbers, and nothing is received that *)
(* was not sent.                                                           *)
THEOREM TypeCorrect == Spec => []TypeOK
<1>1. IInv => TypeOK
  BY DEF IInv
<1> QED
  BY <1>1, Invariance, PTL

(* The file a receiver writes is the beginning of the sender's, whatever   *)
(* recv() returns and whoever dies.                                        *)
THEOREM PrefixWritten == Spec => []OnlyFileBytes
<1>1. IInv => OnlyFileBytes
  <2> SUFFICES ASSUME IInv, "emptied" \notin faults, "garbled" \notin faults
               PROVE  taken <= read
    BY DEF OnlyFileBytes
  <2>1. taken <= size /\ left + read = size /\ (left # 0 => read = sent)
    BY DEF IInv, Counters, Received
  <2>2. taken <= sent /\ taken \in Nat /\ read \in Nat /\ left \in Nat
    BY DEF IInv, TypeOK
  <2> QED
    BY <2>1, <2>2
<1> QED
  BY <1>1, Invariance, PTL

(* A receiver has the whole file at the end of its loop, or, after a short *)
(* recv(), all of it but less than a slab.                                 *)
THEOREM WholeCopied == Spec => []CopyIsWhole
<1>1. IInv => CopyIsWhole
  BY DEF IInv, Clean, Undisturbed, CopyIsWhole
<1> QED
  BY <1>1, Invariance, PTL

\* No sender dies of a receiver that ends early because of a short recv().
THEOREM SenderLives == Spec => []SenderSurvives
<1>1. IInv => SenderSurvives
  BY DeadIsNotClean DEF Clean, SenderSurvives
<1> QED
  BY <1>1, Invariance, PTL
=============================================================================
