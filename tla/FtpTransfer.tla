----------------------------- MODULE FtpTransfer -----------------------------
(***************************************************************************)
(* One upload or download (src/src/ftpclient.cpp, src/src/ftpserver.cpp):  *)
(* a client and the child the server forked for its connection.  The two   *)
(* directions have the same loops, so the ends are called sender and       *)
(* receiver here.  After a handshake the sender reads its file in slabs    *)
(* and always sends whole ones; the receiver writes what recv() returns    *)
(* until it has as many bytes as were announced.                           *)
(*                                                                         *)
(* Bytes are counted, not shown.  The messages of the handshake, of which  *)
(* there is never more than one, arrive whole; slabs come in pieces.  An   *)
(* end may die at any time, which closes its connection.                   *)
(***************************************************************************)
EXTENDS Naturals

CONSTANTS Slab,    \* bytes in a slab, 256
          Sizes,   \* the sizes a file may have
          Window   \* bytes under way before send() blocks

ASSUME TransferAssumption == Slab \in Nat \ {0} /\ Sizes \subseteq Nat /\ Window \in Nat

VARIABLES kind,       \* "put": the client sends; "get": it receives
          sender,     \* where the sender is
          receiver,   \* where the receiver is
          mail,       \* the message of the handshake under way
          source,     \* bytes of the sender's file that can still be read
          size,       \* file_size, the size announced
          left,       \* the sender's bytesRemaining
          read,       \* bytes of the file that have been sent
          sent,       \* bytes that have been sent
          taken,      \* bytes that have been received and written
          remaining,  \* the receiver's remainingData
          reset,      \* something was sent to a receiver that had ended
          faults      \* history: what has gone wrong

out  == <<source, size, left, read, sent>>
in   == <<taken, remaining>>
vars == <<kind, sender, receiver, mail, out, in, reset, faults>>

Gone == {"closed", "dead"}

Least(a, b) == IF a <= b THEN a ELSE b

Init ==
  /\ kind \in {"put", "get"}
  /\ sender = IF kind = "put" THEN "ask" ELSE "open"
  /\ receiver = IF kind = "put" THEN "request" ELSE "ask"
  /\ mail = "none"
  /\ source \in Sizes
  /\ size = 0 /\ left = 0 /\ read = 0 /\ sent = 0 /\ taken = 0 /\ remaining = 0
  /\ reset = FALSE /\ faults = {}

-----------------------------------------------------------------------------
\* The client sends "put" or "get" with the name of the file.
Ask ==
  /\ mail' = "request"
  /\ \/ sender = "ask" /\ sender' = "open" /\ UNCHANGED receiver
     \/ receiver = "ask" /\ receiver' = "header" /\ UNCHANGED sender
  /\ UNCHANGED <<kind, out, in, reset, faults>>

\* The child acknowledges the name of an upload; an empty request ends it.
Name ==
  /\ receiver = "request"
  /\ \/ mail = "request" /\ mail' = "named" /\ receiver' = "header"
     \/ mail # "request" /\ sender \in Gone /\ receiver' = "closed" /\ UNCHANGED mail
  /\ UNCHANGED <<kind, sender, out, in, reset, faults>>

(* The sender opens the file and announces its size; without a file        *)
(* fseek() is given NULL and the process dies.  An uploader does not look  *)
(* at what its recv() of the acknowledgement returned.                     *)
Open ==
  /\ sender = "open"
  /\ \/ mail = IF kind = "put" THEN "named" ELSE "request"
     \/ kind = "put" /\ receiver \in Gone
  /\ IF "removed" \in faults
       THEN sender' = "dead" /\ mail' = "none" /\ UNCHANGED out
       ELSE /\ sender' = "sized" /\ mail' = "header"
            /\ size' = source /\ left' = source /\ UNCHANGED <<source, read, sent>>
  /\ UNCHANGED <<kind, receiver, in, reset, faults>>

\* The child of a download whose client ended before it asked.
Hangup ==
  /\ sender = "open" /\ kind = "get" /\ mail # "request" /\ receiver \in Gone
  /\ sender' = "closed"
  /\ UNCHANGED <<kind, receiver, mail, out, in, reset, faults>>

(* The receiver takes the size, sends it back and opens its file with "wb".*)
(* If the sender has ended, atoi() of what the buffer held before is 0; if *)
(* it left a message unread, sending the size back may raise SIGPIPE.      *)
Head ==
  /\ receiver = "header"
  /\ \/ /\ mail = "header" /\ mail' = "ack"
        /\ receiver' = "slabs" /\ remaining' = size
     \/ /\ mail # "header" /\ sender \in Gone
        /\ receiver' \in IF mail = "none" THEN {"slabs"} ELSE {"slabs", "dead"}
        /\ remaining' = 0 /\ UNCHANGED mail
  /\ UNCHANGED <<kind, sender, out, taken, reset, faults>>

\* The sender waits for the size to come back, or for the end of the connection.
Acked ==
  /\ sender = "sized"
  /\ mail = "ack" \/ receiver \in Gone
  /\ mail' = "none" /\ sender' = "slabs"
  /\ UNCHANGED <<kind, receiver, out, in, reset, faults>>

(* One round of the sender's loop.  What fread() does not fill of the slab *)
(* is sent as it was.  The first slab that is sent after the receiver has  *)
(* ended is answered with a reset.                                         *)
SendSlab ==
  LET k == Least(Least(left, Slab), source - read) IN
  /\ sender = "slabs" /\ left # 0
  /\ IF receiver \in Gone THEN k > 0 \/ ~reset ELSE sent - taken + Slab <= Window
  /\ read' = read + k /\ left' = left - k
  /\ sent' = IF k > 0 \/ receiver \notin Gone THEN sent + Slab ELSE sent
  /\ reset' = (reset \/ receiver \in Gone)
  /\ UNCHANGED <<kind, sender, receiver, mail, source, size, in, faults>>

\* After a reset send() raises SIGPIPE.
Killed ==
  /\ sender = "slabs" /\ left # 0 /\ receiver \in Gone /\ reset
  /\ sender' = "dead"
  /\ UNCHANGED <<kind, receiver, mail, out, in, reset, faults>>

Close ==
  /\ sender = "slabs" /\ left = 0
  /\ sender' = "closed"
  /\ UNCHANGED <<kind, receiver, mail, out, in, reset, faults>>

-----------------------------------------------------------------------------
\* After its loop a child waits for a "lingering packet"; a client closes.
After == IF kind = "put" THEN "linger" ELSE "closed"

\* Mutant: the last slab is received with its padding.
WantedWhole == Slab

\* The number of bytes recv() is asked for.
Wanted == Least(remaining, Slab)

\* Mutant: a short slab is taken for the last one.
LastShort(k) == remaining < Slab \/ k < Slab

\* The branch for less than a slab ends with a break, whatever was received.
Last(k) == remaining < Slab

\* One round of the receiver's loop: recv() returns some of what has arrived.
Recv ==
  /\ receiver = "slabs" /\ remaining # 0
  /\ \E k \in 1..Least(Wanted, sent - taken) :
       /\ taken' = taken + k
       /\ remaining' = remaining - k
       /\ receiver' = IF Last(k) THEN After ELSE receiver
       /\ faults' = IF k < Least(remaining, Slab) THEN faults \cup {"short"} ELSE faults
  /\ UNCHANGED <<kind, sender, mail, out, reset>>

(* recv() returns 0 when the sender has ended.  In the branch for a whole  *)
(* slab nothing changes, and the loop turns for ever.                      *)
RecvEnd ==
  /\ receiver = "slabs" /\ remaining # 0 /\ sent = taken
  /\ sender = "closed" \/ (sender = "dead" /\ mail # "ack")
  /\ Last(0) /\ receiver' = After
  /\ UNCHANGED <<kind, sender, mail, out, in, reset, faults>>

(* The sender has died before the acknowledgement reached it: the          *)
(* connection is reset, recv() returns -1, and fwrite() is told to write   *)
(* as many bytes as there are.                                             *)
RecvFails ==
  /\ receiver = "slabs" /\ remaining # 0 /\ sender = "dead" /\ mail = "ack"
  /\ mail' = "none"
  /\ \/ receiver' = "dead" /\ UNCHANGED <<in, faults>>
     \/ /\ receiver' = IF Last(0) THEN After ELSE receiver
        /\ remaining' = remaining + 1
        /\ faults' = faults \cup {"garbled"}
        /\ UNCHANGED taken
  /\ UNCHANGED <<kind, sender, out, reset>>

RecvDone ==
  /\ receiver = "slabs" /\ remaining = 0
  /\ receiver' = After
  /\ UNCHANGED <<kind, sender, mail, out, in, reset, faults>>

\* Mutant: the child waits until there is a packet.
LingeredOn == sent > taken

\* The end of the connection ends the wait as well.
Lingered == sent > taken \/ sender \in Gone

(* The child closes its connection; its loop goes on with a recv() of the  *)
(* closed descriptor, which fails and ends it.                             *)
Linger ==
  /\ receiver = "linger" /\ Lingered
  /\ receiver' = "closed"
  /\ UNCHANGED <<kind, sender, mail, out, in, reset, faults>>

-----------------------------------------------------------------------------
Dies(f) == f \notin faults /\ faults' = faults \cup {f}

SenderDies ==
  /\ sender \notin Gone /\ Dies("sender")
  /\ sender' = "dead"
  /\ UNCHANGED <<kind, receiver, mail, out, in, reset>>

ReceiverDies ==
  /\ receiver \notin Gone /\ Dies("receiver")
  /\ receiver' = "dead"
  /\ UNCHANGED <<kind, sender, mail, out, in, reset>>

\* The file is unlinked before the sender opens it.
Remove ==
  /\ sender \in {"ask", "open"} /\ Dies("removed")
  /\ UNCHANGED <<kind, sender, receiver, mail, out, in, reset>>

\* Another upload empties the file; stdio may have read more than was sent.
Empty ==
  /\ sender \in {"sized", "slabs"} /\ Dies("emptied")
  /\ source' \in read..source
  /\ UNCHANGED <<kind, sender, receiver, mail, size, left, read, sent, in, reset>>

Sending   == Open \/ Hangup \/ Acked \/ SendSlab \/ Close
Receiving == Name \/ Head \/ Recv \/ RecvEnd \/ RecvFails \/ RecvDone \/ Linger

Next ==
  \/ Ask \/ Sending \/ Killed \/ Receiving
  \/ SenderDies \/ ReceiverDies \/ Remove \/ Empty

\* The two processes run, and a reset arrives; nothing has to go wrong.
Spec == /\ Init /\ [][Next]_vars
        /\ WF_vars(Ask) /\ WF_vars(Sending) /\ WF_vars(Killed) /\ WF_vars(Receiving)

-----------------------------------------------------------------------------
\* The variables have their types and nothing is received before it was sent.
TypeOK ==
  /\ kind \in {"put", "get"}
  /\ sender \in {"ask", "open", "sized", "slabs"} \cup Gone
  /\ receiver \in {"ask", "request", "header", "slabs", "linger"} \cup Gone
  /\ mail \in {"none", "request", "named", "header", "ack"}
  /\ source \in Nat /\ size \in Nat /\ left \in Nat /\ read \in Nat
  /\ sent \in Nat /\ taken \in Nat /\ remaining \in Nat
  /\ read <= source /\ taken <= sent
  /\ reset \in BOOLEAN
  /\ faults \subseteq {"short", "garbled", "sender", "receiver", "removed", "emptied"}

(* What the receiver has written is the beginning of the sender's file: no *)
(* padding of a slab gets into it, in however small pieces the slabs come, *)
(* and whoever dies, unless the file changes while it is sent or the       *)
(* connection is reset at its beginning.                                   *)
OnlyFileBytes == faults \cap {"emptied", "garbled"} = {} => taken <= read

(* A receiver that has ended its loop has the whole file if every recv()   *)
(* returned what it was asked for; after a short one less than a slab may  *)
(* be missing, which nobody notices.                                       *)
CopyIsWhole ==
  receiver \in {"linger", "closed"} =>
    /\ faults = {} => taken = size
    /\ faults = {"short"} => size < taken + Slab

(* A receiver that ends early because of a short recv() leaves its sender  *)
(* at most one slab to send, too few for SIGPIPE: an uploading node        *)
(* only dies if it is killed, the receiver dies, or its file is changed.   *)
SenderSurvives == sender = "dead" => ~(faults \subseteq {"short", "garbled"})

(* The sender always ends, whatever happens to its file or its receiver.   *)
(* The receiver always ends unless the sender has been killed.             *)
Ends == <>(sender \in Gone) /\ <>(receiver \in Gone \/ "sender" \in faults)
=============================================================================
