--------------------------- MODULE MCPutfileServer ---------------------------
(* Node octets from 37 on as in the deployment where_to() is written for.  *)
(* The letters have different residues for the moduli 2, 3 and 4, and one  *)
(* of the file names starts with a character before 'a'.                   *)
EXTENDS PutfileServer

MCOctet  == [n \in Node |-> 36 + n]
MCLetter == [f \in File |-> CASE f = "l" -> 11
                              [] f = "A" -> -32
                              [] OTHER -> 0]
=============================================================================
