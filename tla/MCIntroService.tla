---------------------------- MODULE MCIntroService ----------------------------
(* One octet below the introducer's and one above it.                      *)
EXTENDS IntroService, Sequences

MCOctet == [ip \in Ip |-> <<39, 38, 40>>[ip]]
=============================================================================
