---------------------------- MODULE MCFtpTransfer ----------------------------
(* Files of up to three slabs and a bit.                                   *)
EXTENDS FtpTransfer

MCSizes == 0..10
=============================================================================
