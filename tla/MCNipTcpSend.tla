---------------------------- MODULE MCNipTcpSend ----------------------------
(***************************************************************************)
(* Instances of NipTcpSend for TLC.                                        *)
(***************************************************************************)
EXTENDS NipTcpSend
=============================================================================
