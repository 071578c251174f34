---------------------------- MODULE MCNipTcpConn ----------------------------
(***************************************************************************)
(* Instances of NipTcpConn for TLC.                                        *)
(***************************************************************************)
EXTENDS NipTcpConn

\* The server answers, the client has nothing to send.
ServerData == [e \in {"C", "S"} |-> IF e = "S" THEN 1 ELSE 0]
=============================================================================
