---------------------------- MODULE MCTcpServer -----------------------------
(***************************************************************************)
(* Instances of TcpServer for TLC: clients are model values.               *)
(***************************************************************************)
EXTENDS TcpServer

=============================================================================
