---------------------------- MODULE MCTcpClient ----------------------------
(* Instance of TcpClient for TLC.                                          *)
EXTENDS TcpClient
=============================================================================
