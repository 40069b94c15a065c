----------------------------- MODULE MCTcpServer -----------------------------
\* Instance of TcpServer for TLC.
EXTENDS TcpServer
=============================================================================
