-------------------------- MODULE MCTcpConnection --------------------------
\* Instance of TcpConnection for TLC.
EXTENDS TcpConnection
=============================================================================
