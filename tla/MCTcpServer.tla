---------------------------- MODULE MCTcpServer ------------------------------
EXTENDS TcpServer

\* One spare descriptor and two for connections: a third connection meets EMFILE.
MCFds == 1..3
=============================================================================
