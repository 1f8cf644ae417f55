--------------------------- MODULE MCConnections ---------------------------
(* Five numbers from 3 on, 3 being the log's, four below max_fd.            *)
EXTENDS Connections

MCFdNum == 3 .. 7
=============================================================================
