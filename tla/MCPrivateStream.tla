--------------------------- MODULE MCPrivateStream ---------------------------
(* One channel, connected twice, with four events on each connection.      *)
EXTENDS PrivateStream

MCConnections == 2
MCEvents == 4
=============================================================================
