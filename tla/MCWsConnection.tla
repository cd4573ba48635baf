--------------------------- MODULE MCWsConnection ---------------------------
(* Small instances of WsConnection for TLC.  Connections share nothing but *)
(* the channel, which none of them changes: one connection, with more      *)
(* events and commands, shows more than two with fewer.                    *)
EXTENDS WsConnection

CONSTANT c1

=============================================================================
