---------------------------- MODULE MCConnection ----------------------------
(* Three sockets: one in use, one on its way to 'close', and one too many; *)
(* two servers: the one that listens and the one that takes its place.     *)
EXTENDS Connection, TLC

CONSTANTS s1, s2, s3, v1, v2

MCSockets == {s1, s2, s3}
MCServers == {v1, v2}
(* The program takes only the 'error' of _onSocketError for the end of the *)
(* attempts.                                                               *)
MCStartAndErrors == {"start", "error"}
MCServesAgain == {"start", "stopped", "error"}
=============================================================================
