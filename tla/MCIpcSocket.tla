---------------------------- MODULE MCIpcSocket ----------------------------
(* Three sockets: one in use, one on its way to 'close', and one too many. *)
EXTENDS IpcSocket, TLC

CONSTANTS s1, s2, s3

MCSockets == {s1, s2, s3}
(* The program takes only the 'error' of _onSocketError for the end of the *)
(* attempts.                                                               *)
MCStartAndErrors == {"start", "error"}
=============================================================================
