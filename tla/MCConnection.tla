---------------------------- MODULE MCConnection ----------------------------
(* Two requests over three sockets: one can time out and be answered late  *)
(* while the other is sent, before or after a socket is replaced.          *)
EXTENDS Connection
=============================================================================
