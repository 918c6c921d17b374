--------------------------- MODULE MC_SocketRelay ----------------------------
(* Three callers, so that one may take what another left, and queues of one, *)
(* so that a second request and a second answer find their channel full.    *)
EXTENDS SocketRelay

CONSTANTS a, b, c
=============================================================================
