--------------------------- MODULE MCSkynetServer ---------------------------
(* SkynetServer for TLC: the first worker takes one message at a time, the   *)
(* second as many as are waiting.                                            *)
EXTENDS SkynetServer, TLC

CONSTANTS w1, w2

OneAndAll == w1 :> -1 @@ w2 :> 0
=============================================================================
