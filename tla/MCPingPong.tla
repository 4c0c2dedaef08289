----------------------------- MODULE MCPingPong -----------------------------
(* Two cores, a few handoffs, a few calls of measure(). *)
EXTENDS PingPong
=============================================================================
