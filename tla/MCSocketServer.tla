--------------------------- MODULE MCSocketServer ---------------------------
(* SocketServer for TLC: an agent and a gateway write to the same sockets,   *)
(* the gateway also closes them or shuts them down.                          *)
EXTENDS SocketServer

CONSTANTS agent, gate

GateCloses  == [w \in {agent, gate} |-> IF w = gate THEN BOOLEAN ELSE {}]
OnlyClose   == [w \in {agent, gate} |-> IF w = gate THEN {FALSE} ELSE {}]
AgentLow    == [w \in {agent, gate} |-> IF w = agent THEN {"P"} ELSE {"D"}]
AllHigh     == [w \in {agent, gate} |-> {"D"}]
=============================================================================
