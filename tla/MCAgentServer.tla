--------------------------- MODULE MCAgentServer ---------------------------
(* The run of AgentServer: two cases, and one blocking call. *)
EXTENDS AgentServer
CONSTANTS call
MCBlocking == {call}
=============================================================================
