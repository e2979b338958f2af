--------------------------- MODULE MCRpcConnection ---------------------------
(* The editor and the agent server.                                        *)
EXTENDS RpcConnection

CONSTANTS editor, server

MCPeer == {editor, server}
MCOther == [p \in MCPeer |-> CHOOSE q \in MCPeer : q # p]

MCQuotas == {[p \in MCPeer |-> 1], [p \in MCPeer |-> IF p = editor THEN 2 ELSE 0]}
=============================================================================
