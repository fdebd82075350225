---------------------------- MODULE MCAgentConn ----------------------------
(* Small instances of AgentConn for TLC.                                     *)
EXTENDS AgentConn

KeylessHello == {NoKeys}
AllHellos == [client : KeyForms, host : KeyForms]
=============================================================================
