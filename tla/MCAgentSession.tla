---------------------------- MODULE MCAgentSession ----------------------------
(***************************************************************************)
(* Two voice channels and a DM, with sessions and requests enough for a     *)
(* resume to take a route over from a session that is still starting, or    *)
(* whose row a touch or an answer is about to write.                        *)
(***************************************************************************)
EXTENDS AgentSession

FirstHome == [ s \in Earlier |-> "a" ]
=============================================================================
