------------------------------ MODULE MCAgentTurn ------------------------------
(***************************************************************************)
(* One task with two attempts, two deliveries, two threads that can be      *)
(* created, an earlier one that Discord may lose, and one restart.          *)
(***************************************************************************)
EXTENDS AgentTurn
=============================================================================
