---------------------------- MODULE MCAgentLoop ----------------------------
(***************************************************************************)
(* AgentLoop for TLC: the constants, which are all numbers, modes and      *)
(* Booleans, get their values in MCAgentLoop_*.cfg.                        *)
(***************************************************************************)
EXTENDS AgentLoop
=============================================================================
