-------------------------- MODULE MCAgentCreation --------------------------
(***************************************************************************)
(* Two creations paid by one transaction that race for two ports           *)
(* (MCAgentPorts.cfg), and one creation with a picture under faults, a     *)
(* crash and two lifecycle calls (MCAgentFaults.cfg).                      *)
(***************************************************************************)
EXTENDS AgentCreation

CONSTANTS t1

MCRegistered == [o \in Orch |-> 1..3]
MCTxOf == [o \in Orch |-> t1]
=============================================================================
