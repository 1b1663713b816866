--------------------------- MODULE MCOrchestrator ---------------------------
(***************************************************************************)
(* Two orchestrations of the three-step definition: one whose type has all *)
(* executors registered, one whose last step has none.                     *)
(***************************************************************************)
EXTENDS Orchestrator

CONSTANTS o1, o2

MCOrch == {o1, o2}
MCRegistered == [o \in MCOrch |-> IF o = o1 THEN 1..NumSteps
                                            ELSE 1..(NumSteps - 1)]
=============================================================================
