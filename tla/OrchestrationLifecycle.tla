----------------------- MODULE OrchestrationLifecycle -----------------------
(***************************************************************************)
(* What an orchestration promises to whoever polls its row: the status     *)
(* that GET /api/orchestrations/:id can show over time, and how it relates *)
(* to the steps whose work has really been done.  The promise is that of   *)
(* OrchestratorService (src/domains/orchestration/services/                *)
(* orchestrator.service.ts); module Orchestrator implements it.            *)
(***************************************************************************)
EXTENDS Naturals

CONSTANTS
  Orch,         \* orchestration ids
  NumSteps      \* number of steps of the definition

VARIABLES
  status,       \* the status column, "ABSENT" before the row is inserted
  effects       \* how many steps have reported success

lifecycleVars == <<status, effects>>

Init ==
  /\ status = [o \in Orch |-> "ABSENT"]
  /\ effects = [o \in Orch |-> 0]

Create(o) ==
  /\ status[o] = "ABSENT"
  /\ status' = [status EXCEPT ![o] = "PENDING"]
  /\ UNCHANGED effects

Begin(o) ==
  /\ status[o] = "PENDING"
  /\ status' = [status EXCEPT ![o] = "IN_PROGRESS"]
  /\ UNCHANGED effects

\* A step's work counts only while the row says IN_PROGRESS.
Effect(o) ==
  /\ status[o] = "IN_PROGRESS"
  /\ effects[o] < NumSteps
  /\ effects' = [effects EXCEPT ![o] = @ + 1]
  /\ UNCHANGED status

Complete(o) ==
  /\ status[o] = "IN_PROGRESS"
  /\ effects[o] = NumSteps
  /\ status' = [status EXCEPT ![o] = "COMPLETED"]
  /\ UNCHANGED effects

\* COMPLETED is not final: when the write of COMPLETED is applied but its
\* acknowledgement is lost, the catch block overwrites it.
Fail(o) ==
  /\ status[o] \in {"IN_PROGRESS", "COMPLETED"}
  /\ status' = [status EXCEPT ![o] = "FAILED"]
  /\ UNCHANGED effects

Next == \E o \in Orch :
  Create(o) \/ Begin(o) \/ Effect(o) \/ Complete(o) \/ Fail(o)

Spec == Init /\ [][Next]_lifecycleVars
=============================================================================
