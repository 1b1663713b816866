---------------------------- MODULE Orchestrator ----------------------------
(***************************************************************************)
(* OrchestratorService: it inserts a row for an orchestration, answers the *)
(* caller, and runs the steps of the definition in the background.  All    *)
(* that survives a restart is the row; the executor (the promise returned  *)
(* by executeOrchestration) lives in memory.  Every await of the executor  *)
(* is a state of its own, and every await on the database may fail, either *)
(* without effect ("rejected") or after the write was applied              *)
(* ("ambiguous": the connection breaks before the acknowledgement).        *)
(***************************************************************************)
EXTENDS Naturals

CONSTANTS
  Orch,         \* orchestration ids
  NumSteps,     \* steps of the registered definition
  Registered,   \* Registered[o]: the steps with an executor for o's type
  DbFaults      \* the ways a database call may fail

ASSUME NumStepsAssumption == NumSteps \in Nat \ {0}
ASSUME RegisteredAssumption == Registered \in [Orch -> SUBSET (1..NumSteps)]
ASSUME DbFaultsAssumption == DbFaults \subseteq {"rejected", "ambiguous"}

VARIABLES
  row,          \* the orchestrations table
  exec,         \* the in-memory executor of each orchestration
  effects,      \* history: number of steps that reported success
  fault         \* history: the orchestrations a database call of which has failed

orchVars == <<row, exec, effects, fault>>

Status == {"ABSENT", "PENDING", "IN_PROGRESS", "COMPLETED", "FAILED"}
Terminal == {"COMPLETED", "FAILED"}

\* The await at which the executor is suspended.  "over": it returned or
\* threw; "lost": the process died under it; "idle": it never began; "hung":
\* its step awaits a call that is never answered.
Live == {"loading", "marking", "stepping", "running", "hung", "failing",
         "completing", "catching"}
Pc == Live \cup {"idle", "over", "lost"}

\* progress is in units of 100 / NumSteps.
Row == [status : Status, step : 1..NumSteps, progress : 0..NumSteps]
Exec == [pc : Pc, at : 1..NumSteps]

Init ==
  /\ row = [o \in Orch |-> [status |-> "ABSENT", step |-> 1, progress |-> 0]]
  /\ exec = [o \in Orch |-> [pc |-> "idle", at |-> 1]]
  /\ effects = [o \in Orch |-> 0]
  /\ fault = {}

Goto(o, pc) == exec' = [exec EXCEPT ![o].pc = pc]

\* `await prisma.orchestration.update`: the executor goes on at okPc, or at
\* errPc when the call throws.
Persist(o, r, okPc, errPc) ==
  \/ /\ row' = [row EXCEPT ![o] = r]
     /\ Goto(o, okPc)
     /\ UNCHANGED fault
  \/ /\ \/ "rejected" \in DbFaults /\ UNCHANGED row
        \/ "ambiguous" \in DbFaults /\ row' = [row EXCEPT ![o] = r]
     /\ Goto(o, errPc)
     /\ fault' = fault \cup {o}

\* startOrchestration: insert the row; when the insert is acknowledged the
\* executor is launched without being awaited.  An insert that is applied but
\* not acknowledged leaves a row nobody will ever execute.
StartOrchestration(o) ==
  /\ row[o].status = "ABSENT"
  /\ row' = [row EXCEPT ![o] =
                [status |-> "PENDING", step |-> 1, progress |-> 0]]
  /\ \/ Goto(o, "loading") /\ UNCHANGED fault
     \/ /\ "ambiguous" \in DbFaults
        /\ Goto(o, "over")
        /\ fault' = fault \cup {o}
  /\ UNCHANGED effects

\* executeOrchestration reads the row and the definition.  The status it
\* copies is PENDING, so the loop's test for FAILED on that copy never holds.
Load(o) ==
  /\ exec[o].pc = "loading"
  /\ \/ Goto(o, "marking") /\ UNCHANGED fault
     \/ /\ DbFaults # {}
        /\ Goto(o, "over")
        /\ fault' = fault \cup {o}
  /\ UNCHANGED <<row, effects>>

\* The first write is outside the try block: an error leaves the row as is.
MarkInProgress(o) ==
  /\ exec[o].pc = "marking"
  /\ Persist(o, [row[o] EXCEPT !.status = "IN_PROGRESS"], "stepping", "over")
  /\ UNCHANGED effects

\* Faulty variants, for showing that the properties can fail: the current
\* step is not written; the last step is skipped by an off-by-one guard.
EnterStepUnnamed(o) ==
  /\ exec[o].pc = "stepping"
  /\ exec[o].at \in Registered[o]
  /\ Persist(o, [row[o] EXCEPT !.progress = exec[o].at], "running", "catching")
  /\ UNCHANGED effects

EnterStepButLast(o) ==
  /\ exec[o].pc = "stepping"
  /\ exec[o].at \in Registered[o]
  /\ exec[o].at < NumSteps
  /\ Persist(o, [row[o] EXCEPT !.step = exec[o].at, !.progress = exec[o].at],
             "running", "catching")
  /\ UNCHANGED effects

\* Head of the loop: a step without executor throws; otherwise the step and
\* its progress are written before it runs.
EnterStep(o) ==
  /\ exec[o].pc = "stepping"
  /\ exec[o].at \in Registered[o]
  /\ Persist(o, [row[o] EXCEPT !.step = exec[o].at, !.progress = exec[o].at],
             "running", "catching")
  /\ UNCHANGED effects

MissingExecutor(o) ==
  /\ exec[o].pc = "stepping"
  /\ exec[o].at \notin Registered[o]
  /\ Goto(o, "catching")
  /\ UNCHANGED <<row, effects, fault>>

\* Faulty variant: the loop stops one step too early.
StepSucceedsOneShort(o) ==
  /\ exec[o].pc = "running"
  /\ effects' = [effects EXCEPT ![o] = @ + 1]
  /\ exec' = [exec EXCEPT ![o] =
       IF @.at + 1 >= NumSteps THEN [@ EXCEPT !.pc = "completing"]
                               ELSE [pc |-> "stepping", at |-> @.at + 1]]
  /\ UNCHANGED <<row, fault>>

StepSucceeds(o) ==
  /\ exec[o].pc = "running"
  /\ effects' = [effects EXCEPT ![o] = @ + 1]
  /\ exec' = [exec EXCEPT ![o] =
       IF @.at = NumSteps THEN [@ EXCEPT !.pc = "completing"]
                          ELSE [pc |-> "stepping", at |-> @.at + 1]]
  /\ UNCHANGED <<row, fault>>

StepFails(o) ==
  /\ exec[o].pc = "running"
  /\ Goto(o, "failing")
  /\ UNCHANGED <<row, effects, fault>>

StepThrows(o) ==
  /\ exec[o].pc = "running"
  /\ Goto(o, "catching")
  /\ UNCHANGED <<row, effects, fault>>

\* A step may await a call on which neither it nor the engine has put a
\* timeout; if no answer comes, nothing resumes the executor.
StepHangs(o) ==
  /\ exec[o].pc = "running"
  /\ Goto(o, "hung")
  /\ UNCHANGED <<row, effects, fault>>

\* Faulty variants: the failure is returned but not recorded; the early
\* return is missing and the loop goes on with the next step.
RecordFailureNowhere(o) ==
  /\ exec[o].pc = "failing"
  /\ Goto(o, "over")
  /\ UNCHANGED <<row, effects, fault>>

RecordFailureAndGoOn(o) ==
  /\ exec[o].pc = "failing"
  /\ row' = [row EXCEPT ![o].status = "FAILED"]
  /\ exec' = [exec EXCEPT ![o] =
       IF @.at = NumSteps THEN [@ EXCEPT !.pc = "completing"]
                          ELSE [pc |-> "stepping", at |-> @.at + 1]]
  /\ UNCHANGED <<effects, fault>>

RecordFailure(o) ==
  /\ exec[o].pc = "failing"
  /\ Persist(o, [row[o] EXCEPT !.status = "FAILED"], "over", "catching")
  /\ UNCHANGED effects

\* The write of COMPLETED is inside the try block.
RecordCompletion(o) ==
  /\ exec[o].pc = "completing"
  /\ Persist(o, [row[o] EXCEPT !.status = "COMPLETED", !.progress = NumSteps],
             "over", "catching")
  /\ UNCHANGED effects

\* The catch block: whatever it does, the executor ends (the rethrown error
\* is only logged by startOrchestration).
RecordError(o) ==
  /\ exec[o].pc = "catching"
  /\ Persist(o, [row[o] EXCEPT !.status = "FAILED"], "over", "over")
  /\ UNCHANGED effects

\* The process dies and is started again; no code resumes an orchestration.
Restart ==
  /\ \E o \in Orch : exec[o].pc \in Live
  /\ exec' = [o \in Orch |->
       IF exec[o].pc \in Live THEN [exec[o] EXCEPT !.pc = "lost"] ELSE exec[o]]
  /\ UNCHANGED <<row, effects, fault>>

\* What the engine does by itself, the outcome of a step left aside.
EngineStep(o) ==
  \/ Load(o) \/ MarkInProgress(o) \/ EnterStep(o) \/ MissingExecutor(o)
  \/ RecordFailure(o) \/ RecordCompletion(o) \/ RecordError(o)

StepReturns(o) == StepSucceeds(o) \/ StepFails(o) \/ StepThrows(o)

Next ==
  \/ \E o \in Orch :
       StartOrchestration(o) \/ EngineStep(o) \/ StepReturns(o) \/ StepHangs(o)
  \/ Restart

Spec == Init /\ [][Next]_orchVars

\* The event loop resumes every promise whose await has settled. Of the
\* database it is assumed that it answers or that the connection breaks; of a
\* step, nothing: it returns, throws, or hangs.
Fairness == \A o \in Orch : WF_orchVars(EngineStep(o) \/ StepReturns(o))
FairSpec == Spec /\ Fairness
-----------------------------------------------------------------------------
\* Every row and every executor is well formed, and the count of successful
\* steps never exceeds the definition (executeOrchestration's loop).
TypeOK ==
  /\ row \in [Orch -> Row]
  /\ exec \in [Orch -> Exec]
  /\ effects \in [Orch -> 0..NumSteps]
  /\ fault \subseteq Orch

\* A poller that reads COMPLETED may rely on every step having reported
\* success, whatever failed or was retried in between.
CompletedMeansAllSteps ==
  \A o \in Orch : row[o].status = "COMPLETED" => effects[o] = NumSteps

\* The currentStepId and progress a poller reads are those of the last step
\* that succeeded or of the one after it, even when writing them failed.
CursorTracksWork ==
  \A o \in Orch : row[o].status # "ABSENT" =>
    /\ row[o].step \in {effects[o], effects[o] + 1}
    /\ row[o].progress \in {effects[o], effects[o] + 1}

\* What the row says once the executor is gone is the truth unless a database
\* call failed or the process died: it is terminal, and it says FAILED only
\* if some step did not succeed.
HonestOutcome ==
  \A o \in Orch : exec[o].pc = "over" /\ o \notin fault =>
    row[o].status = IF effects[o] = NumSteps THEN "COMPLETED" ELSE "FAILED"

\* A terminal status changes only if a database call of this orchestration
\* failed: nothing in the engine revives or re-judges an orchestration.
TerminalIsFinal ==
  [][\A o \in Orch : row[o].status \in Terminal /\ o \notin fault
                      => row'[o].status = row[o].status]_orchVars

\* The rows and the work done follow the lifecycle promised to pollers.
Lifecycle == INSTANCE OrchestrationLifecycle WITH
  status <- [o \in Orch |-> row[o].status]
ImplementsLifecycle == Lifecycle!Spec

\* An inserted orchestration is eventually decided, unless a database call
\* failed, the process died, or a step hangs for ever: no code decides it then.
StartedIsDecided ==
  \A o \in Orch : row[o].status = "PENDING" ~>
    row[o].status \in Terminal \/ o \in fault \/ exec[o].pc \in {"lost", "hung"}
=============================================================================
