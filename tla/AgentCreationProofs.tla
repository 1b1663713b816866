------------------------ MODULE AgentCreationProofs ------------------------
(***************************************************************************)
(* First the orchestration engine, for any set of orchestrations, any      *)
(* number of steps, any set of registered executors and any database       *)
(* faults. The creation of agents drives the engine as Orchestrator        *)
(* describes it, so that what is proved of the engine holds of it; no      *)
(* agent exists before its payment is accepted; and four inductive         *)
(* invariants, each resting on the ones before it, give the other          *)
(* invariants of AgentCreation:                                            *)
(*   WorkInv      what has been made and recorded when the executor stands *)
(*                at a stage: completed creations, orphaned containers     *)
(*   PortsInv     who may hold, or have chosen, the same port as another   *)
(*   StatusesInv  how status and container part and meet again             *)
(*   PicturesInv  where the picture of a request is                        *)
(***************************************************************************)
EXTENDS AgentCreation, TLAPS

-----------------------------------------------------------------------------
(* The inductive invariant: what each await of executeOrchestration knows   *)
(* of the row and of the work done.                                        *)

\* Before the row exists nothing has happened.
AbsentInv(o) ==
  /\ row[o].status = "ABSENT" => effects[o] = 0 /\ exec[o].pc = "idle"
  /\ exec[o].pc = "idle" => row[o].status = "ABSENT" /\ exec[o].at = 1

\* Until the first write of the executor the row is as inserted.
FreshInv(o) ==
  exec[o].pc \in {"loading", "marking"} =>
    /\ row[o] = [status |-> "PENDING", step |-> 1, progress |-> 0]
    /\ exec[o].at = 1
    /\ effects[o] = 0

\* Inside the loop the row says IN_PROGRESS and the steps before exec[o].at
\* have succeeded.
LoopInv(o) ==
  /\ exec[o].pc \in {"stepping", "running", "hung", "failing", "completing"} =>
       row[o].status = "IN_PROGRESS"
  /\ exec[o].pc \in {"stepping", "running", "hung", "failing"} =>
       effects[o] = exec[o].at - 1
  /\ exec[o].pc \in {"running", "hung", "failing"} =>
       row[o].step = exec[o].at /\ row[o].progress = exec[o].at
  /\ exec[o].pc = "completing" => effects[o] = NumSteps

\* The catch block is entered with the row still IN_PROGRESS and the work
\* unfinished, unless a database call failed.
CatchInv(o) ==
  exec[o].pc = "catching" =>
    /\ row[o].status \in {"IN_PROGRESS", "COMPLETED", "FAILED"}
    /\ o \notin fault => row[o].status = "IN_PROGRESS" /\ effects[o] < NumSteps

\* Only an executor that is ending, or has ended, leaves a terminal row.
TerminalInv(o) ==
  /\ row[o].status \in Terminal => exec[o].pc \in {"catching", "over", "lost"}
  /\ row[o].status = "COMPLETED" => effects[o] = NumSteps

OrchInv(o) ==
  /\ AbsentInv(o) /\ FreshInv(o) /\ LoopInv(o) /\ CatchInv(o)
  /\ TerminalInv(o)

IInv ==
  /\ TypeOK
  /\ \A o \in Orch : OrchInv(o)
  /\ CursorTracksWork
  /\ HonestOutcome

\* The part of IInv that speaks of one orchestration.
OneInv(o) ==
  /\ row[o] \in Row /\ exec[o] \in Exec
  /\ effects[o] \in 0..NumSteps
  /\ OrchInv(o)
  /\ row[o].status # "ABSENT" =>
       /\ row[o].step \in {effects[o], effects[o] + 1}
       /\ row[o].progress \in {effects[o], effects[o] + 1}
  /\ exec[o].pc = "over" /\ o \notin fault =>
       row[o].status = IF effects[o] = NumSteps THEN "COMPLETED" ELSE "FAILED"

\* The tables are functions on Orch.
Shape ==
  /\ row = [o \in Orch |-> row[o]]
  /\ exec = [o \in Orch |-> exec[o]]
  /\ effects = [o \in Orch |-> effects[o]]
  /\ fault \subseteq Orch

-----------------------------------------------------------------------------
\* IInv is the conjunction of its parts, orchestration by orchestration.
LEMMA Pointwise == IInv <=> Shape /\ \A o \in Orch : OneInv(o)
  BY DEF IInv, TypeOK, CursorTracksWork, HonestOutcome, OneInv, Shape

LEMMA PointwisePrimed == IInv' <=> Shape' /\ \A o \in Orch : OneInv(o)'
  BY DEF IInv, TypeOK, CursorTracksWork, HonestOutcome, OneInv, Shape,
         OrchInv, AbsentInv, FreshInv, LoopInv, CatchInv, TerminalInv

\* An orchestration whose row, executor and history do not change keeps its
\* part of the invariant.
LEMMA Frame ==
  ASSUME NEW p \in Orch, OneInv(p),
         row'[p] = row[p], exec'[p] = exec[p],
         effects'[p] = effects[p], (p \in fault' <=> p \in fault)
  PROVE  OneInv(p)'
  BY DEF OneInv, OrchInv, AbsentInv, FreshInv, LoopInv, CatchInv, TerminalInv

\* A step that leaves every other orchestration alone preserves IInv if it
\* preserves the part of its own.
LEMMA Local ==
  ASSUME NEW o \in Orch, IInv, Shape', OneInv(o)',
         \A p \in Orch \ {o} :
           /\ row'[p] = row[p] /\ exec'[p] = exec[p]
           /\ effects'[p] = effects[p] /\ (p \in fault' <=> p \in fault)
  PROVE  IInv'
  <1>1. \A p \in Orch : OneInv(p)
    BY Pointwise
  <1>2. ASSUME NEW p \in Orch PROVE OneInv(p)'
    <2>1. CASE p = o
      BY <2>1
    <2>2. CASE p # o
      BY <1>1, <2>2, Frame
    <2>3. QED
      BY <2>1, <2>2
  <1>3. QED
    BY <1>2, PointwisePrimed

\* What a database write leaves behind, whether or not it is acknowledged.
LEMMA PersistOutcome ==
  ASSUME NEW o \in Orch, Shape, exec[o] \in Exec, NEW r, NEW okPc, NEW errPc,
         Persist(o, r, okPc, errPc)
  PROVE  /\ exec'[o].at = exec[o].at
         /\ exec'[o] = [pc |-> exec'[o].pc, at |-> exec'[o].at]
         /\ \/ row'[o] = r /\ exec'[o].pc = okPc
            \/ /\ row'[o] = row[o] \/ row'[o] = r
               /\ exec'[o].pc = errPc
               /\ o \in fault'
  BY DEF Shape, Exec, Persist, Goto

\* The row is inserted.
LEMMA StartOrchestrationInv ==
  ASSUME IInv, NEW o \in Orch, StartOrchestration(o)
  PROVE  IInv'
  <1>1. Shape /\ OneInv(o)
    BY Pointwise
  <1>2. Shape'
    BY <1>1 DEF Shape, StartOrchestration, Goto
  <1>3. \A p \in Orch \ {o} :
           /\ row'[p] = row[p] /\ exec'[p] = exec[p]
           /\ effects'[p] = effects[p] /\ (p \in fault' <=> p \in fault)
    BY <1>1 DEF Shape, StartOrchestration, Goto
  <1>4. /\ row[o].status = "ABSENT" /\ effects'[o] = effects[o]
        /\ row'[o] = [status |-> "PENDING", step |-> 1, progress |-> 0]
        /\ \/ exec'[o] = [pc |-> "loading", at |-> exec[o].at]
           \/ exec'[o] = [pc |-> "over", at |-> exec[o].at] /\ o \in fault'
    BY <1>1 DEF Shape, OneInv, Exec, StartOrchestration, Goto
  <1>5. effects[o] = 0 /\ exec[o].at = 1
    BY <1>1, <1>4 DEF OneInv, OrchInv, AbsentInv
  <1>6. OneInv(o)'
    <2>1. CASE exec'[o].pc = "loading"
      BY <1>4, <1>5, <2>1, NumStepsAssumption
      DEF OneInv, Row, Exec, Status, Pc, Live, Terminal, OrchInv, AbsentInv,
          FreshInv, LoopInv, CatchInv, TerminalInv
    <2>2. CASE exec'[o].pc = "over" /\ o \in fault'
      BY <1>4, <1>5, <2>2, NumStepsAssumption
      DEF OneInv, Row, Exec, Status, Pc, Live, Terminal, OrchInv, AbsentInv,
          FreshInv, LoopInv, CatchInv, TerminalInv
    <2>3. QED
      BY <1>4, <2>1, <2>2
  <1>7. QED
    BY <1>2, <1>3, <1>6, Local

\* The executor reads the row.
LEMMA LoadInv ==
  ASSUME IInv, NEW o \in Orch, Load(o)
  PROVE  IInv'
  <1>1. Shape /\ OneInv(o)
    BY Pointwise
  <1>2. Shape'
    BY <1>1 DEF Shape, Load, Goto
  <1>3. \A p \in Orch \ {o} :
           /\ row'[p] = row[p] /\ exec'[p] = exec[p]
           /\ effects'[p] = effects[p] /\ (p \in fault' <=> p \in fault)
    BY <1>1 DEF Shape, Load, Goto
  <1>4. OneInv(o)'
    BY <1>1, NumStepsAssumption
    DEF Shape, Load, Goto, OneInv, Row, Exec, Status, Pc, Live, Terminal, OrchInv, AbsentInv, FreshInv, LoopInv, CatchInv, TerminalInv
  <1>5. QED
    BY <1>2, <1>3, <1>4, Local

\* The first write of the executor.
LEMMA MarkInProgressInv ==
  ASSUME IInv, NEW o \in Orch, MarkInProgress(o)
  PROVE  IInv'
  <1>1. Shape /\ OneInv(o)
    BY Pointwise
  <1>2. Shape'
    BY <1>1 DEF Shape, MarkInProgress, Persist, Goto
  <1>3. \A p \in Orch \ {o} :
           /\ row'[p] = row[p] /\ exec'[p] = exec[p]
           /\ effects'[p] = effects[p] /\ (p \in fault' <=> p \in fault)
    BY <1>1 DEF Shape, MarkInProgress, Persist, Goto
  <1>4. OneInv(o)'
    BY <1>1, NumStepsAssumption
    DEF Shape, MarkInProgress, Persist, Goto, OneInv, Row, Exec, Status, Pc, Live, Terminal, OrchInv, AbsentInv, FreshInv, LoopInv, CatchInv, TerminalInv
  <1>5. QED
    BY <1>2, <1>3, <1>4, Local

\* The head of the loop writes the step.
LEMMA EnterStepInv ==
  ASSUME IInv, NEW o \in Orch, EnterStep(o)
  PROVE  IInv'
  <1>1. Shape /\ OneInv(o)
    BY Pointwise
  <1>2. Shape'
    BY <1>1 DEF Shape, EnterStep, Persist, Goto
  <1>3. \A p \in Orch \ {o} :
           /\ row'[p] = row[p] /\ exec'[p] = exec[p]
           /\ effects'[p] = effects[p] /\ (p \in fault' <=> p \in fault)
    BY <1>1 DEF Shape, EnterStep, Persist, Goto
  <1> DEFINE r == [row[o] EXCEPT !.step = exec[o].at, !.progress = exec[o].at]
  <1>4. /\ exec[o].pc = "stepping" /\ effects'[o] = effects[o]
        /\ Persist(o, r, "running", "catching")
    BY <1>1 DEF Shape, EnterStep
  <1>5. /\ exec'[o].at = exec[o].at
        /\ exec'[o] = [pc |-> exec'[o].pc, at |-> exec'[o].at]
        /\ \/ row'[o] = r /\ exec'[o].pc = "running"
           \/ /\ row'[o] = row[o] \/ row'[o] = r
              /\ exec'[o].pc = "catching"
              /\ o \in fault'
    BY <1>1, <1>4, PersistOutcome DEF OneInv
  <1>6. /\ row[o].status = "IN_PROGRESS" /\ effects[o] = exec[o].at - 1
        /\ exec[o].at \in 1..NumSteps
        /\ r \in Row /\ r.status = "IN_PROGRESS"
        /\ r.step = exec[o].at /\ r.progress = exec[o].at
    <2>1. row[o].status = "IN_PROGRESS" /\ effects[o] = exec[o].at - 1
      BY <1>1, <1>4 DEF OneInv, OrchInv, LoopInv
    <2>2. exec[o].at \in 1..NumSteps /\ exec[o].at \in 0..NumSteps
      BY <1>1, NumStepsAssumption DEF OneInv, Exec
    <2>3. row[o] \in Row
      BY <1>1 DEF OneInv
    <2>4. r \in Row /\ r.status = row[o].status
          /\ r.step = exec[o].at /\ r.progress = exec[o].at
      BY <2>2, <2>3 DEF Row
    <2>5. QED
      BY <2>1, <2>2, <2>4
  <1> HIDE DEF r
  <1>7. OneInv(o)'
    <2>1. CASE row'[o] = r /\ exec'[o].pc = "running"
      BY <1>1, <1>4, <1>5, <1>6, <2>1, NumStepsAssumption
      DEF OneInv, Row, Exec, Status, Pc, Live, Terminal, OrchInv, AbsentInv,
          FreshInv, LoopInv, CatchInv, TerminalInv
    <2>2. CASE /\ row'[o] = row[o] \/ row'[o] = r
               /\ exec'[o].pc = "catching"
               /\ o \in fault'
      BY <1>1, <1>4, <1>5, <1>6, <2>2, NumStepsAssumption
      DEF OneInv, Row, Exec, Status, Pc, Live, Terminal, OrchInv, AbsentInv,
          FreshInv, LoopInv, CatchInv, TerminalInv
    <2>3. QED
      BY <1>5, <2>1, <2>2
  <1>8. QED
    BY <1>2, <1>3, <1>7, Local

\* The head of the loop throws.
LEMMA MissingExecutorInv ==
  ASSUME IInv, NEW o \in Orch, MissingExecutor(o)
  PROVE  IInv'
  <1>1. Shape /\ OneInv(o)
    BY Pointwise
  <1>2. Shape'
    BY <1>1 DEF Shape, MissingExecutor, Goto
  <1>3. \A p \in Orch \ {o} :
           /\ row'[p] = row[p] /\ exec'[p] = exec[p]
           /\ effects'[p] = effects[p] /\ (p \in fault' <=> p \in fault)
    BY <1>1 DEF Shape, MissingExecutor, Goto
  <1>4. OneInv(o)'
    BY <1>1, NumStepsAssumption
    DEF Shape, MissingExecutor, Goto, OneInv, Row, Exec, Status, Pc, Live, Terminal, OrchInv, AbsentInv, FreshInv, LoopInv, CatchInv, TerminalInv
  <1>5. QED
    BY <1>2, <1>3, <1>4, Local

\* A step reports success.
LEMMA StepSucceedsInv ==
  ASSUME IInv, NEW o \in Orch, StepSucceeds(o)
  PROVE  IInv'
  <1>1. Shape /\ OneInv(o)
    BY Pointwise
  <1>2. Shape'
    BY <1>1 DEF Shape, StepSucceeds, Goto
  <1>3. \A p \in Orch \ {o} :
           /\ row'[p] = row[p] /\ exec'[p] = exec[p]
           /\ effects'[p] = effects[p] /\ (p \in fault' <=> p \in fault)
    BY <1>1 DEF Shape, StepSucceeds, Goto
  <1>4. OneInv(o)'
    BY <1>1, NumStepsAssumption
    DEF Shape, StepSucceeds, Goto, OneInv, Row, Exec, Status, Pc, Live, Terminal, OrchInv, AbsentInv, FreshInv, LoopInv, CatchInv, TerminalInv
  <1>5. QED
    BY <1>2, <1>3, <1>4, Local

\* A step reports failure.
LEMMA StepFailsInv ==
  ASSUME IInv, NEW o \in Orch, StepFails(o)
  PROVE  IInv'
  <1>1. Shape /\ OneInv(o)
    BY Pointwise
  <1>2. Shape'
    BY <1>1 DEF Shape, StepFails, Goto
  <1>3. \A p \in Orch \ {o} :
           /\ row'[p] = row[p] /\ exec'[p] = exec[p]
           /\ effects'[p] = effects[p] /\ (p \in fault' <=> p \in fault)
    BY <1>1 DEF Shape, StepFails, Goto
  <1>4. OneInv(o)'
    BY <1>1, NumStepsAssumption
    DEF Shape, StepFails, Goto, OneInv, Row, Exec, Status, Pc, Live, Terminal, OrchInv, AbsentInv, FreshInv, LoopInv, CatchInv, TerminalInv
  <1>5. QED
    BY <1>2, <1>3, <1>4, Local

\* A step throws.
LEMMA StepThrowsInv ==
  ASSUME IInv, NEW o \in Orch, StepThrows(o)
  PROVE  IInv'
  <1>1. Shape /\ OneInv(o)
    BY Pointwise
  <1>2. Shape'
    BY <1>1 DEF Shape, StepThrows, Goto
  <1>3. \A p \in Orch \ {o} :
           /\ row'[p] = row[p] /\ exec'[p] = exec[p]
           /\ effects'[p] = effects[p] /\ (p \in fault' <=> p \in fault)
    BY <1>1 DEF Shape, StepThrows, Goto
  <1>4. OneInv(o)'
    BY <1>1, NumStepsAssumption
    DEF Shape, StepThrows, Goto, OneInv, Row, Exec, Status, Pc, Live, Terminal, OrchInv, AbsentInv, FreshInv, LoopInv, CatchInv, TerminalInv
  <1>5. QED
    BY <1>2, <1>3, <1>4, Local

\* A step awaits an answer that does not come.
LEMMA StepHangsInv ==
  ASSUME IInv, NEW o \in Orch, StepHangs(o)
  PROVE  IInv'
  <1>1. Shape /\ OneInv(o)
    BY Pointwise
  <1>2. Shape'
    BY <1>1 DEF Shape, StepHangs, Goto
  <1>3. \A p \in Orch \ {o} :
           /\ row'[p] = row[p] /\ exec'[p] = exec[p]
           /\ effects'[p] = effects[p] /\ (p \in fault' <=> p \in fault)
    BY <1>1 DEF Shape, StepHangs, Goto
  <1>4. OneInv(o)'
    BY <1>1, NumStepsAssumption
    DEF Shape, StepHangs, Goto, OneInv, Row, Exec, Status, Pc, Live, Terminal, OrchInv, AbsentInv, FreshInv, LoopInv, CatchInv, TerminalInv
  <1>5. QED
    BY <1>2, <1>3, <1>4, Local

\* The failure of a step is written.
LEMMA RecordFailureInv ==
  ASSUME IInv, NEW o \in Orch, RecordFailure(o)
  PROVE  IInv'
  <1>1. Shape /\ OneInv(o)
    BY Pointwise
  <1>2. Shape'
    BY <1>1 DEF Shape, RecordFailure, Persist, Goto
  <1>3. \A p \in Orch \ {o} :
           /\ row'[p] = row[p] /\ exec'[p] = exec[p]
           /\ effects'[p] = effects[p] /\ (p \in fault' <=> p \in fault)
    BY <1>1 DEF Shape, RecordFailure, Persist, Goto
  <1>4. OneInv(o)'
    BY <1>1, NumStepsAssumption
    DEF Shape, RecordFailure, Persist, Goto, OneInv, Row, Exec, Status, Pc, Live, Terminal, OrchInv, AbsentInv, FreshInv, LoopInv, CatchInv, TerminalInv
  <1>5. QED
    BY <1>2, <1>3, <1>4, Local

\* The end of the loop is written.
LEMMA RecordCompletionInv ==
  ASSUME IInv, NEW o \in Orch, RecordCompletion(o)
  PROVE  IInv'
  <1>1. Shape /\ OneInv(o)
    BY Pointwise
  <1>2. Shape'
    BY <1>1 DEF Shape, RecordCompletion, Persist, Goto
  <1>3. \A p \in Orch \ {o} :
           /\ row'[p] = row[p] /\ exec'[p] = exec[p]
           /\ effects'[p] = effects[p] /\ (p \in fault' <=> p \in fault)
    BY <1>1 DEF Shape, RecordCompletion, Persist, Goto
  <1> DEFINE r == [row[o] EXCEPT !.status = "COMPLETED", !.progress = NumSteps]
  <1>4. /\ exec[o].pc = "completing" /\ effects'[o] = effects[o]
        /\ Persist(o, r, "over", "catching")
    BY <1>1 DEF Shape, RecordCompletion
  <1>5. /\ exec'[o].at = exec[o].at
        /\ exec'[o] = [pc |-> exec'[o].pc, at |-> exec'[o].at]
        /\ \/ row'[o] = r /\ exec'[o].pc = "over"
           \/ /\ row'[o] = row[o] \/ row'[o] = r
              /\ exec'[o].pc = "catching"
              /\ o \in fault'
    BY <1>1, <1>4, PersistOutcome DEF OneInv
  <1>6. OneInv(o)'
    <2>1. CASE row'[o] = r /\ exec'[o].pc = "over"
      BY <1>1, <1>4, <1>5, <2>1, NumStepsAssumption
      DEF OneInv, Row, Exec, Status, Pc, Live, Terminal, OrchInv, AbsentInv,
          FreshInv, LoopInv, CatchInv, TerminalInv
    <2>2. CASE /\ row'[o] = row[o] \/ row'[o] = r
               /\ exec'[o].pc = "catching"
               /\ o \in fault'
      BY <1>1, <1>4, <1>5, <2>2, NumStepsAssumption
      DEF OneInv, Row, Exec, Status, Pc, Live, Terminal, OrchInv, AbsentInv,
          FreshInv, LoopInv, CatchInv, TerminalInv
    <2>3. QED
      BY <1>5, <2>1, <2>2
  <1>7. QED
    BY <1>2, <1>3, <1>6, Local

\* The catch block ends the executor.
LEMMA RecordErrorInv ==
  ASSUME IInv, NEW o \in Orch, RecordError(o)
  PROVE  IInv'
  <1>1. Shape /\ OneInv(o)
    BY Pointwise
  <1>2. Shape'
    BY <1>1 DEF Shape, RecordError, Persist, Goto
  <1>3. \A p \in Orch \ {o} :
           /\ row'[p] = row[p] /\ exec'[p] = exec[p]
           /\ effects'[p] = effects[p] /\ (p \in fault' <=> p \in fault)
    BY <1>1 DEF Shape, RecordError, Persist, Goto
  <1>4. OneInv(o)'
    BY <1>1, NumStepsAssumption
    DEF Shape, RecordError, Persist, Goto, OneInv, Row, Exec, Status, Pc, Live, Terminal, OrchInv, AbsentInv, FreshInv, LoopInv, CatchInv, TerminalInv
  <1>5. QED
    BY <1>2, <1>3, <1>4, Local

\* The process dies under every live executor at once.
LEMMA RestartInv ==
  ASSUME IInv, Restart
  PROVE  IInv'
  <1>1. Shape /\ \A o \in Orch : OneInv(o)
    BY Pointwise
  <1>2. Shape'
    BY <1>1 DEF Shape, Restart
  <1>3. ASSUME NEW o \in Orch PROVE OneInv(o)'
    <2>1. OneInv(o) /\ row'[o] = row[o] /\ effects'[o] = effects[o]
          /\ (o \in fault' <=> o \in fault)
      BY <1>1 DEF Restart
    <2>2. CASE exec[o].pc \in Live
      <3>1. exec'[o].pc = "lost" /\ exec'[o] \in Exec
        BY <2>1, <2>2 DEF Restart, OneInv, Exec, Pc
      <3>2. QED
        BY <2>1, <2>2, <3>1
        DEF OneInv, Row, Exec, Status, Pc, Live, Terminal, OrchInv, AbsentInv,
        FreshInv, LoopInv, CatchInv, TerminalInv
    <2>3. CASE exec[o].pc \notin Live
      <3>1. exec'[o] = exec[o]
        BY <2>3 DEF Restart
      <3>2. QED
        BY <2>1, <3>1, Frame
    <2>4. QED
      BY <2>2, <2>3
  <1>4. QED
    BY <1>2, <1>3, PointwisePrimed

\* The inductive invariant holds initially and is preserved by every step.
LEMMA InitInv == Init => IInv
  BY NumStepsAssumption
  DEF Init, IInv, TypeOK, CursorTracksWork, HonestOutcome, OneInv, Row, Exec, Status, Pc, Live, Terminal, OrchInv, AbsentInv,
        FreshInv, LoopInv, CatchInv, TerminalInv

LEMMA NextInv == IInv /\ [Next]_orchVars => IInv'
  <1> SUFFICES ASSUME IInv, [Next]_orchVars PROVE IInv'
    OBVIOUS
  <1>1. ASSUME NEW o \in Orch, StartOrchestration(o) PROVE IInv'
    BY <1>1, StartOrchestrationInv
  <1>2. ASSUME NEW o \in Orch, EngineStep(o) PROVE IInv'
    BY <1>2, LoadInv, MarkInProgressInv, EnterStepInv, MissingExecutorInv,
       RecordFailureInv, RecordCompletionInv, RecordErrorInv DEF EngineStep
  <1>3. ASSUME NEW o \in Orch, StepReturns(o) PROVE IInv'
    BY <1>3, StepSucceedsInv, StepFailsInv, StepThrowsInv DEF StepReturns
  <1>4. CASE Restart
    BY <1>4, RestartInv
  <1>5. CASE UNCHANGED orchVars
    <2>1. Shape' /\ \A o \in Orch : OneInv(o)'
      BY <1>5, Pointwise, Frame DEF orchVars, Shape
    <2>2. QED
      BY <2>1, PointwisePrimed
  <1>6. ASSUME NEW o \in Orch, StepHangs(o) PROVE IInv'
    BY <1>6, StepHangsInv
  <1>7. QED
    BY <1>1, <1>2, <1>3, <1>4, <1>5, <1>6 DEF Next

\* In every reachable state the executor and the row agree as IInv says.
THEOREM Invariance == Spec => []IInv
  BY InitInv, NextInv, PTL DEF Spec

\* Type correctness, for any number of orchestrations and steps.
THEOREM TypeCorrect == Spec => []TypeOK
  <1>1. IInv => TypeOK
    BY DEF IInv
  <1>2. QED
    BY <1>1, Invariance, PTL

\* A row that reads COMPLETED stands for NumSteps successful steps.
THEOREM CompletedIsComplete == Spec => []CompletedMeansAllSteps
  <1>1. IInv => CompletedMeansAllSteps
    BY DEF IInv, OrchInv, TerminalInv, CompletedMeansAllSteps
  <1>2. QED
    BY <1>1, Invariance, PTL

\* currentStepId and progress are never more than one step away from the
\* work done.
THEOREM CursorIsTrue == Spec => []CursorTracksWork
  <1>1. IInv => CursorTracksWork
    BY DEF IInv
  <1>2. QED
    BY <1>1, Invariance, PTL

\* Without a database error or a crash an executor leaves the right verdict.
THEOREM OutcomeIsHonest == Spec => []HonestOutcome
  <1>1. IInv => HonestOutcome
    BY DEF IInv
  <1>2. QED
    BY <1>1, Invariance, PTL

-----------------------------------------------------------------------------
\* A write either leaves the status of every row alone or is the write of
\* one status on one row.
LEMMA PersistStatus ==
  ASSUME NEW o \in Orch, Shape, NEW r, NEW okPc, NEW errPc,
         Persist(o, r, okPc, errPc)
  PROVE  LET st == [p \in Orch |-> row[p].status]
         IN  \/ row' = row
             \/ [p \in Orch |-> row'[p].status] = [st EXCEPT ![o] = r.status]
  BY DEF Persist, Shape

\* No step touches a terminal row whose executor met no database error: such
\* an executor is gone.
THEOREM TerminalStaysFinal == Spec => TerminalIsFinal
  <1> DEFINE Final == \A o \in Orch :
        row[o].status \in Terminal /\ o \notin fault
          => row'[o].status = row[o].status
  <1>1. IInv /\ [Next]_orchVars => [Final]_orchVars
    <2> SUFFICES ASSUME IInv, Next, NEW p \in Orch,
                        row[p].status \in Terminal, p \notin fault
                 PROVE  row'[p].status = row[p].status
      BY DEF orchVars
    <2>1. Shape /\ OneInv(p)
      BY Pointwise
    <2>2. exec[p].pc \in {"over", "lost"}
      BY <2>1 DEF OneInv, OrchInv, TerminalInv, CatchInv, Terminal
    <2>3. CASE Restart
      BY <2>3 DEF Restart
    <2>4. ASSUME NEW o \in Orch, o # p,
                 StartOrchestration(o) \/ EngineStep(o) \/ StepReturns(o) \/ StepHangs(o)
          PROVE  row'[p] = row[p]
      BY <2>1, <2>4
      DEF Shape, StartOrchestration, EngineStep, StepReturns, Load,
          MarkInProgress, EnterStep, MissingExecutor, StepSucceeds, StepFails,
          StepThrows, StepHangs, RecordFailure, RecordCompletion, RecordError, Persist
    <2>5. ~(StartOrchestration(p) \/ EngineStep(p) \/ StepReturns(p) \/ StepHangs(p))
      BY <2>2
      DEF Terminal, StartOrchestration, EngineStep, StepReturns, Load,
          MarkInProgress, EnterStep, MissingExecutor, StepSucceeds, StepFails,
          StepThrows, StepHangs, RecordFailure, RecordCompletion, RecordError
    <2>6. QED
      BY <2>3, <2>4, <2>5 DEF Next
  <1>2. QED
    BY <1>1, Invariance, PTL DEF Spec, TerminalIsFinal

-----------------------------------------------------------------------------
(* Every step of the engine is a step of the lifecycle or invisible to it.  *)

LEMMA InitRefines == Init => Lifecycle!Init
  BY DEF Init, Lifecycle!Init

LEMMA StepRefines ==
  ASSUME IInv, [Next]_orchVars
  PROVE  [Lifecycle!Next]_Lifecycle!lifecycleVars
  <1> DEFINE st == [p \in Orch |-> row[p].status]
  <1> USE DEF Lifecycle!lifecycleVars
  <1>1. Shape /\ \A o \in Orch : OneInv(o)
    BY Pointwise
  <1>2. ASSUME NEW o \in Orch, StartOrchestration(o)
        PROVE  Lifecycle!Create(o)
    BY <1>1, <1>2 DEF Shape, StartOrchestration, Lifecycle!Create
  <1>3. ASSUME NEW o \in Orch, MarkInProgress(o)
        PROVE  Lifecycle!Begin(o) \/ UNCHANGED Lifecycle!lifecycleVars
    <2>1. row[o].status = "PENDING"
      BY <1>1, <1>3 DEF MarkInProgress, OneInv, OrchInv, FreshInv
    <2>2. QED
      BY <1>1, <1>3, <2>1, PersistStatus
      DEF OneInv, Row, MarkInProgress, Lifecycle!Begin
  <1>4. ASSUME NEW o \in Orch, StepSucceeds(o)
        PROVE  Lifecycle!Effect(o)
    <2>1. row[o].status = "IN_PROGRESS" /\ effects[o] < NumSteps
      BY <1>1, <1>4, NumStepsAssumption
      DEF StepSucceeds, OneInv, OrchInv, LoopInv, Exec
    <2>2. QED
      BY <1>1, <1>4, <2>1 DEF StepSucceeds, Lifecycle!Effect
  <1>5. ASSUME NEW o \in Orch, RecordCompletion(o)
        PROVE  Lifecycle!Complete(o) \/ UNCHANGED Lifecycle!lifecycleVars
    <2>1. row[o].status = "IN_PROGRESS" /\ effects[o] = NumSteps
      BY <1>1, <1>5 DEF RecordCompletion, OneInv, OrchInv, LoopInv
    <2> DEFINE r == [row[o] EXCEPT !.status = "COMPLETED",
                                   !.progress = NumSteps]
    <2>2. Persist(o, r, "over", "catching") /\ r.status = "COMPLETED"
          /\ UNCHANGED effects
      BY <1>1, <1>5 DEF OneInv, Row, RecordCompletion
    <2> HIDE DEF r
    <2>3. row' = row \/ st' = [st EXCEPT ![o] = "COMPLETED"]
      BY <1>1, <2>2, PersistStatus
    <2>4. QED
      BY <2>1, <2>2, <2>3 DEF Lifecycle!Complete
  <1>6. ASSUME NEW o \in Orch, RecordFailure(o) \/ RecordError(o)
        PROVE  Lifecycle!Fail(o) \/ UNCHANGED Lifecycle!lifecycleVars
    <2>1. row[o].status \in {"IN_PROGRESS", "COMPLETED", "FAILED"}
      BY <1>1, <1>6
      DEF RecordFailure, RecordError, OneInv, OrchInv, LoopInv, CatchInv
    <2> DEFINE r == [row[o] EXCEPT !.status = "FAILED"]
    <2>2. \E errPc : Persist(o, r, "over", errPc)
      BY <1>6 DEF RecordFailure, RecordError
    <2>3. r.status = "FAILED" /\ UNCHANGED effects
      BY <1>1, <1>6 DEF OneInv, Row, RecordFailure, RecordError
    <2> HIDE DEF r
    <2>4. row' = row \/ st' = [st EXCEPT ![o] = "FAILED"]
      BY <1>1, <2>2, <2>3, PersistStatus
    <2>5. CASE row[o].status = "FAILED" /\ row' # row
      <3>1. st' = st
        BY <2>4, <2>5
      <3>2. QED
        BY <2>3, <3>1
    <2>6. QED
      BY <2>1, <2>3, <2>4, <2>5 DEF Lifecycle!Fail
  <1>7. ASSUME NEW o \in Orch,
               \/ Load(o) \/ EnterStep(o) \/ MissingExecutor(o)
               \/ StepFails(o) \/ StepThrows(o) \/ StepHangs(o)
        PROVE  UNCHANGED Lifecycle!lifecycleVars
    <2>1. CASE EnterStep(o)
      <3> DEFINE r == [row[o] EXCEPT !.step = exec[o].at,
                                     !.progress = exec[o].at]
      <3>1. Persist(o, r, "running", "catching") /\ UNCHANGED effects
        BY <2>1 DEF EnterStep
      <3>2. r.status = row[o].status
        BY <1>1 DEF OneInv, Row
      <3> HIDE DEF r
      <3>3. row' = row \/ st' = [st EXCEPT ![o] = row[o].status]
        BY <1>1, <3>1, <3>2, PersistStatus
      <3>4. QED
        BY <3>1, <3>3
    <2>2. QED
      BY <1>7, <2>1 DEF Load, MissingExecutor, StepFails, StepThrows, StepHangs
  <1>8. CASE Restart
    BY <1>8 DEF Restart
  <1>9. CASE UNCHANGED orchVars
    BY <1>9 DEF orchVars
  <1>10. QED
    BY <1>2, <1>3, <1>4, <1>5, <1>6, <1>7, <1>8, <1>9
    DEF Next, EngineStep, StepReturns, Lifecycle!Next

\* The engine implements the lifecycle promised to pollers.
THEOREM EngineImplementsLifecycle == Spec => ImplementsLifecycle
  BY InitRefines, StepRefines, Invariance, PTL
  DEF Spec, ImplementsLifecycle, Lifecycle!Spec

-----------------------------------------------------------------------------
(* The creation of agents. *)

\* Every step of a creation, of a request, of a call or of a crash is a step
\* of the engine or leaves the engine alone (executeOrchestration).
LEMMA StepIsEngineStep == [CreationNext]_vars => [Next]_orchVars
<1> SUFFICES ASSUME [CreationNext]_vars PROVE [Next]_orchVars
  OBVIOUS
<1>1. CASE UNCHANGED vars
  BY <1>1 DEF vars
<1>2. ASSUME NEW t \in Tx, Decide(t) PROVE [Next]_orchVars
  BY <1>2 DEF Decide
<1>3. ASSUME NEW o \in Orch, Request(o) PROVE [Next]_orchVars
  BY <1>3 DEF Request, Upload, Ask, Answer, Cleanup, Next
<1>4. ASSUME NEW o \in Orch, Executor(o) PROVE [Next]_orchVars
  <2>1. CASE Engine(o)
    BY <2>1 DEF Engine, Next
  <2>2. ASSUME NEW stage, Enter(o, stage) PROVE UNCHANGED orchVars
    BY <2>2 DEF Enter
  <2>3. ASSUME NEW stage, Succeed(o, stage) PROVE StepReturns(o)
    BY <2>3 DEF Succeed, StepReturns
  <2>4. Abort(o) => StepReturns(o)
    BY DEF Abort, StepReturns
  <2>5. Retry(o) => UNCHANGED orchVars
    BY DEF Retry
  <2>6. CASE CreateDbRecord(o)
    <3>1. UNCHANGED orchVars \/ StepReturns(o)
      BY <2>6, <2>2, <2>3, <2>4, <2>5
      DEF CreateDbRecord, Validate, Poll, InsertAgent, Rename, SetPicture, Await
    <3> QED BY <3>1 DEF Next
  <2>7. CASE CreateContainer(o)
    <3>1. UNCHANGED orchVars \/ StepReturns(o)
      BY <2>7, <2>2, <2>3, <2>4
      DEF CreateContainer, PickPort, MakeContainer, RecordContainer, Recorded, Await
    <3> QED BY <3>1 DEF Next
  <2>8. CASE RunContainer(o)
    <3>1. UNCHANGED orchVars \/ StepReturns(o)
      BY <2>8, <2>2, <2>4, <2>5 DEF RunContainer, StartContainer, WaitForLog,
         MarkRunning, WaitForAgent, Post, Snapshot, StepReturns
    <3> QED BY <3>1 DEF Next
  <2> QED BY <1>4, <2>1, <2>6, <2>7, <2>8 DEF Executor
<1>5. ASSUME NEW c \in Calls, LifecycleCall(c) PROVE [Next]_orchVars
  BY <1>5 DEF LifecycleCall, ReadAgent, CallDocker, WriteStatus
<1>6. CASE Crash
  BY <1>6 DEF Crash, Next
<1>7. ASSUME NEW o \in Orch, NeverAnswered(o) \/ Exit(o) PROVE [Next]_orchVars
  BY <1>7 DEF NeverAnswered, Exit, Next
<1> QED BY <1>1, <1>2, <1>3, <1>4, <1>5, <1>6, <1>7 DEF CreationNext

\* The creation of agents implements the engine: an observer of the
\* orchestration rows cannot tell it from Orchestrator's specification.
THEOREM CreationFollowsEngine == CreationSpec => Spec
<1>1. CreationInit => Init
  BY DEF CreationInit
<1> QED BY <1>1, StepIsEngineStep, PTL DEF CreationSpec, Spec

\* So a creation that reads COMPLETED has had its three steps succeed, and
\* its terminal status is final, as the engine promises (orchestrator.service);
\* and whoever polls getOrchestrationStatus sees the abstract lifecycle, though
\* the effects are now an agent's row, a container and its start.
THEOREM CreationInheritsEngine ==
  CreationSpec => []CompletedMeansAllSteps /\ TerminalIsFinal /\ ImplementsLifecycle
BY CreationFollowsEngine, CompletedIsComplete, TerminalStaysFinal, EngineImplementsLifecycle, PTL
-----------------------------------------------------------------------------
\* Past the poll of step create-db-record the payment is accepted, and only
\* then are there an agent and a container.
WeakLocals == [stage : Stage, port : Ports \cup {0}, tries : Nat, posts : Nat]
Shapes ==
  /\ tx \in [Tx -> {"pending", "accepted", "rejected"}]
  /\ frame \in [Orch -> WeakLocals]
  /\ agent \in [Orch -> Agent]
  /\ box \in [Orch -> Box]
  /\ call \in [Calls -> Call]
Unpaid == {"validate", "poll"}
Paid(o) == tx[TxOf[o]] = "accepted"
PaidUpTo(o) ==
  \/ frame[o].stage \notin Unpaid
  \/ agent[o].status # "NONE" \/ agent[o].set # {}
  \/ box[o].state # "none"
  => Paid(o)
CallPaid(c) == call[c].pc \in {"docker", "write"} => Paid(call[c].on)
PaidInv ==
  /\ Shapes
  /\ \A o \in Orch : PaidUpTo(o)
  /\ \A c \in Calls : CallPaid(c)

LEMMA PaidInit == CreationInit => PaidInv
<1>1. CreationInit => Shapes
  BY DEF CreationInit, Shapes, WeakLocals, Stage, Agent, AgentStatus, Box, Call, CallPc
<1>2. CreationInit => \A o \in Orch : PaidUpTo(o)
  BY DEF CreationInit, PaidUpTo, Unpaid
<1>3. CreationInit => \A c \in Calls : CallPaid(c)
  BY DEF CreationInit, CallPaid
<1> QED BY <1>1, <1>2, <1>3 DEF PaidInv

\* The executor of o now stands at stage.
Moved(o, stage) ==
  /\ frame' \in [Orch -> WeakLocals]
  /\ frame'[o].stage = stage
  /\ \A x \in Orch \ {o} : frame'[x] = frame[x]

\* The agent, and the container, of o may have changed, and no other.
AgentOf(o) == agent' \in [Orch -> Agent] /\ \A x \in Orch \ {o} : agent'[x] = agent[x]
BoxOf(o) == box' \in [Orch -> Box] /\ \A x \in Orch \ {o} : box'[x] = box[x]

\* How the helpers of the steps move the executor.
LEMMA Moves ==
  ASSUME PaidInv, NEW o \in Orch
  PROVE  /\ \A stage \in Stage : Enter(o, stage) \/ Succeed(o, stage) => Moved(o, stage)
         /\ Abort(o) \/ Retry(o) => Moved(o, frame[o].stage)
<1>1. frame \in [Orch -> WeakLocals]
  BY DEF PaidInv, Shapes
<1>2. ASSUME NEW stage \in Stage, Enter(o, stage) PROVE Moved(o, stage)
  BY <1>1, <1>2 DEF Enter, Moved, WeakLocals
<1>3. ASSUME NEW stage \in Stage, Succeed(o, stage) PROVE Moved(o, stage)
  BY <1>1, <1>3 DEF Succeed, Moved, WeakLocals
<1>4. ASSUME Abort(o) PROVE Moved(o, frame[o].stage)
  BY <1>1, <1>4 DEF Abort, Moved
<1>5. ASSUME Retry(o) PROVE Moved(o, frame[o].stage)
  BY <1>1, <1>5 DEF Retry, Moved, WeakLocals
<1> QED BY <1>2, <1>3, <1>4, <1>5

\* A step that moves to a stage, touching only what is its own, keeps the
\* invariant if the payment is accepted or nothing of the agent exists yet.
LEMMA PaidStep ==
  ASSUME PaidInv, NEW o \in Orch, NEW stage, Moved(o, stage),
         UNCHANGED <<tx, call>>, AgentOf(o), BoxOf(o),
         \/ Paid(o)
         \/ stage \in Unpaid /\ agent'[o] = agent[o] /\ box'[o] = box[o]
  PROVE  PaidInv'
<1>1. Shapes'
  BY DEF PaidInv, Shapes, Moved, AgentOf, BoxOf
<1>2. ASSUME NEW x \in Orch PROVE PaidUpTo(x)'
  <2>1. CASE x = o
    BY <2>1 DEF PaidInv, PaidUpTo, Paid, Moved
  <2>2. CASE x # o
    BY <2>2 DEF PaidInv, PaidUpTo, Paid, Moved, AgentOf, BoxOf
  <2> QED BY <2>1, <2>2
<1>3. ASSUME NEW c \in Calls PROVE CallPaid(c)'
  BY DEF PaidInv, CallPaid, Paid
<1> QED BY <1>1, <1>2, <1>3 DEF PaidInv

\* A table that does not change is of course a change of o's row at most.
LEMMA Untouched ==
  ASSUME PaidInv, NEW o \in Orch
  PROVE  (UNCHANGED agent => AgentOf(o)) /\ (UNCHANGED box => BoxOf(o))
BY DEF PaidInv, Shapes, AgentOf, BoxOf

\* The poll is passed only when the payment is accepted, and the agent is
\* inserted after it (CreateDbRecordStep.execute).
LEMMA PaidRecord ==
  ASSUME PaidInv, NEW o \in Orch, CreateDbRecord(o)
  PROVE  PaidInv'
<1>1. \A stage \in Stage : Enter(o, stage) \/ Succeed(o, stage) => Moved(o, stage)
  BY Moves
<1>2. Abort(o) \/ Retry(o) => Moved(o, frame[o].stage)
  BY Moves
<1>3. {"poll", "insert", "rename", "picture", "pick"} \subseteq Stage
  BY DEF Stage
<1>4. frame[o].stage \notin Unpaid => Paid(o)
  BY DEF PaidInv, PaidUpTo
<1>5. CASE Validate(o)
  <2>1. UNCHANGED <<tx, call, agent, box>> /\ frame[o].stage = "validate"
    BY <1>5 DEF Validate, At, outside
  <2>2. Moved(o, "poll") \/ Moved(o, "validate")
    BY <1>5, <1>1, <1>2, <1>3, <2>1 DEF Validate
  <2> QED BY <2>1, <2>2, Untouched, PaidStep DEF Unpaid
<1>6. CASE Poll(o)
  <2>1. UNCHANGED <<tx, call, agent, box>> /\ frame[o].stage = "poll"
    BY <1>6 DEF Poll, At, outside
  <2>2. (Moved(o, "insert") /\ Paid(o)) \/ Moved(o, "poll")
    BY <1>6, <1>1, <1>2, <1>3, <2>1 DEF Poll, Paid
  <2> QED BY <2>1, <2>2, Untouched, PaidStep DEF Unpaid
<1>7. CASE InsertAgent(o)
  <2>1. UNCHANGED <<tx, call, box>> /\ frame[o].stage = "insert"
    BY <1>7 DEF InsertAgent, At, outside
  <2>2. Moved(o, "rename") \/ Moved(o, "pick") \/ Moved(o, frame[o].stage)
    BY <1>7, <1>1, <1>2, <1>3, Zenon DEF InsertAgent, Await
  <2>3. \/ UNCHANGED agent
        \/ agent' = [agent EXCEPT ![o].status = "STARTING"]
    BY <1>7 DEF InsertAgent, Await
  <2>4. AgentOf(o)
    BY <2>3 DEF PaidInv, Shapes, AgentOf, Agent, AgentStatus
  <2> QED BY <2>1, <2>2, <2>4, <1>4, Untouched, PaidStep DEF Unpaid
<1>8. CASE Rename(o)
  <2>1. UNCHANGED <<tx, call, agent, box>> /\ frame[o].stage = "rename"
    BY <1>8 DEF Rename, At
  <2>2. \E stage : Moved(o, stage)
    BY <1>8, <1>1, <1>3 DEF Rename
  <2> QED BY <2>1, <2>2, <1>4, Untouched, PaidStep DEF Unpaid
<1>9. CASE SetPicture(o)
  <2>1. UNCHANGED <<tx, call, box>> /\ frame[o].stage = "picture"
    BY <1>9 DEF SetPicture, At, outside
  <2>2. \E stage : Moved(o, stage)
    BY <1>9, <1>1, <1>2, <1>3 DEF SetPicture, Await
  <2>3. \/ UNCHANGED agent
        \/ agent' = [agent EXCEPT ![o].set = @ \cup {"profilePicture"}]
    BY <1>9 DEF SetPicture, Await
  <2>4. AgentOf(o)
    BY <2>3 DEF PaidInv, Shapes, AgentOf, Agent
  <2> QED BY <2>1, <2>2, <2>4, <1>4, Untouched, PaidStep DEF Unpaid
<1> QED BY <1>5, <1>6, <1>7, <1>8, <1>9 DEF CreateDbRecord

\* Creating and running the container happens past the poll.
LEMMA PaidContainer ==
  ASSUME PaidInv, NEW o \in Orch, CreateContainer(o) \/ RunContainer(o)
  PROVE  PaidInv'
<1>1. \A stage \in Stage : Enter(o, stage) \/ Succeed(o, stage) => Moved(o, stage)
  BY Moves
<1>2. Abort(o) \/ Retry(o) => Moved(o, frame[o].stage)
  BY Moves
<1>3. {"pick", "make", "record", "start", "logs", "mark", "ready", "post", "snapshot"}
        \subseteq Stage \ Unpaid
  BY DEF Stage, Unpaid
<1>4. frame[o].stage \notin Unpaid => Paid(o)
  BY DEF PaidInv, PaidUpTo
<1>5. /\ frame \in [Orch -> WeakLocals] /\ agent \in [Orch -> Agent] /\ box \in [Orch -> Box]
      /\ frame[o].port \in Ports \cup {0}
  BY DEF PaidInv, Shapes, WeakLocals
<1>6. CASE PickPort(o)
  <2>1. UNCHANGED <<tx, call, agent, box>> /\ frame[o].stage = "pick"
    BY <1>6 DEF PickPort, At, outside
  <2>2. Abort(o) => Moved(o, frame[o].stage)
    BY <1>2
  <2>3. ASSUME NEW p \in Ports,
               frame' = [frame EXCEPT ![o] = [@ EXCEPT !.stage = "make", !.port = p]]
        PROVE  Moved(o, "make")
    <3>1. [frame[o] EXCEPT !.stage = "make", !.port = p] \in WeakLocals
      BY <1>3, <1>5 DEF WeakLocals
    <3> QED BY <3>1, <2>3, <1>5 DEF Moved, WeakLocals
  <2>4. Moved(o, "make") \/ Moved(o, "pick")
    BY <1>6, <2>1, <2>2, <2>3, <1>2 DEF PickPort, FreePorts
  <2> QED BY <2>1, <2>4, <1>3, <1>4, Untouched, PaidStep
<1>7. CASE MakeContainer(o)
  <2>1. UNCHANGED <<tx, call, agent>> /\ frame[o].stage = "make"
    BY <1>7 DEF MakeContainer, At, outside
  <2>2. Moved(o, "record") \/ Moved(o, "make")
    BY <1>7, <1>1, <1>2, <1>3, <2>1 DEF MakeContainer, Await
  <2>3. BoxOf(o)
    <3>1. \/ UNCHANGED box
          \/ box' = [box EXCEPT ![o] = [state |-> "down", port |-> frame[o].port]]
      BY <1>7 DEF MakeContainer, Made, Await
    <3> QED BY <3>1, <1>5 DEF BoxOf, Box
  <2> QED BY <2>1, <2>2, <2>3, <1>3, <1>4, Untouched, PaidStep
<1>8. CASE RecordContainer(o)
  <2>1. UNCHANGED <<tx, call, box>> /\ frame[o].stage = "record"
    BY <1>8 DEF RecordContainer, At, outside
  <2>2. Moved(o, "start") \/ Moved(o, "record")
    BY <1>8, <1>1, <1>2, <1>3, <2>1 DEF RecordContainer, Await
  <2>3. AgentOf(o)
    <3> DEFINE set == agent[o].set \cup {"containerId"}
               r == [agent[o] EXCEPT !.set = set, !.port = frame[o].port]
    <3>1. UNCHANGED agent \/ agent' = [agent EXCEPT ![o] = r]
      <4>1. CASE agent' = Recorded(o)
        BY <4>1, Zenon DEF Recorded
      <4> QED BY <1>8, <4>1 DEF RecordContainer, Await
    <3>2. r \in Agent
      BY <1>5 DEF Agent
    <3> HIDE DEF r
    <3> QED BY <3>1, <3>2, <1>5 DEF AgentOf
  <2> QED BY <2>1, <2>2, <2>3, <1>3, <1>4, Untouched, PaidStep
<1>9. CASE StartContainer(o)
  <2>1. UNCHANGED <<tx, call, agent>> /\ frame[o].stage = "start"
    BY <1>9 DEF StartContainer, At, outside
  <2>2. Moved(o, "logs") \/ Moved(o, "start")
    BY <1>9, <1>1, <1>2, <1>3, <2>1 DEF StartContainer
  <2>3. BoxOf(o)
    <3>1. UNCHANGED box \/ SetBox(o, "up")
      BY <1>9 DEF StartContainer
    <3> QED BY <3>1, <1>5 DEF BoxOf, Box, SetBox
  <2> QED BY <2>1, <2>2, <2>3, <1>3, <1>4, Untouched, PaidStep
<1>10. CASE WaitForLog(o)
  <2>1. UNCHANGED <<tx, call, agent, box>> /\ frame[o].stage = "logs"
    BY <1>10 DEF WaitForLog, At, outside
  <2>2. Moved(o, "mark") \/ Moved(o, "logs")
    BY <1>10, <1>1, <1>2, <1>3, <2>1 DEF WaitForLog
  <2> QED BY <2>1, <2>2, <1>3, <1>4, Untouched, PaidStep
<1>11. CASE MarkRunning(o)
  <2>1. UNCHANGED <<tx, call, box>> /\ frame[o].stage = "mark"
    BY <1>11 DEF MarkRunning, At, outside
  <2>2. Moved(o, "ready") \/ Moved(o, "mark")
    BY <1>11, <1>1, <1>2, <1>3, <2>1 DEF MarkRunning
  <2>3. AgentOf(o)
    <3> DEFINE set == agent[o].set \cup {"runtimeAgentId"}
               r == [agent[o] EXCEPT !.status = "RUNNING", !.set = set]
    <3>1. UNCHANGED agent \/ agent' = [agent EXCEPT ![o] = r]
      BY <1>11, Zenon DEF MarkRunning
    <3>2. r \in Agent
      BY <1>5 DEF Agent, AgentStatus
    <3> HIDE DEF r
    <3> QED BY <3>1, <3>2, <1>5 DEF AgentOf
  <2> QED BY <2>1, <2>2, <2>3, <1>3, <1>4, Untouched, PaidStep
<1>12. CASE WaitForAgent(o)
  <2>1. UNCHANGED <<tx, call, agent, box>> /\ frame[o].stage = "ready"
    BY <1>12 DEF WaitForAgent, At, outside
  <2>2. Moved(o, "post") \/ Moved(o, "ready")
    BY <1>12, <1>1, <1>2, <1>3, <2>1 DEF WaitForAgent
  <2> QED BY <2>1, <2>2, <1>3, <1>4, Untouched, PaidStep
<1>13. CASE Post(o)
  <2>1. UNCHANGED <<tx, call, agent, box>> /\ frame[o].stage = "post"
    BY <1>13 DEF Post, At, outside
  <2>2. Abort(o) => Moved(o, frame[o].stage)
    BY <1>2
  <2>3. ASSUME NEW n \in Nat, NEW stage \in {"snapshot", "ready"},
               frame' = [frame EXCEPT ![o] =
                           [@ EXCEPT !.posts = n, !.tries = 0, !.stage = stage]]
        PROVE  Moved(o, stage)
    <3>1. [frame[o] EXCEPT !.posts = n, !.tries = 0, !.stage = stage] \in WeakLocals
      BY <1>3, <1>5 DEF WeakLocals
    <3> QED BY <3>1, <2>3, <1>5 DEF Moved, WeakLocals
  <2>4. frame[o].posts + 1 \in Nat
    BY <1>5 DEF WeakLocals
  <2>5. Moved(o, "snapshot") \/ Moved(o, "ready") \/ Moved(o, "post")
    <3>1. CASE frame[o].posts + 1 = 1
      BY <1>13, <2>1, <2>2, <2>3, <2>4, <1>2, <3>1 DEF Post
    <3>2. CASE frame[o].posts + 1 # 1
      BY <1>13, <2>1, <2>2, <2>3, <2>4, <1>2, <3>2 DEF Post
    <3> QED BY <3>1, <3>2
  <2> QED BY <2>1, <2>5, <1>3, <1>4, Untouched, PaidStep
<1>14. CASE Snapshot(o)
  <2>1. UNCHANGED <<tx, call, agent, box>> /\ frame[o].stage = "snapshot"
    BY <1>14 DEF Snapshot, At, outside
  <2>2. Moved(o, "ready") \/ Moved(o, "snapshot")
    BY <1>14, <1>1, <1>2, <1>3, <2>1 DEF Snapshot
  <2> QED BY <2>1, <2>2, <1>3, <1>4, Untouched, PaidStep
<1> QED BY <1>6, <1>7, <1>8, <1>9, <1>10, <1>11, <1>12, <1>13, <1>14
        DEF CreateContainer, RunContainer

\* The start and stop calls act on agents whose container was recorded
\* (stopAgent and startAgent test containerId first).
LEMMA PaidCall ==
  ASSUME PaidInv, NEW c \in Calls, LifecycleCall(c)
  PROVE  PaidInv'
<1> DEFINE o == call[c].on
<1>1. /\ call \in [Calls -> Call] /\ agent \in [Orch -> Agent] /\ box \in [Orch -> Box]
      /\ o \in Orch
  BY DEF PaidInv, Shapes, Call
<1>2. /\ call' \in [Calls -> Call] /\ call'[c].on = o
      /\ \A d \in Calls \ {c} : call'[d] = call[d]
      /\ UNCHANGED <<tx, frame>>
  <2>1. ASSUME NEW pc \in CallPc, SetPc(c, pc)
        PROVE  /\ call' \in [Calls -> Call] /\ call'[c].on = o
               /\ \A d \in Calls \ {c} : call'[d] = call[d]
    BY <1>1, <2>1 DEF SetPc, Call
  <2>2. \E pc \in CallPc : SetPc(c, pc)
    BY DEF LifecycleCall, ReadAgent, CallDocker, WriteStatus, CallPc
  <2>3. UNCHANGED <<tx, frame>>
    BY DEF LifecycleCall, ReadAgent, CallDocker, WriteStatus
  <2> QED BY <2>1, <2>2, <2>3
<1>3. CallPaid(c)'
  <2>1. CASE ReadAgent(c)
    <3>1. call'[c].pc = "docker" => HasContainer(o)
      BY <2>1, <1>1 DEF ReadAgent, SetPc, Call
    <3>2. call'[c].pc \in {"docker", "over"}
      BY <2>1, <1>1 DEF ReadAgent, SetPc, Call
    <3> QED BY <3>1, <3>2, <1>1, <1>2 DEF HasContainer, PaidInv, PaidUpTo, CallPaid, Paid
  <2>2. CASE CallDocker(c) \/ WriteStatus(c)
    <3>1. call[c].pc \in {"docker", "write"}
      BY <2>2 DEF CallDocker, WriteStatus
    <3> QED BY <3>1, <1>2 DEF PaidInv, CallPaid, Paid
  <2> QED BY <2>1, <2>2 DEF LifecycleCall
<1>4. \A d \in Calls : CallPaid(d)'
  BY <1>2, <1>3 DEF PaidInv, CallPaid, Paid
<1>5. CASE ReadAgent(c)
  <2>1. UNCHANGED <<agent, box>>
    BY <1>5 DEF ReadAgent
  <2> QED BY <2>1, <1>2, <1>4 DEF PaidInv, Shapes, PaidUpTo, Paid
<1>6. CASE CallDocker(c)
  <2>1. UNCHANGED agent /\ Paid(o)
    BY <1>6 DEF CallDocker, PaidInv, CallPaid
  <2>2. UNCHANGED box \/ SetBox(o, "up") \/ SetBox(o, "down")
    BY <1>6 DEF CallDocker
  <2>3. box' \in [Orch -> Box] /\ \A x \in Orch \ {o} : box'[x] = box[x]
    BY <1>1, <2>2 DEF SetBox, Box
  <2>4. \A x \in Orch : PaidUpTo(x)'
    BY <1>2, <2>1, <2>3 DEF PaidInv, PaidUpTo, Paid
  <2> QED BY <1>2, <1>4, <2>1, <2>3, <2>4 DEF PaidInv, Shapes
<1>7. CASE WriteStatus(c)
  <2>1. UNCHANGED box /\ Paid(o)
    BY <1>7 DEF WriteStatus, PaidInv, CallPaid
  <2>2. \/ UNCHANGED agent
        \/ agent' = [agent EXCEPT ![o].status = "RUNNING"]
        \/ agent' = [agent EXCEPT ![o].status = "STARTING"]
    BY <1>7 DEF WriteStatus
  <2>3. agent' \in [Orch -> Agent] /\ \A x \in Orch \ {o} : agent'[x] = agent[x]
    BY <1>1, <2>2 DEF Agent, AgentStatus
  <2>4. \A x \in Orch : PaidUpTo(x)'
    BY <1>2, <2>1, <2>3 DEF PaidInv, PaidUpTo, Paid
  <2> QED BY <1>2, <1>4, <2>1, <2>3, <2>4 DEF PaidInv, Shapes
<1> QED BY <1>5, <1>6, <1>7 DEF LifecycleCall

\* A call that is never answered has had an effect on the container of the creation, or none.
LEMMA Hanging ==
  ASSUME NEW o \in Orch, NeverAnswered(o)
  PROVE  /\ UNCHANGED <<tx, file, req, call, frame, agent, rivals>>
         /\ exec[o].pc = "running" /\ frame[o].stage \in Unbounded
         /\ \/ UNCHANGED box
            \/ frame[o].stage = "make" /\ box' = [box EXCEPT ![o] = [state |-> "down", port |-> frame[o].port]]
            \/ frame[o].stage = "start" /\ MayStart(o) /\ SetBox(o, "up") /\ Blur(o, TRUE)
         /\ Blur(o, frame[o].stage = "logs") \/ Blur(o, TRUE) \/ (UNCHANGED blurred /\ frame[o].stage # "logs")
  BY DEF NeverAnswered, StepHangs, At, Made, outside, Unbounded

\* A container that exits changes state, and nothing else does.
LEMMA Exiting ==
  ASSUME NEW o \in Orch, Exit(o)
  PROVE  /\ UNCHANGED <<orchVars, tx, file, req, call, frame, agent, rivals, heard, blurred>>
         /\ box[o].state = "up" /\ SetBox(o, "dead")
  BY DEF Exit, outside, history

LEMMA PaidAlone ==
  ASSUME PaidInv, NEW o \in Orch, NeverAnswered(o) \/ Exit(o)
  PROVE  PaidInv'
<1>1. frame \in [Orch -> WeakLocals] /\ box \in [Orch -> Box] /\ frame[o].port \in Ports \cup {0}
  BY DEF PaidInv, Shapes, WeakLocals
<1>2. /\ UNCHANGED <<tx, frame, agent, call>>
      /\ \/ UNCHANGED box
         \/ frame[o].stage = "make" /\ box' = [box EXCEPT ![o] = [state |-> "down", port |-> frame[o].port]]
         \/ (frame[o].stage = "start" \/ box[o].state = "up") /\ (SetBox(o, "up") \/ SetBox(o, "dead"))
  BY Hanging, Exiting
<1>3. BoxOf(o) /\ AgentOf(o)
  BY <1>1, <1>2, Untouched DEF BoxOf, Box, SetBox
<1>4. Moved(o, frame[o].stage)
  BY <1>1, <1>2 DEF Moved
<1>5. Paid(o) \/ (frame[o].stage \in Unpaid /\ box' = box)
  BY <1>2 DEF PaidInv, PaidUpTo, Unpaid
<1> QED BY <1>2, <1>3, <1>4, <1>5, PaidStep

\* The inductive invariant of the payment is kept by every step.
LEMMA PaidNext == PaidInv /\ [CreationNext]_vars => PaidInv'
<1> SUFFICES ASSUME PaidInv, [CreationNext]_vars PROVE PaidInv'
  OBVIOUS
<1> USE DEF PaidInv, Shapes, PaidUpTo, CallPaid, Paid
<1>1. CASE UNCHANGED vars
  BY <1>1 DEF vars, outside
<1>2. ASSUME NEW t \in Tx, Decide(t) PROVE PaidInv'
  <2>1. tx' \in [Tx -> {"pending", "accepted", "rejected"}]
    BY <1>2 DEF Decide
  <2>2. \A u \in Tx : tx[u] = "accepted" => tx'[u] = "accepted"
    BY <1>2 DEF Decide
  <2>3. UNCHANGED <<frame, agent, box, call>>
    BY <1>2 DEF Decide
  <2>4. \A o \in Orch : TxOf[o] \in Tx
    BY TxAssumption
  <2>5. \A c \in Calls : call[c].on \in Orch
    BY DEF Call
  <2> QED BY <2>1, <2>2, <2>3, <2>4, <2>5
<1>3. ASSUME NEW o \in Orch, Request(o) PROVE PaidInv'
  BY <1>3 DEF Request, Upload, Ask, Answer, Cleanup
<1>4. ASSUME NEW o \in Orch, Executor(o) PROVE PaidInv'
  <2>1. CASE Engine(o)
    BY <2>1 DEF Engine, outside
  <2> QED BY <1>4, <2>1, PaidRecord, PaidContainer DEF Executor
<1>5. ASSUME NEW c \in Calls, LifecycleCall(c) PROVE PaidInv'
  BY <1>5, PaidCall
<1>6. CASE Crash
  <2>1. UNCHANGED <<tx, frame, agent, box>>
    BY <1>6 DEF Crash
  <2>2. call' \in [Calls -> Call]
    BY <1>6 DEF Crash, Call, CallPc
  <2>3. \A c \in Calls : CallPaid(c)'
    BY <1>6, <2>1 DEF Crash, Call
  <2> QED BY <2>1, <2>2, <2>3
<1> QED BY <1>1, <1>2, <1>3, <1>4, <1>5, <1>6, PaidAlone DEF CreationNext

\* No agent and no container exists before its payment is accepted, for any
\* number of creations, calls, ports and attempts, under every failure.
THEOREM PaidFirst == CreationSpec => []PaidBeforeCreated
<1>1. PaidInv => PaidBeforeCreated
  BY DEF PaidInv, PaidUpTo, Paid, PaidBeforeCreated
<1> QED BY <1>1, PaidInit, PaidNext, PTL DEF CreationSpec
-----------------------------------------------------------------------------
(* Where the executor of a creation stands, and what has been made and     *)
(* recorded for it by then.                                                *)

\* The stages of the three steps.
Creating == {"validate", "poll", "insert", "rename", "picture"}
Boxing == {"pick", "make", "record"}
Launching == {"start", "logs", "mark", "ready", "post", "snapshot"}

\* An executor that has not begun, or has not ended, the work of a step.
Active == {"idle", "loading", "marking", "stepping", "running"}

StandingInv(o) ==
  LET pc == exec[o].pc  at == exec[o].at  stage == frame[o].stage IN
  /\ pc \in {"idle", "loading", "marking"} => stage = "validate"
  /\ pc = "stepping" => <<at, stage>> \in {<<1, "validate">>, <<2, "pick">>, <<3, "start">>}
  /\ pc = "running" => \/ at = 1 /\ stage \in Creating
                       \/ at = 2 /\ stage \in Boxing
                       \/ at = 3 /\ stage \in Launching
  /\ pc = "completing" => stage = "ready" /\ frame[o].posts = 3

\* What the agents table says of a container.
RecordInv(o) ==
  /\ HasContainer(o) <=> agent[o].port # 0
  /\ HasContainer(o) => box[o].state # "none" /\ box[o].port = agent[o].port
  /\ box[o].state \in {"up", "dead"} => HasContainer(o)
  /\ agent[o].status # "STOPPED"

\* What has been made and recorded when the executor stands at a stage.
MadeInv(o) ==
  LET pc == exec[o].pc  stage == frame[o].stage IN
  /\ stage \in {"make", "record"} => frame[o].port \in Ports
  /\ pc \in Active /\ stage \in Creating \cup {"pick", "make"} =>
       box[o].state = "none" /\ ~HasContainer(o)
  /\ At(o, "record") =>
       box[o].state = "down" /\ box[o].port = frame[o].port /\ ~HasContainer(o)
  /\ pc \in Active \cup {"completing"} /\ stage \in Launching => HasContainer(o)
  /\ pc \in {"running", "completing"} /\ stage \in {"ready", "post", "snapshot"} =>
       "runtimeAgentId" \in agent[o].set
  /\ row[o].status = "COMPLETED" =>
       HasContainer(o) /\ "runtimeAgentId" \in agent[o].set /\ frame[o].posts = 3
  /\ box[o].state # "none" /\ ~HasContainer(o) =>
       \/ At(o, "record")
       \/ exec[o].pc \in {"hung", "failing", "catching", "over", "lost"}

CallInv(c) == call[c].pc \in {"docker", "write"} => HasContainer(call[c].on)

WorkInv ==
  /\ \A o \in Orch : StandingInv(o) /\ RecordInv(o) /\ MadeInv(o)
  /\ \A c \in Calls : CallInv(c)
-----------------------------------------------------------------------------
(* What a step of one executor does, whatever else it changes.             *)

\* The executor of o goes on within its step, ends it with success, or with a failure.
GoesOn(o, stage) ==
  /\ UNCHANGED exec
  /\ frame'[o].stage = stage /\ frame'[o].port = frame[o].port /\ frame'[o].posts = frame[o].posts
Ends(o, stage) ==
  /\ exec'[o].at = IF exec[o].at = 3 THEN 3 ELSE exec[o].at + 1
  /\ exec'[o].pc = IF exec[o].at = 3 THEN "completing" ELSE "stepping"
  /\ frame'[o].stage = stage /\ frame'[o].port = frame[o].port /\ frame'[o].posts = frame[o].posts
Stops(o) ==
  exec'[o].pc = "failing" /\ exec'[o].at = exec[o].at /\ frame' = frame

\* What is known of every table.
FileShapes ==
  /\ file \in [Orch -> {"none", "temp", "final", "deleted"}]
  /\ req \in [Orch -> ReqPc]
Known == IInv /\ Shapes /\ FileShapes

LEMMA FilesNext == FileShapes /\ [CreationNext]_vars => FileShapes'
<1> SUFFICES ASSUME FileShapes, [CreationNext]_vars PROVE FileShapes'
  OBVIOUS
<1> USE DEF FileShapes, ReqPc
<1>1. CASE UNCHANGED vars \/ \E t \in Tx : Decide(t)
  BY <1>1 DEF vars, outside, Decide
<1>2. ASSUME NEW o \in Orch, Request(o) PROVE FileShapes'
  <2>1. CASE Upload(o)
    BY <2>1 DEF Upload
  <2>2. CASE Ask(o)
    BY <2>2 DEF Ask
  <2>3. CASE Answer(o)
    BY <2>3 DEF Answer
  <2>4. CASE Cleanup(o)
    BY <2>4 DEF Cleanup
  <2> QED BY <1>2, <2>1, <2>2, <2>3, <2>4 DEF Request
<1>3. ASSUME NEW o \in Orch, Executor(o) PROVE FileShapes'
  <2>1. CASE Rename(o)
    BY <2>1 DEF Rename
  <2>2. Rename(o) \/ UNCHANGED <<file, req>>
    BY <1>3 DEF Executor, Engine, CreateDbRecord, CreateContainer, RunContainer, outside, Validate, Poll,
       InsertAgent, SetPicture, PickPort, MakeContainer, RecordContainer, StartContainer, WaitForLog,
       MarkRunning, WaitForAgent, Post, Snapshot
  <2> QED BY <2>1, <2>2
<1>4. ASSUME NEW c \in Calls, LifecycleCall(c) PROVE FileShapes'
  BY <1>4 DEF LifecycleCall, ReadAgent, CallDocker, WriteStatus
<1>5. CASE Crash
  BY <1>5 DEF Crash
<1>6. ASSUME NEW o \in Orch, NeverAnswered(o) \/ Exit(o) PROVE FileShapes'
  BY <1>6, Hanging, Exiting
<1> QED BY <1>1, <1>2, <1>3, <1>4, <1>5, <1>6 DEF CreationNext

LEMMA KnownAlways == CreationSpec => []Known
<1>1. PaidInv => Shapes
  BY DEF PaidInv
<1>2. CreationSpec => []Shapes
  BY <1>1, PaidInit, PaidNext, PTL DEF CreationSpec
<1>3. CreationInit => FileShapes
  BY DEF CreationInit, FileShapes, ReqPc
<1>4. CreationSpec => []FileShapes
  BY <1>3, FilesNext, PTL DEF CreationSpec
<1> QED BY <1>2, <1>4, CreationFollowsEngine, Invariance, PTL DEF Known

LEMMA KnownTypes ==
  ASSUME Known
  PROVE  /\ row \in [Orch -> Row] /\ exec \in [Orch -> Exec] /\ frame \in [Orch -> WeakLocals]
         /\ agent \in [Orch -> Agent] /\ box \in [Orch -> Box] /\ call \in [Calls -> Call]
         /\ file \in [Orch -> {"none", "temp", "final", "deleted"}] /\ req \in [Orch -> ReqPc]
BY DEF Known, IInv, TypeOK, Shapes, FileShapes

LEMMA Outcomes ==
  ASSUME Known, NEW o \in Orch
  PROVE  /\ \A stage : Enter(o, stage) => GoesOn(o, stage)
         /\ Retry(o) => GoesOn(o, frame[o].stage)
         /\ \A stage : Succeed(o, stage) => Ends(o, stage)
         /\ Abort(o) => Stops(o)
<1>1. exec \in [Orch -> Exec] /\ frame \in [Orch -> WeakLocals]
  BY KnownTypes
<1>2. ASSUME NEW stage, Enter(o, stage) PROVE GoesOn(o, stage)
  <2> DEFINE f == [frame[o] EXCEPT !.stage = stage, !.tries = 0]
  <2>1. f.stage = stage /\ f.port = frame[o].port /\ f.posts = frame[o].posts
    BY <1>1 DEF WeakLocals
  <2>2. frame' = [frame EXCEPT ![o] = f] /\ UNCHANGED exec
    BY <1>2 DEF Enter, orchVars
  <2> HIDE DEF f
  <2> QED BY <1>1, <2>1, <2>2 DEF GoesOn
<1>3. ASSUME Retry(o) PROVE GoesOn(o, frame[o].stage)
  BY <1>1, <1>3 DEF Retry, GoesOn, WeakLocals, orchVars
<1>4. ASSUME NEW stage, Succeed(o, stage) PROVE Ends(o, stage)
  <2>1. /\ frame'[o].stage = stage /\ frame'[o].port = frame[o].port
        /\ frame'[o].posts = frame[o].posts
    BY <1>1, <1>4 DEF Succeed, WeakLocals
  <2>2. /\ exec'[o].at = IF exec[o].at = 3 THEN 3 ELSE exec[o].at + 1
        /\ exec'[o].pc = IF exec[o].at = 3 THEN "completing" ELSE "stepping"
    BY <1>1, <1>4, ThreeStepsAssumption DEF Succeed, StepSucceeds, Exec
  <2> QED BY <2>1, <2>2 DEF Ends
<1>5. ASSUME Abort(o) PROVE Stops(o)
  BY <1>1, <1>5 DEF Abort, StepFails, Goto, Stops, Exec
<1> QED BY <1>2, <1>3, <1>4, <1>5

\* The engine between two steps.
EngineMoves(o) ==
  /\ exec'[o].at = exec[o].at /\ exec[o].pc \notin {"idle", "running", "over", "lost"}
  /\ \/ exec'[o].pc \in {"catching", "over"}
     \/ <<exec[o].pc, exec'[o].pc>> \in
          {<<"loading", "marking">>, <<"marking", "stepping">>, <<"stepping", "running">>}
  /\ row'[o].status = "COMPLETED" => row[o].status = "COMPLETED" \/ exec[o].pc = "completing"

LEMMA EngineMovesOn ==
  ASSUME Known, NEW o \in Orch, EngineStep(o)
  PROVE  EngineMoves(o)
<1>1. Shape /\ exec[o] \in Exec /\ row[o] \in Row
  BY KnownTypes DEF Shape, Known, IInv, TypeOK
<1>2. CASE Load(o) \/ MissingExecutor(o)
  BY <1>1, <1>2 DEF Load, MissingExecutor, Goto, EngineMoves, Exec, Shape
<1>3. ASSUME NEW r, NEW okPc, NEW errPc, Persist(o, r, okPc, errPc)
      PROVE  /\ exec'[o].at = exec[o].at
             /\ \/ row'[o] = r /\ exec'[o].pc = okPc
                \/ (row'[o] = row[o] \/ row'[o] = r) /\ exec'[o].pc = errPc
  BY <1>1, <1>3 DEF Persist, Goto, Shape, Exec
<1>4. CASE MarkInProgress(o)
  BY <1>1, <1>3, <1>4 DEF MarkInProgress, EngineMoves, Row
<1>5. CASE EnterStep(o)
  <2> DEFINE r == [row[o] EXCEPT !.step = exec[o].at, !.progress = exec[o].at]
  <2>1. r.status = row[o].status
    BY <1>1 DEF Row
  <2>2. exec[o].pc = "stepping" /\ Persist(o, r, "running", "catching")
    BY <1>5 DEF EnterStep
  <2> HIDE DEF r
  <2> QED BY <1>3, <2>1, <2>2 DEF EngineMoves
<1>6. CASE RecordFailure(o)
  BY <1>1, <1>3, <1>6 DEF RecordFailure, EngineMoves, Row
<1>7. CASE RecordCompletion(o)
  BY <1>1, <1>3, <1>7 DEF RecordCompletion, EngineMoves, Row
<1>8. CASE RecordError(o)
  BY <1>1, <1>3, <1>8 DEF RecordError, EngineMoves, Row
<1> QED BY <1>2, <1>4, <1>5, <1>6, <1>7, <1>8 DEF EngineStep

\* A step of one creation touches nothing of another.
Alone(o) ==
  \A x \in Orch \ {o} : /\ row'[x] = row[x] /\ exec'[x] = exec[x] /\ frame'[x] = frame[x]
                        /\ agent'[x] = agent[x] /\ box'[x] = box[x]
                        /\ file'[x] = file[x] /\ req'[x] = req[x]

LEMMA StepAlone ==
  ASSUME Known, NEW o \in Orch, Request(o) \/ Executor(o)
  PROVE  Alone(o) /\ UNCHANGED call
<1> DEFINE Rows == \A x \in Orch \ {o} : row'[x] = row[x] /\ exec'[x] = exec[x]
           Frames == \A x \in Orch \ {o} : frame'[x] = frame[x]
<1>1. /\ row \in [Orch -> Row] /\ exec \in [Orch -> Exec] /\ frame \in [Orch -> WeakLocals]
      /\ agent \in [Orch -> Agent] /\ box \in [Orch -> Box]
      /\ file \in [Orch -> {"none", "temp", "final", "deleted"}] /\ req \in [Orch -> ReqPc]
  BY KnownTypes
<1>2. ASSUME NEW stage, Enter(o, stage) \/ Succeed(o, stage) \/ Retry(o) \/ Abort(o)
      PROVE  Rows /\ Frames
  BY <1>1, <1>2 DEF Enter, Succeed, Retry, Abort, StepSucceeds, StepFails, Goto, orchVars
<1>3. UNCHANGED orchVars => Rows
  BY DEF orchVars
<1>4. EngineStep(o) \/ StartOrchestration(o) => Rows
  BY <1>1 DEF EngineStep, StartOrchestration, Load, MarkInProgress, EnterStep, MissingExecutor,
     RecordFailure, RecordCompletion, RecordError, Persist, Goto
<1>5. CASE Request(o)
  <2>1. UNCHANGED <<frame, agent, box, call>> /\ Rows
    BY <1>3, <1>4, <1>5 DEF Request, Upload, Ask, Answer, Cleanup
  <2>2. \A x \in Orch \ {o} : file'[x] = file[x] /\ req'[x] = req[x]
    BY <1>1, <1>5 DEF Request, Upload, Ask, Answer, Cleanup
  <2> QED BY <2>1, <2>2 DEF Alone
<1>6. CASE Engine(o)
  BY <1>4, <1>6 DEF Engine, outside, Alone
<1>7. CASE Validate(o) \/ Poll(o)
  <2>1. UNCHANGED <<agent, box, file, req, call>>
    BY <1>7 DEF Validate, Poll, outside
  <2>2. Rows /\ Frames
    BY <1>2, <1>7 DEF Validate, Poll
  <2> QED BY <2>1, <2>2 DEF Alone
<1>8. CASE InsertAgent(o)
  <2>1. UNCHANGED <<box, file, req, call>> /\ \A x \in Orch \ {o} : agent'[x] = agent[x]
    BY <1>1, <1>8 DEF InsertAgent, Await, outside
  <2>2. Rows /\ Frames
    BY <1>2, <1>8 DEF InsertAgent, Await
  <2> QED BY <2>1, <2>2 DEF Alone
<1>9. CASE Rename(o)
  <2>1. UNCHANGED <<agent, box, req, call>> /\ \A x \in Orch \ {o} : file'[x] = file[x]
    BY <1>1, <1>9 DEF Rename
  <2>2. Rows /\ Frames
    BY <1>2, <1>9 DEF Rename
  <2> QED BY <2>1, <2>2 DEF Alone
<1>10. CASE SetPicture(o) \/ RecordContainer(o)
  <2>1. UNCHANGED <<box, file, req, call>> /\ \A x \in Orch \ {o} : agent'[x] = agent[x]
    BY <1>1, <1>10 DEF SetPicture, RecordContainer, Recorded, Await, outside
  <2>2. Rows /\ Frames
    BY <1>2, <1>10 DEF SetPicture, RecordContainer, Await
  <2> QED BY <2>1, <2>2 DEF Alone
<1>11. CASE PickPort(o)
  <2>1. UNCHANGED <<agent, box, file, req, call>>
    BY <1>11 DEF PickPort, outside
  <2>2. Rows /\ Frames
    BY <1>1, <1>2, <1>3, <1>11 DEF PickPort
  <2> QED BY <2>1, <2>2 DEF Alone
<1>12. CASE MakeContainer(o)
  <2>1. UNCHANGED <<agent, file, req, call>> /\ \A x \in Orch \ {o} : box'[x] = box[x]
    BY <1>1, <1>12 DEF MakeContainer, Made, Await, outside
  <2>2. Rows /\ Frames
    BY <1>2, <1>12 DEF MakeContainer, Await
  <2> QED BY <2>1, <2>2 DEF Alone
<1>13. CASE StartContainer(o)
  <2>1. UNCHANGED <<agent, file, req, call>> /\ \A x \in Orch \ {o} : box'[x] = box[x]
    BY <1>1, <1>13 DEF StartContainer, SetBox, outside
  <2>2. Rows /\ Frames
    BY <1>2, <1>13 DEF StartContainer
  <2> QED BY <2>1, <2>2 DEF Alone
<1>14. CASE WaitForLog(o) \/ WaitForAgent(o) \/ Snapshot(o)
  <2>1. UNCHANGED <<agent, box, file, req, call>>
    BY <1>14 DEF WaitForLog, WaitForAgent, Snapshot, outside
  <2>2. Rows /\ Frames
    BY <1>2, <1>14 DEF WaitForLog, WaitForAgent, Snapshot
  <2> QED BY <2>1, <2>2 DEF Alone
<1>15. CASE MarkRunning(o)
  <2>1. UNCHANGED <<box, file, req, call>> /\ \A x \in Orch \ {o} : agent'[x] = agent[x]
    BY <1>1, <1>15 DEF MarkRunning, outside
  <2>2. Rows /\ Frames
    BY <1>2, <1>15 DEF MarkRunning
  <2> QED BY <2>1, <2>2 DEF Alone
<1>16. CASE Post(o)
  <2>1. UNCHANGED <<agent, box, file, req, call>>
    BY <1>16 DEF Post, outside
  <2>2. Frames
    BY <1>1, <1>2, <1>16 DEF Post
  <2>3. Rows
    BY <1>1, <1>2, <1>3, <1>16 DEF Post, StepSucceeds
  <2> QED BY <2>1, <2>2, <2>3 DEF Alone
<1> QED BY <1>5, <1>6, <1>7, <1>8, <1>9, <1>10, <1>11, <1>12, <1>13, <1>14, <1>15, <1>16
        DEF Executor, CreateDbRecord, CreateContainer, RunContainer

LEMMA OthersAlone ==
  ASSUME Known, NEW o \in Orch, NeverAnswered(o) \/ Exit(o)
  PROVE  Alone(o) /\ UNCHANGED <<row, frame, agent, file, req, call>>
<1>1. exec \in [Orch -> Exec] /\ box \in [Orch -> Box]
  BY KnownTypes
<1>2. UNCHANGED <<row, frame, agent, file, req, call>>
  BY Hanging, Exiting DEF NeverAnswered, StepHangs, orchVars
<1>3. \A x \in Orch \ {o} : exec'[x] = exec[x]
  BY <1>1, Exiting DEF NeverAnswered, StepHangs, Goto, orchVars
<1>4. \A x \in Orch \ {o} : box'[x] = box[x]
  BY <1>1, Hanging, Exiting DEF SetBox
<1> QED BY <1>2, <1>3, <1>4 DEF Alone

\* What the executor of o has made stays as known, if o's own part does.
LEMMA WorkLocal ==
  ASSUME Known, Known', WorkInv, NEW o \in Orch, Alone(o), UNCHANGED call,
         StandingInv(o)', RecordInv(o)', MadeInv(o)', HasContainer(o) => HasContainer(o)'
  PROVE  WorkInv'
<1>1. ASSUME NEW x \in Orch \ {o} PROVE StandingInv(x)' /\ RecordInv(x)' /\ MadeInv(x)'
  <2>1. StandingInv(x) /\ RecordInv(x) /\ MadeInv(x)
    BY DEF WorkInv
  <2>2. /\ row'[x] = row[x] /\ exec'[x] = exec[x] /\ frame'[x] = frame[x]
        /\ agent'[x] = agent[x] /\ box'[x] = box[x]
    BY DEF Alone
  <2>3. StandingInv(x)'
    BY <2>1, <2>2 DEF StandingInv
  <2>4. RecordInv(x)'
    BY <2>1, <2>2 DEF RecordInv, HasContainer
  <2>5. MadeInv(x)'
    BY <2>1, <2>2 DEF MadeInv, HasContainer, At
  <2> QED BY <2>3, <2>4, <2>5
<1>2. ASSUME NEW c \in Calls PROVE CallInv(c)'
  <2>1. CallInv(c) /\ call[c].on \in Orch
    BY KnownTypes DEF WorkInv, Call
  <2>2. HasContainer(call[c].on) => HasContainer(call[c].on)'
    BY <2>1 DEF HasContainer, Alone
  <2> QED BY <2>1, <2>2 DEF CallInv
<1> QED BY <1>1, <1>2 DEF WorkInv

\* A creation that records nothing and touches no container keeps what it has.
LEMMA WorkKept ==
  ASSUME Known, Known', WorkInv, NEW o \in Orch, Alone(o), UNCHANGED call,
         agent'[o].set = agent[o].set \/ agent'[o].set = agent[o].set \cup {"profilePicture"},
         agent'[o].port = agent[o].port, agent'[o].status # "STOPPED", box'[o] = box[o],
         StandingInv(o)', MadeInv(o)'
  PROVE  WorkInv'
<1>1. RecordInv(o) /\ (HasContainer(o)' <=> HasContainer(o))
  BY DEF WorkInv, HasContainer
<1>2. RecordInv(o)'
  BY <1>1 DEF RecordInv
<1> QED BY <1>1, <1>2, WorkLocal

\* What the engine's invariant says of a row that reads COMPLETED.
LEMMA CompletedIsOver ==
  ASSUME Known, NEW o \in Orch, row[o].status = "COMPLETED"
  PROVE  exec[o].pc \in {"catching", "over", "lost"}
BY DEF Known, IInv, OrchInv, TerminalInv, Terminal

LEMMA AtFirst ==
  ASSUME Known, NEW o \in Orch, exec[o].pc \in {"idle", "loading", "marking"}
  PROVE  exec[o].at = 1 /\ row[o].status \in {"ABSENT", "PENDING"}
BY DEF Known, IInv, OrchInv, AbsentInv, FreshInv

\* A failed step: what was made stays, and the orchestration will not complete.
LEMMA WorkStops ==
  ASSUME Known, WorkInv, NEW o \in Orch, Stops(o), row' = row, exec[o].pc = "running"
  PROVE  StandingInv(o)' /\ MadeInv(o)'
<1>1. row'[o].status # "COMPLETED"
  BY CompletedIsOver
<1>2. MadeInv(o)
  BY DEF WorkInv
<1> QED BY <1>1, <1>2 DEF Stops, StandingInv, MadeInv, At, Active

\* No action within a step writes the row.
LEMMA RowsKept ==
  ASSUME NEW o \in Orch
  PROVE  \A stage : Enter(o, stage) \/ Succeed(o, stage) \/ Retry(o) \/ Abort(o) => row' = row
BY DEF Enter, Succeed, Retry, Abort, StepSucceeds, StepFails, orchVars

\* Step create-db-record: there is no container yet, and none comes of it.
LEMMA WorkRecord ==
  ASSUME Known, Known', WorkInv, NEW o \in Orch, CreateDbRecord(o)
  PROVE  WorkInv'
<1>1. Alone(o) /\ UNCHANGED call
  BY StepAlone DEF Executor
<1>2. /\ \A stage : Enter(o, stage) => GoesOn(o, stage)
      /\ Retry(o) => GoesOn(o, frame[o].stage)
      /\ \A stage : Succeed(o, stage) => Ends(o, stage)
      /\ Abort(o) => Stops(o)
  BY Outcomes
<1>3. \A stage : Enter(o, stage) \/ Succeed(o, stage) \/ Retry(o) \/ Abort(o) => row' = row
  BY RowsKept
<1>4. StandingInv(o) /\ RecordInv(o) /\ MadeInv(o) /\ agent \in [Orch -> Agent]
  BY KnownTypes DEF WorkInv
<1>5. /\ exec[o].pc = "running" /\ frame[o].stage \in Creating /\ box' = box
      /\ row[o].status # "COMPLETED"
  <2>1. exec[o].pc = "running" /\ frame[o].stage \in Creating
    BY DEF CreateDbRecord, Validate, Poll, InsertAgent, Rename, SetPicture, At, Creating
  <2>2. box' = box
    BY DEF CreateDbRecord, Validate, Poll, InsertAgent, Rename, SetPicture
  <2> QED BY <2>1, <2>2, CompletedIsOver
<1>6. exec[o].at = 1 /\ box[o].state = "none" /\ ~HasContainer(o)
  BY <1>4, <1>5 DEF StandingInv, MadeInv, Active, Creating, Boxing, Launching
<1>7. /\ agent'[o].set = agent[o].set \/ agent'[o].set = agent[o].set \cup {"profilePicture"}
      /\ agent'[o].port = agent[o].port /\ agent'[o].status # "STOPPED"
  <2>1. CASE Validate(o) \/ Poll(o) \/ Rename(o)
    BY <1>4, <2>1 DEF Validate, Poll, Rename, RecordInv
  <2>2. CASE InsertAgent(o)
    BY <1>4, <2>2 DEF InsertAgent, Await, Agent, RecordInv
  <2>3. CASE SetPicture(o)
    BY <1>4, <2>3 DEF SetPicture, Await, Agent, RecordInv
  <2> QED BY <2>1, <2>2, <2>3 DEF CreateDbRecord
<1>8. ~HasContainer(o)'
  BY <1>6, <1>7 DEF HasContainer
<1>9. \/ \E stage \in Creating : GoesOn(o, stage) /\ row' = row
      \/ Ends(o, "pick") /\ row' = row
      \/ Stops(o) /\ row' = row
  <2>1. CASE Validate(o)
    BY <1>2, <1>3, <2>1 DEF Validate, Creating
  <2>2. CASE Poll(o)
    BY <1>2, <1>3, <1>5, <2>2 DEF Poll, Creating
  <2>3. CASE InsertAgent(o)
    <3>1. Enter(o, "rename") \/ Succeed(o, "pick") \/ Abort(o)
      BY <2>3, Zenon DEF InsertAgent, Await
    <3> QED BY <1>2, <1>3, <3>1 DEF Creating
  <2>4. CASE Rename(o)
    BY <1>2, <1>3, <2>4 DEF Rename, Creating
  <2>5. CASE SetPicture(o)
    <3>1. Succeed(o, "pick") \/ Abort(o)
      BY <2>5, Zenon DEF SetPicture, Await
    <3> QED BY <1>2, <1>3, <3>1
  <2> QED BY <2>1, <2>2, <2>3, <2>4, <2>5 DEF CreateDbRecord
<1>10. StandingInv(o)' /\ MadeInv(o)'
  <2>1. CASE Stops(o) /\ row' = row
    BY <1>5, <2>1, WorkStops
  <2>2. CASE Ends(o, "pick") /\ row' = row
    BY <1>5, <1>6, <1>8, <2>2 DEF Ends, StandingInv, MadeInv, At, Active, Launching, Creating
  <2>3. ASSUME NEW stage \in Creating, GoesOn(o, stage), row' = row
        PROVE  StandingInv(o)' /\ MadeInv(o)'
    BY <1>5, <1>6, <1>8, <2>3 DEF GoesOn, StandingInv, MadeInv, At, Active, Launching, Creating
  <2> QED BY <1>9, <2>1, <2>2, <2>3
<1> QED BY <1>1, <1>5, <1>7, <1>10, WorkKept

\* Step create-container: a port is chosen, a container made with it, and both recorded.
LEMMA WorkContainer ==
  ASSUME Known, Known', WorkInv, NEW o \in Orch, CreateContainer(o)
  PROVE  WorkInv'
<1>1. Alone(o) /\ UNCHANGED call
  BY StepAlone DEF Executor
<1>2. /\ \A stage : Enter(o, stage) => GoesOn(o, stage)
      /\ \A stage : Succeed(o, stage) => Ends(o, stage)
      /\ Abort(o) => Stops(o)
  BY Outcomes
<1>3. \A stage : Enter(o, stage) \/ Succeed(o, stage) \/ Abort(o) => row' = row
  BY RowsKept
<1>4. /\ StandingInv(o) /\ RecordInv(o) /\ MadeInv(o) /\ exec[o] \in Exec
      /\ agent \in [Orch -> Agent] /\ box \in [Orch -> Box] /\ frame \in [Orch -> WeakLocals]
  BY KnownTypes DEF WorkInv
<1>5. /\ exec[o].pc = "running" /\ frame[o].stage \in Boxing /\ row[o].status # "COMPLETED"
  <2>1. exec[o].pc = "running" /\ frame[o].stage \in Boxing
    BY DEF CreateContainer, PickPort, MakeContainer, RecordContainer, At, Boxing
  <2> QED BY <2>1, CompletedIsOver
<1>6. exec[o].at = 2
  BY <1>4, <1>5 DEF StandingInv, Creating, Boxing, Launching
<1>7. CASE PickPort(o)
  <2>1. UNCHANGED <<agent, box>> /\ frame[o].stage = "pick"
    BY <1>7 DEF PickPort, At
  <2>2. box[o].state = "none" /\ ~HasContainer(o) /\ ~HasContainer(o)'
    BY <1>4, <1>5, <2>1 DEF MadeInv, Active, HasContainer
  <2>3. StandingInv(o)' /\ MadeInv(o)'
    <3>1. CASE Abort(o)
      BY <1>2, <1>3, <1>5, <3>1, WorkStops
    <3>2. ASSUME NEW p \in FreePorts,
                 frame' = [frame EXCEPT ![o] = [@ EXCEPT !.stage = "make", !.port = p]],
                 UNCHANGED orchVars
          PROVE  StandingInv(o)' /\ MadeInv(o)'
      <4> DEFINE f == [frame[o] EXCEPT !.stage = "make", !.port = p]
      <4>1. f.stage = "make" /\ f.port = p /\ p \in Ports
        BY <1>4 DEF WeakLocals, FreePorts
      <4>2. frame' = [frame EXCEPT ![o] = f]
        BY <3>2
      <4> HIDE DEF f
      <4>3. frame'[o].stage = "make" /\ frame'[o].port \in Ports /\ exec' = exec /\ row' = row
        BY <1>4, <3>2, <4>1, <4>2 DEF orchVars
      <4> QED BY <1>5, <1>6, <2>1, <2>2, <4>3
          DEF StandingInv, MadeInv, At, Active, Creating, Boxing, Launching
    <3> QED BY <1>7, <3>1, <3>2 DEF PickPort
  <2>4. agent'[o].status # "STOPPED"
    BY <1>4, <2>1 DEF RecordInv
  <2> QED BY <1>1, <2>1, <2>3, <2>4, WorkKept
<1>8. CASE MakeContainer(o)
  <2>1. UNCHANGED agent /\ frame[o].stage = "make"
    BY <1>8 DEF MakeContainer, At
  <2>2. box[o].state = "none" /\ ~HasContainer(o) /\ ~HasContainer(o)' /\ frame[o].port \in Ports
    BY <1>4, <1>5, <2>1 DEF MadeInv, Active, HasContainer
  <2>3. \/ box'[o] = [state |-> "down", port |-> frame[o].port]
        \/ UNCHANGED box /\ Abort(o)
    BY <1>4, <1>8, Zenon DEF MakeContainer, Made, Await
  <2>4. RecordInv(o)'
    BY <1>4, <2>1, <2>2, <2>3 DEF RecordInv
  <2>5. StandingInv(o)' /\ MadeInv(o)'
    <3>1. CASE Abort(o)
      BY <1>2, <1>3, <1>5, <3>1, WorkStops
    <3>2. CASE Enter(o, "record") /\ ~Abort(o)
      <4>1. GoesOn(o, "record") /\ row' = row
        BY <1>2, <1>3, <3>2
      <4>2. box'[o].state = "down" /\ box'[o].port = frame[o].port
        BY <2>3, <3>2
      <4> QED BY <1>5, <1>6, <2>2, <4>1, <4>2
          DEF GoesOn, StandingInv, MadeInv, At, Active, Creating, Boxing, Launching
    <3>3. Enter(o, "record") \/ Abort(o)
      BY <1>8, Zenon DEF MakeContainer, Await
    <3> QED BY <3>1, <3>2, <3>3
  <2> QED BY <1>1, <2>2, <2>4, <2>5, WorkLocal
<1>9. CASE RecordContainer(o)
  <2>1. UNCHANGED box /\ frame[o].stage = "record" /\ At(o, "record")
    BY <1>9 DEF RecordContainer, At
  <2>2. /\ box[o].state = "down" /\ box[o].port = frame[o].port /\ ~HasContainer(o)
        /\ frame[o].port \in Ports /\ frame[o].port # 0
    BY <1>4, <2>1, PortsAssumption DEF MadeInv
  <2>3. \/ /\ agent'[o].set = agent[o].set \cup {"containerId"} /\ agent'[o].port = frame[o].port
           /\ agent'[o].status = agent[o].status
        \/ (UNCHANGED agent /\ Abort(o))
    <3> DEFINE set == agent[o].set \cup {"containerId"}
               r == [agent[o] EXCEPT !.set = set, !.port = frame[o].port]
    <3>1. (UNCHANGED agent /\ Abort(o)) \/ agent' = [agent EXCEPT ![o] = r]
      <4>1. CASE agent' = Recorded(o)
        BY <4>1, Zenon DEF Recorded
      <4> QED BY <1>9, <4>1 DEF RecordContainer, Await
    <3>2. /\ r.set = agent[o].set \cup {"containerId"} /\ r.port = frame[o].port
          /\ r.status = agent[o].status
      BY <1>4 DEF Agent
    <3> HIDE DEF r
    <3> QED BY <1>4, <3>1, <3>2
  <2>4. RecordInv(o)'
    BY <1>4, <2>1, <2>2, <2>3 DEF RecordInv, HasContainer
  <2>5. StandingInv(o)' /\ MadeInv(o)'
    <3>1. CASE Abort(o)
      BY <1>2, <1>3, <1>5, <3>1, WorkStops
    <3>2. CASE Succeed(o, "start") /\ ~Abort(o)
      <4>1. Ends(o, "start") /\ row' = row
        BY <1>2, <1>3, <3>2
      <4>2. HasContainer(o)'
        BY <2>3, <3>2 DEF HasContainer
      <4> QED BY <1>5, <1>6, <4>1, <4>2
          DEF Ends, StandingInv, MadeInv, At, Active, Creating, Boxing, Launching
    <3>3. Succeed(o, "start") \/ Abort(o)
      BY <1>9, Zenon DEF RecordContainer, Await
    <3> QED BY <3>1, <3>2, <3>3
  <2>6. HasContainer(o) => HasContainer(o)'
    BY <2>2
  <2> QED BY <1>1, <2>4, <2>5, <2>6, WorkLocal
<1> QED BY <1>7, <1>8, <1>9 DEF CreateContainer

\* Step start-container: the container is started, and the agent marked and spoken to.
LEMMA WorkLaunch ==
  ASSUME Known, Known', WorkInv, NEW o \in Orch, RunContainer(o)
  PROVE  WorkInv'
<1>1. Alone(o) /\ UNCHANGED call
  BY StepAlone DEF Executor
<1>2. /\ \A stage : Enter(o, stage) => GoesOn(o, stage)
      /\ Retry(o) => GoesOn(o, frame[o].stage)
      /\ Abort(o) => Stops(o)
  BY Outcomes
<1>3. \A stage : Enter(o, stage) \/ Retry(o) \/ Abort(o) => row' = row
  BY RowsKept
<1>4. /\ StandingInv(o) /\ RecordInv(o) /\ MadeInv(o) /\ exec \in [Orch -> Exec]
      /\ agent \in [Orch -> Agent] /\ box \in [Orch -> Box] /\ frame \in [Orch -> WeakLocals]
  BY KnownTypes DEF WorkInv
<1>5. /\ exec[o].pc = "running" /\ frame[o].stage \in Launching /\ row[o].status # "COMPLETED"
  <2>1. exec[o].pc = "running" /\ frame[o].stage \in Launching
    BY DEF RunContainer, StartContainer, WaitForLog, MarkRunning, WaitForAgent, Post, Snapshot, At, Launching
  <2> QED BY <2>1, CompletedIsOver
<1>6. exec[o].at = 3 /\ HasContainer(o)
  BY <1>4, <1>5 DEF StandingInv, MadeInv, Active, Creating, Boxing, Launching
\* Going on to a stage that needs no more than there is.
<1>7. ASSUME NEW stage \in Launching, GoesOn(o, stage), row' = row, HasContainer(o)',
             stage \in {"ready", "post", "snapshot"} => "runtimeAgentId" \in agent'[o].set
      PROVE  StandingInv(o)' /\ MadeInv(o)'
  BY <1>5, <1>6, <1>7 DEF GoesOn, StandingInv, MadeInv, At, Active, Creating, Boxing, Launching
<1>8. CASE StartContainer(o)
  <2>1. HasContainer(o)' /\ agent' = agent
    BY <1>6, <1>8 DEF StartContainer, HasContainer
  <2>2. \/ UNCHANGED box
        \/ SetBox(o, "up") /\ box[o].state \in {"down", "dead"}
    BY <1>8, Zenon DEF StartContainer, MayStart
  <2>3. RecordInv(o)'
    BY <1>4, <1>6, <2>1, <2>2 DEF RecordInv, SetBox, HasContainer, Box
  <2>4. CASE Abort(o)
    BY <1>1, <1>2, <1>3, <1>5, <2>1, <2>3, <2>4, WorkStops, WorkLocal
  <2>5. CASE Enter(o, "logs")
    BY <1>1, <1>2, <1>3, <1>7, <2>1, <2>3, <2>5, WorkLocal DEF Launching
  <2> QED BY <1>8, <2>4, <2>5 DEF StartContainer
<1>9. CASE MarkRunning(o)
  <2>1. /\ agent'[o].port = agent[o].port /\ box' = box
        /\ agent'[o].status \in {agent[o].status, "RUNNING"}
        /\ \/ agent'[o].set = agent[o].set /\ Abort(o)
           \/ agent'[o].set = agent[o].set \cup {"runtimeAgentId"}
    <3> DEFINE set == agent[o].set \cup {"runtimeAgentId"}
               r == [agent[o] EXCEPT !.status = "RUNNING", !.set = set]
    <3>1. (UNCHANGED agent /\ Abort(o)) \/ agent' = [agent EXCEPT ![o] = r]
      BY <1>9, Zenon DEF MarkRunning
    <3>2. r.set = agent[o].set \cup {"runtimeAgentId"} /\ r.port = agent[o].port /\ r.status = "RUNNING"
      BY <1>4 DEF Agent
    <3>3. box' = box
      BY <1>9 DEF MarkRunning
    <3> HIDE DEF r
    <3> QED BY <1>4, <3>1, <3>2, <3>3
  <2>2. HasContainer(o)' /\ RecordInv(o)'
    BY <1>4, <1>6, <2>1 DEF RecordInv, HasContainer
  <2>3. CASE Abort(o)
    BY <1>1, <1>2, <1>3, <1>5, <2>2, <2>3, WorkStops, WorkLocal
  <2>4. CASE Enter(o, "ready") /\ ~Abort(o)
    BY <1>1, <1>2, <1>3, <1>7, <2>1, <2>2, <2>4, WorkLocal DEF Launching
  <2>5. Abort(o) \/ Enter(o, "ready")
    BY <1>9 DEF MarkRunning
  <2> QED BY <2>3, <2>4, <2>5
<1>10. CASE WaitForLog(o) \/ WaitForAgent(o) \/ Snapshot(o)
  <2>1. UNCHANGED <<agent, box>> /\ HasContainer(o)'
    BY <1>6, <1>10 DEF WaitForLog, WaitForAgent, Snapshot, HasContainer
  <2>2. RecordInv(o)'
    BY <1>4, <2>1 DEF RecordInv, HasContainer
  <2>3. \/ Abort(o)
        \/ Enter(o, "mark")
        \/ Enter(o, "post") /\ frame[o].stage = "ready"
        \/ Enter(o, "ready") /\ frame[o].stage = "snapshot"
        \/ Retry(o)
    BY <1>10, Zenon DEF WaitForLog, WaitForAgent, Snapshot, At
  <2>4. frame[o].stage \in {"ready", "post", "snapshot"} => "runtimeAgentId" \in agent'[o].set
    BY <1>4, <1>5, <2>1 DEF MadeInv
  <2>5. CASE Abort(o)
    BY <1>1, <1>2, <1>3, <1>5, <2>1, <2>2, <2>5, WorkStops, WorkLocal
  <2>6. CASE ~Abort(o)
    <3>1. PICK stage \in Launching :
             /\ GoesOn(o, stage) /\ row' = row
             /\ stage \in {"ready", "post", "snapshot"} => "runtimeAgentId" \in agent'[o].set
      BY <1>2, <1>3, <1>5, <2>3, <2>4, <2>6 DEF Launching
    <3>2. StandingInv(o)' /\ MadeInv(o)'
      BY <1>7, <2>1, <3>1
    <3> QED BY <1>1, <2>1, <2>2, <3>2, WorkLocal
  <2> QED BY <2>5, <2>6
<1>11. CASE Post(o)
  <2>1. UNCHANGED <<agent, box>> /\ HasContainer(o)' /\ frame[o].stage = "post"
    BY <1>6, <1>11 DEF Post, HasContainer, At
  <2>2. RecordInv(o)' /\ "runtimeAgentId" \in agent'[o].set
    BY <1>4, <1>5, <2>1 DEF RecordInv, MadeInv, HasContainer
  <2>3. CASE Abort(o)
    BY <1>1, <1>2, <1>3, <1>5, <2>1, <2>2, <2>3, WorkStops, WorkLocal
  <2>4. CASE ~Abort(o)
    <3> DEFINE n == frame[o].posts + 1
               f == [frame[o] EXCEPT !.posts = n, !.tries = 0,
                                     !.stage = IF n = 1 THEN "snapshot" ELSE "ready"]
    <3>1. n \in Nat /\ f.posts = n /\ f.port = frame[o].port
          /\ f.stage = IF n = 1 THEN "snapshot" ELSE "ready"
      BY <1>4 DEF WeakLocals
    <3>2. frame' = [frame EXCEPT ![o] = f]
          /\ IF n = 3 THEN StepSucceeds(o) ELSE UNCHANGED orchVars
      BY <1>11, <2>4 DEF Post
    <3> HIDE DEF f
    <3>3. frame'[o] = f /\ row' = row
      BY <1>4, <3>2 DEF StepSucceeds, orchVars
    <3>4. n = 3 => exec'[o].pc = "completing"
      BY <1>4, <1>6, <3>2, ThreeStepsAssumption DEF StepSucceeds, Exec
    <3>5. n # 3 => exec' = exec
      BY <3>2 DEF orchVars
    <3>6. StandingInv(o)' /\ MadeInv(o)'
      <4>1. CASE n = 3
        <5>1. frame'[o].stage = "ready" /\ frame'[o].posts = 3
          BY <3>1, <3>3, <4>1
        <5> HIDE DEF n
        <5> QED BY <1>5, <2>1, <2>2, <3>3, <3>4, <4>1, <5>1
            DEF StandingInv, MadeInv, At, Active, Creating, Launching
      <4>2. CASE n # 3
        <5>1. frame'[o].stage \in {"ready", "snapshot"}
          BY <3>1, <3>3
        <5> HIDE DEF n
        <5> QED BY <1>5, <1>6, <2>1, <2>2, <3>3, <3>5, <4>2, <5>1
            DEF StandingInv, MadeInv, At, Active, Creating, Boxing, Launching
      <4> QED BY <4>1, <4>2
    <3> QED BY <1>1, <2>1, <2>2, <3>6, WorkLocal
  <2> QED BY <2>3, <2>4
<1> QED BY <1>8, <1>9, <1>10, <1>11 DEF RunContainer

\* The engine between two steps: it makes nothing, and finds what the step before has made.
LEMMA WorkEngine ==
  ASSUME Known, Known', WorkInv, NEW o \in Orch, Engine(o)
  PROVE  WorkInv'
<1>1. Alone(o) /\ UNCHANGED call /\ EngineMoves(o)
  BY StepAlone, EngineMovesOn DEF Executor, Engine
<1>2. UNCHANGED <<frame, agent, box>> /\ StandingInv(o) /\ RecordInv(o) /\ MadeInv(o)
  BY DEF Engine, WorkInv
<1>3. exec[o].pc = "marking" => exec[o].at = 1
  BY AtFirst
<1>4. StandingInv(o)'
  BY <1>1, <1>2, <1>3 DEF EngineMoves, StandingInv, Creating, Boxing, Launching
<1>5. RecordInv(o)' /\ (HasContainer(o) => HasContainer(o)')
  BY <1>2 DEF RecordInv, HasContainer
<1>6. MadeInv(o)'
  <2>1. /\ HasContainer(o)' = HasContainer(o) /\ agent'[o] = agent[o] /\ box'[o] = box[o]
        /\ frame'[o] = frame[o]
    BY <1>2 DEF HasContainer
  <2>2. row'[o].status = "COMPLETED" =>
          HasContainer(o) /\ "runtimeAgentId" \in agent[o].set /\ frame[o].posts = 3
    BY <1>1, <1>2 DEF EngineMoves, StandingInv, MadeInv, Launching
  <2>3. exec[o].pc # "running" /\ (exec'[o].pc \in {"running", "completing"} => exec'[o].pc = "running")
    BY <1>1 DEF EngineMoves
  <2>4. exec'[o].pc = "running" => exec[o].pc = "stepping" /\ frame[o].stage \in {"validate", "pick", "start"}
    BY <1>1, <1>2 DEF EngineMoves, StandingInv
  <2>5. exec'[o].pc \in Active => exec[o].pc \in Active
    BY <1>1 DEF EngineMoves, Active
  <2>6. exec[o].pc \in {"hung", "failing", "catching", "over", "lost"} => exec'[o].pc \in {"catching", "over"}
    BY <1>1 DEF EngineMoves
  <2> QED BY <1>2, <2>1, <2>2, <2>3, <2>4, <2>5, <2>6 DEF MadeInv, At
<1> QED BY <1>1, <1>4, <1>5, <1>6, WorkLocal

\* A request at most starts an orchestration, for which nothing has been made.
LEMMA WorkRequest ==
  ASSUME Known, Known', WorkInv, NEW o \in Orch, Request(o)
  PROVE  WorkInv'
<1>1. Alone(o) /\ UNCHANGED <<call, frame, agent, box>>
  BY StepAlone DEF Request, Upload, Ask, Answer, Cleanup
<1>2. UNCHANGED orchVars \/ StartOrchestration(o)
  BY DEF Request, Upload, Ask, Answer, Cleanup
<1>3. StandingInv(o) /\ RecordInv(o) /\ MadeInv(o)
  BY DEF WorkInv
<1>4. HasContainer(o)' = HasContainer(o) /\ RecordInv(o)'
  BY <1>1, <1>3 DEF RecordInv, HasContainer
<1>5. StandingInv(o)' /\ MadeInv(o)'
  <2>1. CASE UNCHANGED orchVars
    BY <1>1, <1>3, <1>4, <2>1 DEF orchVars, StandingInv, MadeInv, At
  <2>2. CASE StartOrchestration(o)
    <3>1. exec[o].pc = "idle" /\ exec[o].at = 1
      BY <2>2 DEF StartOrchestration, Known, IInv, OrchInv, AbsentInv
    <3>2. frame[o].stage = "validate" /\ box[o].state = "none" /\ ~HasContainer(o)
      BY <1>3, <3>1 DEF StandingInv, MadeInv, Active, Creating
    <3>3. row'[o].status = "PENDING" /\ exec'[o].pc \in {"loading", "over"}
      BY <2>2, KnownTypes DEF StartOrchestration, Goto, Exec
    <3> QED BY <1>1, <1>4, <3>2, <3>3 DEF StandingInv, MadeInv, At, Active, Launching, Creating
  <2> QED BY <1>2, <2>1, <2>2
<1> QED BY <1>1, <1>4, <1>5, WorkLocal

\* What a call of the lifecycle service changes: the call itself, and of an agent that has a
\* container the state of the container or the status.
LEMMA CallTouches ==
  ASSUME Known, WorkInv, NEW c \in Calls, LifecycleCall(c)
  PROVE  /\ UNCHANGED <<orchVars, tx, file, req, frame, rivals, heard>>
         /\ \A d \in Calls \ {c} : call'[d] = call[d]
         /\ call'[c].on = call[c].on /\ call'[c].op = call[c].op /\ call[c].on \in Orch
         /\ call'[c].pc \in {"docker", "write"} => HasContainer(call[c].on)
         /\ \A x \in Orch : /\ agent'[x].set = agent[x].set /\ agent'[x].port = agent[x].port
                            /\ agent'[x].status \in {agent[x].status, "RUNNING", "STARTING"}
                            /\ agent'[x].status = agent[x].status \/ x = call[c].on
                            /\ HasContainer(x)' = HasContainer(x)
                            /\ box'[x].port = box[x].port
                            /\ \/ box'[x].state = box[x].state
                               \/ (box'[x].state \in {"up", "down"} /\ HasContainer(x) /\ x = call[c].on)
<1> DEFINE o == call[c].on
<1>1. /\ agent \in [Orch -> Agent] /\ box \in [Orch -> Box] /\ call \in [Calls -> Call]
      /\ o \in Orch /\ CallInv(c)
  BY KnownTypes DEF Call, WorkInv
<1>2. UNCHANGED <<orchVars, tx, file, req, frame, rivals, heard>>
  BY DEF LifecycleCall, ReadAgent, CallDocker, WriteStatus, history
<1>3. \E pc \in {"docker", "write", "over"} :
        SetPc(c, pc) /\ (pc # "over" => HasContainer(o))
  BY <1>1 DEF LifecycleCall, ReadAgent, CallDocker, WriteStatus, CallInv
<1>4. /\ \A d \in Calls \ {c} : call'[d] = call[d]
      /\ call'[c].on = o /\ call'[c].op = call[c].op
      /\ call'[c].pc \in {"docker", "write"} => HasContainer(o)
  BY <1>1, <1>3 DEF SetPc, Call
<1>5. \/ UNCHANGED agent
      \/ agent' = [agent EXCEPT ![o].status = "RUNNING"]
      \/ agent' = [agent EXCEPT ![o].status = "STARTING"]
  BY DEF LifecycleCall, ReadAgent, CallDocker, WriteStatus
<1>6. ASSUME NEW x \in Orch
      PROVE  /\ agent'[x].set = agent[x].set /\ agent'[x].port = agent[x].port
             /\ agent'[x].status \in {agent[x].status, "RUNNING", "STARTING"}
             /\ agent'[x].status = agent[x].status \/ x = o
  BY <1>1, <1>5 DEF Agent
<1>7. UNCHANGED box \/ (SetBox(o, "up") /\ HasContainer(o)) \/ (SetBox(o, "down") /\ HasContainer(o))
  BY <1>1 DEF LifecycleCall, ReadAgent, CallDocker, WriteStatus, CallInv
<1>8. ASSUME NEW x \in Orch
      PROVE  /\ box'[x].port = box[x].port
             /\ \/ box'[x].state = box[x].state
                \/ (box'[x].state \in {"up", "down"} /\ HasContainer(x) /\ x = o)
  BY <1>1, <1>7 DEF SetBox, Box
<1> QED BY <1>1, <1>2, <1>4, <1>6, <1>8 DEF HasContainer

\* What a call touches was already recorded.
LEMMA WorkCall ==
  ASSUME Known, Known', WorkInv, NEW c \in Calls, LifecycleCall(c)
  PROVE  WorkInv'
<1>1. ASSUME NEW x \in Orch PROVE StandingInv(x)' /\ RecordInv(x)' /\ MadeInv(x)'
  <2>1. /\ row'[x] = row[x] /\ exec'[x] = exec[x] /\ frame'[x] = frame[x]
        /\ agent'[x].set = agent[x].set /\ agent'[x].port = agent[x].port
        /\ agent'[x].status \in {agent[x].status, "RUNNING", "STARTING"}
        /\ HasContainer(x)' = HasContainer(x) /\ box'[x].port = box[x].port
        /\ box'[x].state = box[x].state \/ (box'[x].state \in {"up", "down"} /\ HasContainer(x))
    BY CallTouches DEF orchVars
  <2>2. StandingInv(x) /\ RecordInv(x) /\ MadeInv(x)
    BY DEF WorkInv
  <2>3. StandingInv(x)'
    BY <2>1, <2>2 DEF StandingInv
  <2>4. RecordInv(x)'
    BY <2>1, <2>2 DEF RecordInv
  <2>5. MadeInv(x)'
    BY <2>1, <2>2 DEF MadeInv, At
  <2> QED BY <2>3, <2>4, <2>5
<1>2. ASSUME NEW d \in Calls PROVE CallInv(d)'
  <2>1. CallInv(d) /\ call[d].on \in Orch
    BY KnownTypes DEF WorkInv, Call
  <2> QED BY <2>1, CallTouches DEF CallInv, HasContainer
<1> QED BY <1>1, <1>2 DEF WorkInv

\* A crash loses the executors and the calls, and keeps the tables and the containers.
LEMMA WorkCrash ==
  ASSUME Known, WorkInv, Crash
  PROVE  WorkInv'
<1>1. UNCHANGED <<row, frame, agent, box>>
  BY DEF Crash, Restart
<1>2. ASSUME NEW o \in Orch PROVE StandingInv(o)' /\ RecordInv(o)' /\ MadeInv(o)'
  <2>1. \/ exec'[o] = exec[o] /\ exec[o].pc \notin Live
        \/ exec'[o].pc = "lost" /\ exec[o].pc \in Live
    BY KnownTypes DEF Crash, Restart, Exec
  <2>2. StandingInv(o) /\ RecordInv(o) /\ MadeInv(o)
    BY DEF WorkInv
  <2>3. StandingInv(o)' /\ RecordInv(o)'
    BY <1>1, <2>1, <2>2 DEF StandingInv, RecordInv, HasContainer
  <2>4. MadeInv(o)'
    BY <1>1, <2>1, <2>2 DEF MadeInv, At, HasContainer, Active
  <2> QED BY <2>3, <2>4
<1>3. ASSUME NEW c \in Calls PROVE CallInv(c)'
  BY <1>1, KnownTypes DEF Crash, CallInv, WorkInv, Call, HasContainer
<1> QED BY <1>2, <1>3 DEF WorkInv

\* An executor that hangs keeps what it has made; the container it was making may exist, unrecorded.
LEMMA WorkHangs ==
  ASSUME Known, Known', WorkInv, NEW o \in Orch, NeverAnswered(o)
  PROVE  WorkInv'
<1>1. Alone(o) /\ UNCHANGED <<row, frame, agent, call>> /\ exec'[o].pc = "hung" /\ exec[o].pc = "running"
  BY OthersAlone, KnownTypes DEF NeverAnswered, StepHangs, Goto, Exec
<1>2. StandingInv(o) /\ RecordInv(o) /\ MadeInv(o) /\ box \in [Orch -> Box]
  BY KnownTypes DEF WorkInv
<1>3. row[o].status # "COMPLETED" /\ HasContainer(o)' = HasContainer(o)
  BY <1>1, CompletedIsOver DEF HasContainer
<1>4. RecordInv(o)'
  <2>1. CASE UNCHANGED box
    BY <1>1, <1>2, <1>3, <2>1 DEF RecordInv
  <2>2. CASE frame[o].stage = "make" /\ box' = [box EXCEPT ![o] = [state |-> "down", port |-> frame[o].port]]
    <3>1. ~HasContainer(o) /\ box'[o].state = "down"
      BY <1>1, <1>2, <2>2 DEF MadeInv, Active
    <3> QED BY <1>1, <1>2, <1>3, <3>1 DEF RecordInv
  <2>3. CASE frame[o].stage = "start" /\ SetBox(o, "up")
    <3>1. HasContainer(o) /\ box'[o].state = "up" /\ box'[o].port = box[o].port
      BY <1>1, <1>2, <2>3 DEF MadeInv, Active, Launching, SetBox, Box
    <3> QED BY <1>1, <1>2, <1>3, <3>1 DEF RecordInv
  <2> QED BY <2>1, <2>2, <2>3, Hanging
<1>5. StandingInv(o)' /\ MadeInv(o)'
  BY <1>1, <1>2, <1>3 DEF StandingInv, MadeInv, At, Active
<1> QED BY <1>1, <1>3, <1>4, <1>5, WorkLocal

\* A container that exits was recorded before it was started.
LEMMA WorkExits ==
  ASSUME Known, Known', WorkInv, NEW o \in Orch, Exit(o)
  PROVE  WorkInv'
<1>1. Alone(o) /\ UNCHANGED <<row, exec, frame, agent, call>>
  BY OthersAlone, Exiting DEF orchVars
<1>2. StandingInv(o) /\ RecordInv(o) /\ MadeInv(o) /\ box[o].state = "up" /\ HasContainer(o)
  BY Exiting DEF WorkInv, RecordInv
<1>3. box'[o].state = "dead" /\ box'[o].port = box[o].port /\ HasContainer(o)'
  BY <1>1, <1>2, KnownTypes, Exiting DEF SetBox, Box, HasContainer
<1>4. StandingInv(o)' /\ RecordInv(o)' /\ MadeInv(o)'
  BY <1>1, <1>2, <1>3 DEF StandingInv, RecordInv, MadeInv, At
<1> QED BY <1>1, <1>2, <1>3, <1>4, WorkLocal

LEMMA WorkInit == CreationInit => WorkInv
<1> SUFFICES ASSUME CreationInit PROVE WorkInv
  OBVIOUS
<1>1. ASSUME NEW o \in Orch PROVE StandingInv(o) /\ RecordInv(o) /\ MadeInv(o)
  BY DEF CreationInit, Init, StandingInv, RecordInv, MadeInv, HasContainer, At, Active, Launching
<1>2. ASSUME NEW c \in Calls PROVE CallInv(c)
  BY DEF CreationInit, CallInv
<1> QED BY <1>1, <1>2 DEF WorkInv

\* The inductive invariant of what has been made is kept by every step.
LEMMA WorkNext ==
  ASSUME Known, Known', WorkInv, [CreationNext]_vars
  PROVE  WorkInv'
<1>1. CASE UNCHANGED vars \/ \E t \in Tx : Decide(t)
  BY <1>1 DEF vars, orchVars, outside, Decide, WorkInv, StandingInv, RecordInv, MadeInv, CallInv, HasContainer, At
<1>2. ASSUME NEW o \in Orch, Executor(o) PROVE WorkInv'
  BY <1>2, WorkEngine, WorkRecord, WorkContainer, WorkLaunch DEF Executor
<1> QED BY <1>1, <1>2, WorkRequest, WorkCall, WorkCrash, WorkHangs, WorkExits DEF CreationNext

LEMMA WorkAlways == CreationSpec => [](Known /\ WorkInv)
<1>1. Known /\ Known' /\ WorkInv /\ [CreationNext]_vars => WorkInv'
  BY WorkNext
<1> QED BY <1>1, KnownAlways, WorkInit, PTL DEF CreationSpec

\* An agent whose orchestration reads COMPLETED has its container, port and runtime id, and had its three
\* first messages delivered, whatever calls, faults and crashes came between (the three step executors).
THEOREM CompletedIsOperational == CreationSpec => []CompletedMeansOperational
<1>1. WorkInv => CompletedMeansOperational
  BY DEF WorkInv, MadeInv, RecordInv, HasContainer, CompletedMeansOperational
<1> QED BY <1>1, WorkAlways, PTL

\* A container that no agent records is left by a creation that failed or was lost: never by one
\* that completed (create-container records the container it makes before it succeeds).
THEOREM OrphansComeOfFailure == CreationSpec => []OrphanedOnlyByFailure
<1>1. WorkInv => OrphanedOnlyByFailure
  BY DEF WorkInv, MadeInv, OrphanedOnlyByFailure
<1> QED BY <1>1, WorkAlways, PTL
-----------------------------------------------------------------------------
(* The ports of the agents (findAvailablePort). *)

\* Two creations that hold or have chosen one port were choosing at the same time: both still choose,
\* or one has recorded the port the other has chosen, or both have recorded it.
PortInv(o, x) ==
  o # x =>
    /\ Choosing(o) /\ Choosing(x) => {o, x} \in rivals
    /\ Choosing(o) /\ agent[x].port # 0 /\ agent[x].port = frame[o].port => {o, x} \in rivals
    /\ agent[o].port # 0 /\ agent[x].port = agent[o].port => {o, x} \in rivals

PortsInv ==
  /\ \A o, x \in Orch : PortInv(o, x)
  /\ MessagesReachTheirAgent

\* An action of a step leaves the executor in its step, or ends the step.
LEMMA WithinStep ==
  ASSUME NEW o \in Orch, CreateDbRecord(o) \/ CreateContainer(o) \/ RunContainer(o)
  PROVE  UNCHANGED orchVars \/ StepSucceeds(o) \/ StepFails(o)
<1>1. \A stage : Enter(o, stage) \/ Succeed(o, stage) \/ Retry(o) \/ Abort(o) =>
        UNCHANGED orchVars \/ StepSucceeds(o) \/ StepFails(o)
  BY DEF Enter, Succeed, Retry, Abort
<1>2. CASE CreateDbRecord(o)
  BY <1>1, <1>2 DEF CreateDbRecord, Validate, Poll, InsertAgent, Rename, SetPicture, Await
<1>3. CASE CreateContainer(o)
  BY <1>1, <1>3 DEF CreateContainer, PickPort, MakeContainer, RecordContainer, Await
<1>4. CASE RunContainer(o)
  BY <1>1, <1>4 DEF RunContainer, StartContainer, WaitForLog, MarkRunning, WaitForAgent, Post, Snapshot
<1> QED BY <1>2, <1>3, <1>4

\* An executor that stands within a step after its own action has only just entered the step, or
\* was within that same step before.
LEMMA SameStep ==
  ASSUME Known, WorkInv, NEW o \in Orch, Executor(o), exec'[o].pc = "running"
  PROVE  \/ Engine(o) /\ frame'[o].stage \in {"validate", "pick", "start"}
         \/ exec'[o] = exec[o] /\ exec[o].at = 1 /\ CreateDbRecord(o)
         \/ exec'[o] = exec[o] /\ exec[o].at = 2 /\ CreateContainer(o)
         \/ exec'[o] = exec[o] /\ exec[o].at = 3 /\ RunContainer(o)
<1>1. StandingInv(o) /\ exec \in [Orch -> Exec]
  BY KnownTypes DEF WorkInv
<1>2. CASE Engine(o)
  <2>1. exec[o].pc = "stepping" /\ frame' = frame
    BY <1>2, EngineMovesOn DEF EngineMoves, Engine
  <2> QED BY <1>1, <1>2, <2>1 DEF StandingInv
<1>3. CASE CreateDbRecord(o) \/ CreateContainer(o) \/ RunContainer(o)
  <2>1. exec' = exec
    BY <1>1, <1>3, WithinStep DEF orchVars, StepSucceeds, StepFails, Goto, Exec
  <2>2. CreateDbRecord(o) => frame[o].stage \in Creating
    BY DEF CreateDbRecord, Validate, Poll, InsertAgent, Rename, SetPicture, At, Creating
  <2>3. CreateContainer(o) => frame[o].stage \in Boxing
    BY DEF CreateContainer, PickPort, MakeContainer, RecordContainer, At, Boxing
  <2>4. RunContainer(o) => frame[o].stage \in Launching
    BY DEF RunContainer, StartContainer, WaitForLog, MarkRunning, WaitForAgent, Post, Snapshot, At, Launching
  <2> QED BY <1>1, <1>3, <2>1, <2>2, <2>3, <2>4 DEF StandingInv, Creating, Boxing, Launching
<1> QED BY <1>2, <1>3 DEF Executor

\* Nothing but the choice of a port and its record changes what PortInv speaks of.
PortsStay(o) ==
  /\ agent'[o].port = agent[o].port
  /\ Choosing(o)' => Choosing(o) /\ frame'[o].port = frame[o].port

LEMMA PortsKept ==
  ASSUME \A o \in Orch : PortsStay(o), rivals \subseteq rivals', \A o, x \in Orch : PortInv(o, x)
  PROVE  \A o, x \in Orch : PortInv(o, x)'
<1> SUFFICES ASSUME NEW o \in Orch, NEW x \in Orch PROVE PortInv(o, x)'
  OBVIOUS
<1>1. PortsStay(o) /\ PortsStay(x) /\ PortInv(o, x)
  OBVIOUS
<1> HIDE DEF Choosing
<1> QED BY <1>1 DEF PortsStay, PortInv

LEMMA PortsUntouched ==
  ASSUME Known, Known', WorkInv, WorkInv', NEW o \in Orch, Executor(o), ~PickPort(o), ~RecordContainer(o)
  PROVE  rivals' = rivals /\ \A x \in Orch : PortsStay(x)
<1>1. agent \in [Orch -> Agent] /\ Alone(o) /\ StandingInv(o)'
  BY KnownTypes, StepAlone DEF WorkInv
<1>2. rivals' = rivals
  BY DEF Executor, Engine, CreateDbRecord, CreateContainer, RunContainer, Validate, Poll, InsertAgent, Rename,
     SetPicture, MakeContainer, StartContainer, WaitForLog, MarkRunning, WaitForAgent, Post, Snapshot, history
<1>3. agent'[o].port = agent[o].port
  <2>1. CASE InsertAgent(o)
    BY <1>1, <2>1 DEF InsertAgent, Await, Agent
  <2>2. CASE SetPicture(o)
    BY <1>1, <2>2 DEF SetPicture, Await, Agent
  <2>3. CASE MarkRunning(o)
    <3> DEFINE set == agent[o].set \cup {"runtimeAgentId"}
               r == [agent[o] EXCEPT !.status = "RUNNING", !.set = set]
    <3>1. UNCHANGED agent \/ agent' = [agent EXCEPT ![o] = r]
      BY <2>3, Zenon DEF MarkRunning
    <3>2. r.port = agent[o].port
      BY <1>1 DEF Agent
    <3> HIDE DEF r
    <3> QED BY <1>1, <3>1, <3>2
  <2>4. InsertAgent(o) \/ SetPicture(o) \/ MarkRunning(o) \/ UNCHANGED agent
    BY DEF Executor, Engine, CreateDbRecord, CreateContainer, RunContainer, Validate, Poll, Rename,
       MakeContainer, StartContainer, WaitForLog, WaitForAgent, Post, Snapshot
  <2> QED BY <2>1, <2>2, <2>3, <2>4
<1>4. ASSUME Choosing(o)' PROVE Choosing(o) /\ frame'[o].port = frame[o].port
  <2>1. exec'[o].pc = "running" /\ exec'[o].at = 2
    BY <1>1, <1>4 DEF Choosing, StandingInv, Creating, Launching
  <2>2. CreateContainer(o)
    BY <1>4, <2>1, SameStep DEF Choosing
  <2>3. MakeContainer(o)
    BY <2>2 DEF CreateContainer
  <2>4. Enter(o, "record") \/ Abort(o)
    BY <2>3, Zenon DEF MakeContainer, Await
  <2>5. frame'[o].port = frame[o].port
    BY <2>4, Outcomes DEF GoesOn, Stops
  <2> QED BY <2>3, <2>5 DEF MakeContainer, At, Choosing
<1>5. ASSUME NEW x \in Orch \ {o} PROVE PortsStay(x)
  BY <1>1 DEF Alone, PortsStay, Choosing
<1> QED BY <1>2, <1>3, <1>4, <1>5 DEF PortsStay

\* A creation chooses a port that no agent has recorded, and races with those that have chosen
\* and not recorded yet.
LEMMA PortChosen ==
  ASSUME Known, WorkInv, PortsInv, NEW o \in Orch, PickPort(o)
  PROVE  \A x, y \in Orch : PortInv(x, y)'
<1>1. Alone(o) /\ UNCHANGED agent /\ rivals \subseteq rivals'
  BY StepAlone DEF Executor, CreateContainer, PickPort
<1>2. StandingInv(o) /\ RecordInv(o) /\ MadeInv(o) /\ frame \in [Orch -> WeakLocals]
  BY KnownTypes DEF WorkInv
<1>3. agent[o].port = 0
  BY <1>2 DEF PickPort, At, MadeInv, RecordInv, Active
<1>4. CASE Abort(o)
  <2>1. ~Choosing(o)'
    BY <1>4, Outcomes DEF Stops, Choosing
  <2>2. \A x \in Orch : PortsStay(x)
    BY <1>1, <2>1 DEF PortsStay, Alone, Choosing
  <2> QED BY <1>1, <2>2, PortsKept DEF PortsInv
<1>5. ASSUME NEW p \in FreePorts,
             frame' = [frame EXCEPT ![o] = [@ EXCEPT !.stage = "make", !.port = p]],
             rivals' = rivals \cup {{o, x} : x \in {y \in Orch : Choosing(y)}}
      PROVE  \A x, y \in Orch : PortInv(x, y)'
  <2>1. frame'[o].port = p
    <3> DEFINE f == [frame[o] EXCEPT !.stage = "make", !.port = p]
    <3>1. f.port = p
      BY <1>2 DEF WeakLocals
    <3>2. frame' = [frame EXCEPT ![o] = f]
      BY <1>5
    <3> HIDE DEF f
    <3> QED BY <1>2, <3>1, <3>2
  <2>2. \A x \in Orch : agent[x].port # 0 => agent[x].port # p
    BY DEF FreePorts, UsedPorts, WorkInv, RecordInv
  <2>3. \A x \in Orch \ {o} : Choosing(x)' = Choosing(x) /\ frame'[x] = frame[x]
    BY <1>1 DEF Alone, Choosing
  <2>4. \A x \in Orch : Choosing(x) => {o, x} \in rivals' /\ {x, o} \in rivals'
    BY <1>5
  <2>5. ASSUME NEW x \in Orch, NEW y \in Orch PROVE PortInv(x, y)'
    <3>1. PortInv(x, y)
      BY DEF PortsInv
    <3> HIDE DEF Choosing
    <3>2. CASE x = o
      BY <1>1, <2>1, <2>2, <2>3, <2>4, <3>1, <3>2 DEF PortInv
    <3>3. CASE x # o /\ y = o
      BY <1>1, <1>3, <2>1, <2>3, <2>4, <3>1, <3>3 DEF PortInv
    <3>4. CASE x # o /\ y # o
      BY <1>1, <2>3, <3>1, <3>4 DEF PortInv
    <3> QED BY <3>2, <3>3, <3>4
  <2> QED BY <2>5
<1> QED BY <1>4, <1>5 DEF PickPort

\* What is recorded is the port chosen, which only the rivals of the creation can have chosen too.
LEMMA PortRecorded ==
  ASSUME Known, WorkInv, PortsInv, NEW o \in Orch, RecordContainer(o)
  PROVE  \A x, y \in Orch : PortInv(x, y)'
<1>1. Alone(o) /\ rivals' = rivals
  BY StepAlone DEF Executor, CreateContainer, RecordContainer, history
<1>2. agent \in [Orch -> Agent] /\ Choosing(o)
  BY KnownTypes DEF RecordContainer, At, Choosing
<1>3. agent'[o].port \in {agent[o].port, frame[o].port}
  <2> DEFINE set == agent[o].set \cup {"containerId"}
             r == [agent[o] EXCEPT !.set = set, !.port = frame[o].port]
  <2>1. UNCHANGED agent \/ agent' = [agent EXCEPT ![o] = r]
    <3>1. CASE agent' = Recorded(o)
      BY <3>1, Zenon DEF Recorded
    <3> QED BY <3>1 DEF RecordContainer, Await
  <2>2. r.port = frame[o].port
    BY <1>2 DEF Agent
  <2> HIDE DEF r
  <2> QED BY <1>2, <2>1, <2>2
<1>4. ~Choosing(o)'
  <2>1. Succeed(o, "start") \/ Abort(o)
    BY Zenon DEF RecordContainer, Await
  <2> QED BY <2>1, Outcomes DEF Ends, Stops, Choosing
<1>5. \A x \in Orch \ {o} : /\ Choosing(x)' = Choosing(x) /\ frame'[x] = frame[x]
                            /\ agent'[x] = agent[x]
  BY <1>1 DEF Alone, Choosing
<1>6. ASSUME NEW x \in Orch, NEW y \in Orch PROVE PortInv(x, y)'
  <2>1. PortInv(x, y) /\ PortInv(y, x) /\ {x, y} = {y, x}
    BY DEF PortsInv
  <2> HIDE DEF Choosing
  <2>2. CASE x = o
    BY <1>1, <1>2, <1>3, <1>4, <1>5, <2>1, <2>2 DEF PortInv
  <2>3. CASE x # o
    BY <1>1, <1>2, <1>3, <1>4, <1>5, <2>1, <2>3 DEF PortInv
  <2> QED BY <2>2, <2>3
<1> QED BY <1>6

\* A message goes to a container with the port of the agent: its own, or that of a rival.
LEMMA PostReaches ==
  ASSUME Known, WorkInv, PortsInv, NEW o \in Orch, At(o, "post"), rivals' = rivals,
         Hears(o) \/ heard' = heard
  PROVE  MessagesReachTheirAgent'
<1>2. agent[o].port # 0
  BY DEF WorkInv, MadeInv, RecordInv, At, Active, Launching
<1>3. ASSUME NEW x \in Orch, Listens(x, agent[o].port)
      PROVE  o = x \/ {o, x} \in rivals
  <2>1. agent[x].port = agent[o].port
    BY <1>3 DEF Listens, WorkInv, RecordInv
  <2> QED BY <1>2, <2>1 DEF PortsInv, PortInv
<1>4. heard' = heard \/ \E x \in Orch : Listens(x, agent[o].port) /\ heard' = heard \cup {<<o, x>>}
  BY Zenon DEF Hears
<1>5. ASSUME NEW m \in heard' PROVE m[1] = m[2] \/ {m[1], m[2]} \in rivals
  <2>1. CASE m \in heard
    BY <2>1 DEF PortsInv, MessagesReachTheirAgent
  <2>2. CASE m \notin heard
    <3>1. PICK x \in Orch : Listens(x, agent[o].port) /\ m = <<o, x>>
      BY <1>4, <1>5, <2>2
    <3>2. m[1] = o /\ m[2] = x
      BY <3>1
    <3> QED BY <1>3, <3>1, <3>2
  <2> QED BY <2>1, <2>2
<1> QED BY <1>5 DEF MessagesReachTheirAgent

LEMMA PortsNext ==
  ASSUME Known, Known', WorkInv, WorkInv', PortsInv, [CreationNext]_vars
  PROVE  PortsInv'
<1>1. ASSUME \A x \in Orch : PortsStay(x), UNCHANGED <<rivals, heard>> PROVE PortsInv'
  BY <1>1, PortsKept DEF PortsInv, MessagesReachTheirAgent
<1>2. CASE UNCHANGED vars \/ \E t \in Tx : Decide(t)
  BY <1>1, <1>2 DEF vars, orchVars, history, Decide, PortsStay, Choosing
<1>3. ASSUME NEW o \in Orch, Executor(o) PROVE PortsInv'
  <2>0. Post(o) => At(o, "post") /\ rivals' = rivals /\ (Hears(o) \/ heard' = heard)
    BY Zenon DEF Post
  <2>1. heard' = heard \/ Post(o)
    BY <1>3 DEF Executor, Engine, CreateDbRecord, CreateContainer, RunContainer, Validate, Poll, InsertAgent,
       Rename, SetPicture, PickPort, MakeContainer, RecordContainer, StartContainer, WaitForLog, MarkRunning,
       WaitForAgent, Snapshot, history
  <2>2. rivals \subseteq rivals'
    BY <1>3, PortsUntouched DEF PickPort, RecordContainer, history
  <2>3. MessagesReachTheirAgent'
    BY <2>0, <2>1, <2>2, PostReaches DEF MessagesReachTheirAgent, PortsInv
  <2>4. \A x, y \in Orch : PortInv(x, y)'
    BY <1>3, <2>2, PortChosen, PortRecorded, PortsUntouched, PortsKept DEF PortsInv
  <2> QED BY <2>3, <2>4 DEF PortsInv
<1>4. ASSUME NEW o \in Orch, Request(o) PROVE PortsInv'
  <2>1. UNCHANGED <<frame, agent, rivals, heard>> /\ Alone(o)
    BY <1>4, StepAlone DEF Request, Upload, Ask, Answer, Cleanup, history
  <2>2. Choosing(o)' => Choosing(o)
    <3>1. UNCHANGED orchVars \/ exec'[o].pc \in {"loading", "over"}
      BY <1>4, KnownTypes DEF Request, Upload, Ask, Answer, Cleanup, StartOrchestration, Goto, Exec
    <3> QED BY <2>1, <3>1 DEF Choosing, orchVars
  <2>3. \A x \in Orch : PortsStay(x)
    BY <2>1, <2>2 DEF PortsStay, Alone, Choosing
  <2> QED BY <1>1, <2>1, <2>3
<1>5. ASSUME NEW c \in Calls, LifecycleCall(c) PROVE PortsInv'
  <2>1. \A x \in Orch : PortsStay(x)
    BY <1>5, CallTouches DEF PortsStay, orchVars, Choosing
  <2> QED BY <1>1, <1>5, <2>1, CallTouches
<1>6. CASE Crash
  <2>1. \A x \in Orch : PortsStay(x)
    BY <1>6, KnownTypes DEF Crash, Restart, PortsStay, Choosing, Exec
  <2> QED BY <1>1, <1>6, <2>1 DEF Crash
<1>7. ASSUME NEW o \in Orch, NeverAnswered(o) PROVE PortsInv'
  <2>1. Alone(o) /\ UNCHANGED <<frame, agent, rivals>> /\ ~Choosing(o)'
    BY <1>7, OthersAlone, KnownTypes DEF NeverAnswered, StepHangs, Goto, Exec, Choosing
  <2>2. \A x \in Orch : PortsStay(x)
    BY <2>1 DEF PortsStay, Alone, Choosing
  <2>3. heard' = heard \/ (At(o, "post") /\ Hears(o))
    BY <1>7, Zenon DEF NeverAnswered
  <2>4. MessagesReachTheirAgent'
    BY <2>1, <2>3, PostReaches DEF MessagesReachTheirAgent, PortsInv
  <2> QED BY <2>1, <2>2, <2>4, PortsKept DEF PortsInv
<1>8. ASSUME NEW o \in Orch, Exit(o) PROVE PortsInv'
  <2>1. UNCHANGED <<exec, frame, agent, rivals, heard>>
    BY <1>8, Exiting DEF orchVars
  <2>2. \A x \in Orch : PortsStay(x)
    BY <2>1 DEF PortsStay, Choosing
  <2> QED BY <1>1, <2>1, <2>2
<1> QED BY <1>2, <1>3, <1>4, <1>5, <1>6, <1>7, <1>8 DEF CreationNext

LEMMA PortsAlways == CreationSpec => [](WorkInv /\ PortsInv)
<1>1. CreationInit => PortsInv
  BY DEF CreationInit, Init, PortsInv, PortInv, Choosing, MessagesReachTheirAgent
<1>2. (Known /\ WorkInv) /\ (Known /\ WorkInv)' /\ PortsInv /\ [CreationNext]_vars => PortsInv'
  BY PortsNext
<1> QED BY <1>1, <1>2, WorkAlways, PTL DEF CreationSpec

\* The recorded port is the container's, and two agents hold one port only if both creations had chosen
\* and not recorded it at the same time, for any number of creations and ports (findAvailablePort).
THEOREM PortsAreShared == CreationSpec => []PortsSharedOnlyByRace
<1>1. WorkInv /\ PortsInv => PortsSharedOnlyByRace
  BY DEF WorkInv, RecordInv, HasContainer, PortsInv, PortInv, PortsSharedOnlyByRace
<1> QED BY <1>1, PortsAlways, PTL

\* Whatever is stopped, started, refused or lost, a message for an agent reaches its own container
\* unless its creation raced for the port (sendMessageToAgent posts to localhost).
THEOREM MessagesArrive == CreationSpec => []MessagesReachTheirAgent
<1>1. PortsInv => MessagesReachTheirAgent
  BY DEF PortsInv
<1> QED BY <1>1, PortsAlways, PTL
-----------------------------------------------------------------------------
(* The status of an agent and its container. *)

\* The calls, and the executor, that have operated on the container of o and not yet written its status.
Writing(o) == {c \in Calls : call[c].pc = "write" /\ call[c].on = o}
Waiting(o) == exec[o].pc = "running" /\ frame[o].stage \in {"logs", "mark"}

\* As long as nothing overlapped on o: whoever is to write its status is alone, and will write what
\* the container is; when nobody is, the status says what the container is.
StatusInv(o) ==
  o \notin blurred =>
    /\ Waiting(o) => box[o].state \in {"up", "dead"} /\ Writing(o) = {}
    /\ \A c \in Writing(o) :
         /\ (box[o].state \in {"up", "dead"}) = (call[c].op = "start")
         /\ \A d \in Writing(o) : d = c
    /\ ~Unsettled(o) => (agent[o].status = "RUNNING") = (box[o].state \in {"up", "dead"})

StatusesInv == \A o \in Orch : StatusInv(o)

\* Nothing that StatusInv speaks of changes.
StatusStays(o) ==
  /\ Waiting(o)' <=> Waiting(o)
  /\ Writing(o)' = Writing(o)
  /\ agent'[o].status = "RUNNING" <=> agent[o].status = "RUNNING"
  /\ box'[o].state \in {"up", "dead"} <=> box[o].state \in {"up", "dead"}

LEMMA UnsettledIs ==
  ASSUME NEW o \in Orch
  PROVE  /\ Unsettled(o) <=> Waiting(o) \/ Writing(o) # {}
         /\ Unsettled(o)' <=> Waiting(o)' \/ Writing(o)' # {}
<1>1. (\E c \in Calls : call[c].pc = "write" /\ call[c].on = o) <=> Writing(o) # {}
  BY DEF Writing
<1>2. (\E c \in Calls : call'[c].pc = "write" /\ call'[c].on = o) <=> Writing(o)' # {}
  BY DEF Writing
<1>3. Unsettled(o) <=> Waiting(o) \/ Writing(o) # {}
  BY <1>1 DEF Unsettled, Waiting
<1>4. Unsettled(o)' <=> Waiting(o)' \/ Writing(o)' # {}
  BY <1>2 DEF Unsettled, Waiting
<1> QED BY <1>3, <1>4

LEMMA StatusKept ==
  ASSUME NEW o \in Orch, StatusInv(o), StatusStays(o), blurred \subseteq blurred',
         \A c \in Calls : call'[c].op = call[c].op
  PROVE  StatusInv(o)'
<1>1. Writing(o) \subseteq Calls
  BY DEF Writing
<1>2. Unsettled(o)' <=> Unsettled(o)
  BY UnsettledIs DEF StatusStays
<1> HIDE DEF Writing, Waiting, Unsettled
<1>3. ASSUME o \notin blurred'
      PROVE  /\ Waiting(o)' => box'[o].state \in {"up", "dead"} /\ Writing(o)' = {}
             /\ \A c \in Writing(o)' : /\ (box'[o].state \in {"up", "dead"}) = (call'[c].op = "start")
                                       /\ \A d \in Writing(o)' : d = c
             /\ ~Unsettled(o)' => (agent'[o].status = "RUNNING") = (box'[o].state \in {"up", "dead"})
  BY <1>1, <1>2, <1>3 DEF StatusStays, StatusInv
<1> QED BY <1>3 DEF StatusInv

\* An executor steps: the agents of the other creations stay as they are.
LEMMA StatusLocal ==
  ASSUME Known, StatusesInv, NEW o \in Orch, Alone(o), UNCHANGED call, blurred \subseteq blurred',
         StatusInv(o)'
  PROVE  StatusesInv'
<1>1. ASSUME NEW x \in Orch \ {o} PROVE StatusInv(x)'
  <2>1. StatusStays(x)
    BY DEF Alone, StatusStays, Waiting, Writing
  <2> QED BY <2>1, StatusKept DEF StatusesInv
<1> QED BY <1>1 DEF StatusesInv

\* The actions that leave the wait for the first log line alone.
Waits(o) == StartContainer(o) \/ WaitForLog(o) \/ MarkRunning(o)

LEMMA NoWait ==
  ASSUME Known, WorkInv, WorkInv', NEW o \in Orch, Executor(o), ~Waits(o)
  PROVE  ~Waiting(o) /\ ~Waiting(o)'
<1>1. StandingInv(o) /\ StandingInv(o)'
  BY DEF WorkInv
<1>2. ~Waiting(o)
  <2>1. CASE Engine(o)
    BY <2>1, EngineMovesOn DEF Engine, EngineMoves, Waiting
  <2> QED BY <2>1 DEF Waits, Executor, CreateDbRecord, CreateContainer, RunContainer, Validate, Poll, InsertAgent,
          Rename, SetPicture, PickPort, MakeContainer, RecordContainer, WaitForAgent, Post, Snapshot, At, Waiting
<1>3. ASSUME Waiting(o)' PROVE FALSE
  <2>1. exec'[o].pc = "running" /\ frame'[o].stage \in {"logs", "mark"} /\ exec'[o].at = 3
    BY <1>1, <1>3 DEF Waiting, StandingInv, Creating, Boxing
  <2>2. RunContainer(o) /\ exec'[o] = exec[o] /\ exec[o].pc = "running"
    BY <2>1, SameStep
  <2>3. WaitForAgent(o) \/ Post(o) \/ Snapshot(o)
    BY <2>2 DEF RunContainer, Waits
  <2>4. ~Abort(o)
    BY <2>1, Outcomes DEF Stops
  <2>5. CASE WaitForAgent(o) \/ Snapshot(o)
    <3>1. Enter(o, "post") \/ Enter(o, "ready") \/ (Retry(o) /\ frame[o].stage = "ready")
      BY <2>4, <2>5, Zenon DEF WaitForAgent, Snapshot, At
    <3> QED BY <2>1, <3>1, Outcomes DEF GoesOn
  <2>6. CASE Post(o)
    <3> DEFINE n == frame[o].posts + 1
               f == [frame[o] EXCEPT !.posts = n, !.tries = 0,
                                     !.stage = IF n = 1 THEN "snapshot" ELSE "ready"]
    <3>1. f.stage \in {"snapshot", "ready"}
      BY KnownTypes DEF WeakLocals
    <3>2. frame' = [frame EXCEPT ![o] = f]
      BY <2>4, <2>6 DEF Post
    <3> HIDE DEF f
    <3> QED BY <2>1, <3>1, <3>2, KnownTypes
  <2> QED BY <2>3, <2>5, <2>6
<1> QED BY <1>2, <1>3

\* Outside that wait an executor neither starts nor stops a container, and writes STARTING
\* only before there is one.
LEMMA StatusUntouched ==
  ASSUME Known, WorkInv, WorkInv', StatusesInv, NEW o \in Orch, Executor(o), ~Waits(o)
  PROVE  StatusesInv'
<1>1. Alone(o) /\ UNCHANGED call /\ agent \in [Orch -> Agent] /\ box \in [Orch -> Box]
  BY StepAlone, KnownTypes
<1>2. blurred' = blurred
  BY DEF Waits, Executor, Engine, CreateDbRecord, CreateContainer, RunContainer, Validate, Poll, InsertAgent, Rename,
     SetPicture, PickPort, MakeContainer, RecordContainer, WaitForAgent, Post, Snapshot, history
<1>3. StatusInv(o) /\ MadeInv(o) /\ RecordInv(o)
  BY DEF WorkInv, StatusesInv
<1>4. ASSUME agent'[o].status = "RUNNING" <=> agent[o].status = "RUNNING",
             box'[o].state \in {"up", "dead"} <=> box[o].state \in {"up", "dead"}
      PROVE  StatusInv(o)'
  <2>1. ~Waiting(o) /\ ~Waiting(o)'
    BY NoWait
  <2>2. Writing(o)' = Writing(o)
    BY <1>1 DEF Writing
  <2>3. StatusStays(o)
    BY <1>4, <2>1, <2>2 DEF StatusStays
  <2> QED BY <1>1, <1>2, <1>3, <2>3, StatusKept
<1>5. StatusInv(o)'
  <2>1. CASE UNCHANGED agent /\ UNCHANGED box
    BY <1>4, <2>1
  <2>2. CASE SetPicture(o) \/ RecordContainer(o)
    <3>1. agent'[o].status = agent[o].status /\ box' = box
      <4>1. CASE SetPicture(o)
        BY <1>1, <4>1 DEF SetPicture, Await, Agent
      <4>2. CASE RecordContainer(o)
        <5> DEFINE set == agent[o].set \cup {"containerId"}
                   r == [agent[o] EXCEPT !.set = set, !.port = frame[o].port]
        <5>1. UNCHANGED agent \/ agent' = [agent EXCEPT ![o] = r]
          <6>1. CASE agent' = Recorded(o)
            BY <6>1, Zenon DEF Recorded
          <6> QED BY <4>2, <6>1 DEF RecordContainer, Await
        <5>2. r.status = agent[o].status
          BY <1>1 DEF Agent
        <5>3. box' = box
          BY <4>2 DEF RecordContainer
        <5> HIDE DEF r
        <5> QED BY <1>1, <5>1, <5>2, <5>3
      <4> QED BY <2>2, <4>1, <4>2
    <3> QED BY <1>4, <3>1
  <2>3. CASE MakeContainer(o)
    <3>1. box[o].state = "none" /\ agent' = agent
      BY <1>3, <2>3 DEF MakeContainer, At, MadeInv, Active
    <3>2. box'[o].state \in {"none", "down"}
      BY <1>1, <2>3, <3>1 DEF MakeContainer, Made, Await
    <3> QED BY <1>4, <3>1, <3>2
  <2>4. CASE InsertAgent(o)
    <3>1. box[o].state = "none" /\ box' = box /\ ~HasContainer(o)
      BY <1>3, <2>4 DEF InsertAgent, At, MadeInv, Active, Creating
    <3>2. agent'[o].status = "STARTING" \/ agent' = agent
      BY <1>1, <2>4 DEF InsertAgent, Await, Agent
    <3>3. CASE agent' = agent
      BY <1>4, <3>1, <3>3
    <3>4. CASE agent'[o].status = "STARTING"
      <4>1. ~Waiting(o)' /\ Writing(o)' = {}
        <5>1. \A c \in Calls : call[c].pc = "write" => call[c].on # o
          BY <3>1 DEF WorkInv, CallInv
        <5> QED BY <1>1, <5>1, NoWait DEF Writing
      <4> HIDE DEF Writing, Waiting, Unsettled
      <4> QED BY <3>1, <3>4, <4>1 DEF StatusInv
    <3> QED BY <3>2, <3>3, <3>4
  <2>5. \/ UNCHANGED agent /\ UNCHANGED box
        \/ SetPicture(o) \/ RecordContainer(o) \/ MakeContainer(o) \/ InsertAgent(o)
    BY DEF Waits, Executor, Engine, CreateDbRecord, CreateContainer, RunContainer, Validate, Poll, Rename,
       PickPort, WaitForAgent, Post, Snapshot
  <2> QED BY <2>1, <2>2, <2>3, <2>4, <2>5
<1> QED BY <1>1, <1>2, <1>5, StatusLocal

\* The wait itself: the container is started alone, and then marked while no call is between its two writes.
LEMMA StatusWaits ==
  ASSUME Known, WorkInv, StatusesInv, NEW o \in Orch, Waits(o)
  PROVE  StatusesInv'
<1>1. Alone(o) /\ UNCHANGED call
  BY StepAlone DEF Executor, RunContainer, Waits
<1>2. /\ StatusInv(o) /\ exec[o].pc = "running" /\ frame \in [Orch -> WeakLocals]
      /\ agent \in [Orch -> Agent] /\ box \in [Orch -> Box] /\ Writing(o)' = Writing(o)
  BY <1>1, KnownTypes DEF StatusesInv, Waits, StartContainer, WaitForLog, MarkRunning, At, Writing
<1>3. /\ \A stage : Enter(o, stage) => GoesOn(o, stage)
      /\ Abort(o) => ~Waiting(o)'
  BY Outcomes DEF Stops, Waiting
<1>4. blurred \subseteq blurred'
  BY DEF Waits, StartContainer, WaitForLog, MarkRunning, Blur
<1>5. CASE o \in blurred'
  BY <1>1, <1>4, <1>5, StatusLocal DEF StatusInv
<1>6. CASE o \notin blurred'
  <2>1. o \notin blurred
    BY <1>4, <1>6
  <2>2. CASE StartContainer(o)
    <3>1. ~Waiting(o)
      BY <2>2 DEF StartContainer, At, Waiting
    <3>2. CASE UNCHANGED box /\ Abort(o)
      <4>1. agent' = agent
        BY <2>2 DEF StartContainer
      <4>2. StatusStays(o)
        BY <1>2, <1>3, <3>1, <3>2, <4>1 DEF StatusStays
      <4> QED BY <1>1, <1>2, <1>4, <4>2, StatusKept, StatusLocal
    <3>3. CASE SetBox(o, "up") /\ Enter(o, "logs") /\ Blur(o, Unsettled(o))
      <4>1. ~Unsettled(o)
        BY <1>6, <3>3 DEF Blur
      <4>2. Writing(o)' = {}
        BY <1>2, <4>1, UnsettledIs
      <4>3. Waiting(o)' /\ box'[o].state \in {"up", "dead"}
        BY <1>2, <1>3, <3>3 DEF GoesOn, Waiting, SetBox, Box
      <4>4. StatusInv(o)'
        <5>1. Unsettled(o)'
          BY <4>3, UnsettledIs
        <5> HIDE DEF Writing, Waiting, Unsettled
        <5> QED BY <4>2, <4>3, <5>1 DEF StatusInv
      <4> QED BY <1>1, <1>4, <4>4, StatusLocal
    <3>4. ~Blur(o, TRUE)
      BY <1>6 DEF Blur
    <3> QED BY <2>2, <3>2, <3>3, <3>4, Zenon DEF StartContainer
  <2>3. CASE WaitForLog(o) \/ MarkRunning(o)
    <3>1. Waiting(o)
      BY <2>3 DEF WaitForLog, MarkRunning, At, Waiting
    <3>2. box[o].state \in {"up", "dead"} /\ Writing(o) = {} /\ box' = box
      BY <1>2, <2>1, <2>3, <3>1 DEF StatusInv, WaitForLog, MarkRunning
    <3>3. ~Blur(o, TRUE)
      BY <1>6 DEF Blur
    <3>4. CASE WaitForLog(o)
      <4>1. Enter(o, "mark") /\ agent' = agent
        BY <3>3, <3>4 DEF WaitForLog
      <4>2. Waiting(o)'
        BY <1>2, <1>3, <4>1 DEF GoesOn, Waiting
      <4>3. StatusStays(o)
        BY <1>2, <3>1, <3>2, <4>1, <4>2 DEF StatusStays
      <4> QED BY <1>1, <1>2, <1>4, <4>3, StatusKept, StatusLocal
    <3>5. CASE MarkRunning(o)
      <4> DEFINE set == agent[o].set \cup {"runtimeAgentId"}
                 r == [agent[o] EXCEPT !.status = "RUNNING", !.set = set]
      <4>1. agent' = [agent EXCEPT ![o] = r] /\ Enter(o, "ready")
        BY <3>3, <3>5, Zenon DEF MarkRunning
      <4>2. r.status = "RUNNING"
        BY <1>2 DEF Agent
      <4> HIDE DEF r
      <4>3. agent'[o].status = "RUNNING" /\ ~Waiting(o)'
        BY <1>2, <1>3, <4>1, <4>2 DEF GoesOn, Waiting
      <4>4. Writing(o)' = {} /\ box'[o].state \in {"up", "dead"}
        BY <1>2, <3>2
      <4>5. StatusInv(o)'
        <5> HIDE DEF Writing, Waiting, Unsettled
        <5> QED BY <4>3, <4>4 DEF StatusInv
      <4> QED BY <1>1, <1>4, <4>5, StatusLocal
    <3> QED BY <2>3, <3>4, <3>5
  <2> QED BY <2>2, <2>3 DEF Waits
<1> QED BY <1>5, <1>6

\* A call of the lifecycle service: between its operation and its write no other may be under way.
LEMMA StatusCall ==
  ASSUME Known, WorkInv, StatusesInv, NEW c \in Calls, LifecycleCall(c)
  PROVE  StatusesInv'
<1>0. PICK o \in Orch : o = call[c].on
  BY KnownTypes DEF Call
<1> USE <1>0
<1>1. /\ UNCHANGED <<exec, frame>> /\ o \in Orch /\ call'[c].on = o /\ call'[c].op = call[c].op
      /\ \A d \in Calls \ {c} : call'[d] = call[d]
      /\ \A x \in Orch \ {o} : agent'[x].status = agent[x].status /\ box'[x].state = box[x].state
  BY CallTouches DEF orchVars
<1>2. /\ agent \in [Orch -> Agent] /\ box \in [Orch -> Box] /\ call \in [Calls -> Call]
  BY KnownTypes
<1>3. blurred \subseteq blurred' /\ \A d \in Calls : call'[d].op = call[d].op
  BY <1>1 DEF LifecycleCall, ReadAgent, CallDocker, WriteStatus, Blur, history
<1>4. \A x \in Orch : Waiting(x)' <=> Waiting(x)
  BY <1>1 DEF Waiting
<1>5. ASSUME NEW x \in Orch, x # o PROVE StatusInv(x)'
  <2>1. Writing(x)' = Writing(x)
    BY <1>1, <1>5 DEF Writing
  <2>2. StatusStays(x)
    BY <1>1, <1>4, <1>5, <2>1 DEF StatusStays
  <2> QED BY <1>3, <2>2, StatusKept DEF StatusesInv
<1>6. StatusInv(o)'
  <2>1. CASE o \in blurred'
    BY <2>1 DEF StatusInv
  <2>2. CASE o \notin blurred' /\ call[c].pc # "write" /\ call'[c].pc # "write" /\ UNCHANGED <<agent, box>>
    <3>1. Writing(o)' = Writing(o)
      BY <1>1, <2>2 DEF Writing
    <3>2. StatusStays(o)
      BY <1>4, <2>2, <3>1 DEF StatusStays
    <3> QED BY <1>1, <1>3, <3>2, StatusKept DEF StatusesInv
  <2>3. CASE /\ o \notin blurred' /\ CallDocker(c) /\ SetPc(c, "write") /\ Blur(o, Unsettled(o))
             /\ SetBox(o, IF call[c].op = "start" THEN "up" ELSE "down")
    <3>1. ~Unsettled(o)
      BY <2>3 DEF Blur
    <3>2. Writing(o) = {} /\ ~Waiting(o)'
      BY <1>1, <1>4, <3>1, UnsettledIs
    <3>3. Writing(o)' = {c}
      BY <1>1, <1>2, <2>3, <3>2 DEF Writing, SetPc, Call
    <3>4. box'[o].state \in {"up", "dead"} <=> call'[c].op = "start"
      BY <1>1, <1>2, <2>3 DEF SetBox, Box
    <3>5. Unsettled(o)'
      BY <1>1, <3>3, UnsettledIs
    <3> HIDE DEF Writing, Waiting, Unsettled
    <3> QED BY <3>2, <3>3, <3>4, <3>5 DEF StatusInv
  <2>4. CASE o \notin blurred' /\ WriteStatus(c)
    <3>1. c \in Writing(o) /\ o \notin blurred /\ box' = box
      BY <1>3, <2>4 DEF WriteStatus, Writing
    <3>2. /\ Writing(o) = {c} /\ ~Waiting(o)
          /\ box[o].state \in {"up", "dead"} <=> call[c].op = "start"
      <4> HIDE DEF Writing, Waiting, Unsettled
      <4> QED BY <1>1, <3>1 DEF StatusesInv, StatusInv
    <3>3. agent' = [agent EXCEPT ![o].status = IF call[c].op = "start" THEN "RUNNING" ELSE "STARTING"]
      BY <2>4 DEF WriteStatus, Blur
    <3>4. agent'[o].status = "RUNNING" <=> call[c].op = "start"
      BY <1>1, <1>2, <3>3 DEF Agent
    <3>5. Writing(o)' = {}
      BY <1>1, <1>2, <2>4, <3>2 DEF WriteStatus, SetPc, Writing, Call
    <3>6. ~Waiting(o)'
      BY <1>1, <1>4, <3>2
    <3> HIDE DEF Writing, Waiting, Unsettled
    <3> QED BY <3>1, <3>2, <3>4, <3>5, <3>6 DEF StatusInv
  <2>5. CASE ReadAgent(c)
    BY <1>2, <2>1, <2>2, <2>5 DEF ReadAgent, SetPc, Call
  <2>6. CASE CallDocker(c)
    <3>1. \/ SetPc(c, "write") /\ Blur(o, Unsettled(o))
             /\ SetBox(o, IF call[c].op = "start" THEN "up" ELSE "down")
          \/ Blur(o, TRUE)
          \/ SetPc(c, "over") /\ UNCHANGED box
      BY <2>6, Zenon DEF CallDocker
    <3>2. UNCHANGED agent /\ call[c].pc = "docker"
      BY <2>6 DEF CallDocker
    <3>3. Blur(o, TRUE) => o \in blurred'
      BY DEF Blur
    <3>4. SetPc(c, "over") => call'[c].pc # "write"
      BY <1>2 DEF SetPc, Call
    <3> QED BY <2>1, <2>2, <2>3, <2>6, <3>1, <3>2, <3>3, <3>4
  <2> QED BY <2>1, <2>4, <2>5, <2>6 DEF LifecycleCall
<1> QED BY <1>5, <1>6 DEF StatusesInv

\* A crash between an operation and its write is remembered; any other leaves what there is.
LEMMA StatusCrash ==
  ASSUME Known, StatusesInv, Crash
  PROVE  StatusesInv'
<1> SUFFICES ASSUME NEW o \in Orch, o \notin blurred' PROVE StatusInv(o)'
  BY DEF StatusesInv, StatusInv
<1>1. ~Unsettled(o) /\ o \notin blurred /\ UNCHANGED <<agent, box>>
  BY DEF Crash
<1>2. ~Waiting(o)'
  BY KnownTypes DEF Crash, Restart, Exec, Live, Waiting
<1>3. Writing(o)' = {}
  BY KnownTypes DEF Crash, Writing, Call
<1>4. (agent[o].status = "RUNNING") = (box[o].state \in {"up", "dead"})
  BY <1>1 DEF StatusesInv, StatusInv
<1> HIDE DEF Writing, Waiting, Unsettled
<1> QED BY <1>1, <1>2, <1>3, <1>4 DEF StatusInv

\* An executor that hangs has not touched the container, or that is remembered; a container that exits
\* was started.
LEMMA StatusApart ==
  ASSUME Known, WorkInv, StatusesInv, NEW o \in Orch, NeverAnswered(o) \/ Exit(o)
  PROVE  StatusesInv'
<1>1. Alone(o) /\ UNCHANGED <<frame, agent, call>> /\ blurred \subseteq blurred' /\ Writing(o)' = Writing(o)
  BY OthersAlone, Hanging, Exiting DEF Blur, Writing
<1>2. StatusInv(o) /\ MadeInv(o) /\ box \in [Orch -> Box]
  BY KnownTypes DEF StatusesInv, WorkInv
<1>3. CASE o \in blurred'
  BY <1>1, <1>3, StatusLocal DEF StatusInv
<1>4. CASE NeverAnswered(o) /\ o \notin blurred'
  <2>1. ~Blur(o, TRUE) /\ (Blur(o, frame[o].stage = "logs") => frame[o].stage # "logs")
    BY <1>4 DEF Blur
  <2>2. exec[o].pc = "running" /\ frame[o].stage \in Unbounded /\ frame[o].stage # "logs"
    BY <1>4, <2>1, Hanging
  <2>3. \/ UNCHANGED box
        \/ frame[o].stage = "make" /\ box' = [box EXCEPT ![o] = [state |-> "down", port |-> frame[o].port]]
    BY <1>4, <2>1, Hanging
  <2>4. box'[o].state \in {"up", "dead"} <=> box[o].state \in {"up", "dead"}
    BY <1>2, <2>2, <2>3 DEF MadeInv, Active
  <2>5. ~Waiting(o) /\ ~Waiting(o)'
    BY <1>4, <2>2, KnownTypes DEF NeverAnswered, StepHangs, Goto, Exec, Waiting, Unbounded
  <2>6. StatusStays(o)
    BY <1>1, <2>4, <2>5 DEF StatusStays
  <2> QED BY <1>1, <1>2, <2>6, StatusKept, StatusLocal
<1>5. CASE Exit(o)
  <2>1. box[o].state = "up" /\ box'[o].state = "dead" /\ exec' = exec
    BY <1>2, <1>5, Exiting DEF SetBox, Box, orchVars
  <2>2. StatusStays(o)
    BY <1>1, <2>1 DEF StatusStays, Waiting
  <2> QED BY <1>1, <1>2, <2>2, StatusKept, StatusLocal
<1> QED BY <1>3, <1>4, <1>5

LEMMA StatusNext ==
  ASSUME Known, WorkInv, WorkInv', StatusesInv, [CreationNext]_vars
  PROVE  StatusesInv'
<1>1. CASE UNCHANGED vars \/ \E t \in Tx : Decide(t)
  <2>1. UNCHANGED <<exec, frame, agent, box, call, blurred>>
    BY <1>1 DEF vars, orchVars, outside, history, Decide
  <2>2. \A o \in Orch : StatusStays(o)
    BY <2>1 DEF StatusStays, Waiting, Writing
  <2> QED BY <2>1, <2>2, StatusKept DEF StatusesInv
<1>2. ASSUME NEW o \in Orch, Executor(o) PROVE StatusesInv'
  BY <1>2, StatusUntouched, StatusWaits
<1>3. ASSUME NEW o \in Orch, Request(o) PROVE StatusesInv'
  <2>1. Alone(o) /\ UNCHANGED <<frame, agent, box, call, blurred>>
    BY <1>3, StepAlone DEF Request, Upload, Ask, Answer, Cleanup, history
  <2>2. Waiting(o)' <=> Waiting(o)
    <3>1. UNCHANGED orchVars \/ (exec'[o].pc # "running" /\ exec[o].pc # "running")
      BY <1>3, KnownTypes DEF Request, Upload, Ask, Answer, Cleanup, StartOrchestration, Goto, Exec,
         Known, IInv, OrchInv, AbsentInv
    <3> QED BY <2>1, <3>1 DEF Waiting, orchVars
  <2>3. StatusStays(o)
    BY <2>1, <2>2 DEF StatusStays, Writing
  <2> QED BY <2>1, <2>3, StatusKept, StatusLocal DEF StatusesInv
<1>4. ASSUME NEW c \in Calls, LifecycleCall(c) PROVE StatusesInv'
  BY <1>4, StatusCall
<1> QED BY <1>1, <1>2, <1>3, <1>4, StatusApart, StatusCrash DEF CreationNext

\* The status of an agent tells whether its container was started and not stopped since, unless an operation
\* on it is under way, two overlapped, or one stopped half way, for any number of calls and creations: a container
\* that exits by itself goes unnoticed (start-container, startAgent and stopAgent write the status, no one else).
THEOREM StatusTracksContainer == CreationSpec => []StatusTellsContainer
<1>1. CreationInit => StatusesInv
  BY DEF CreationInit, Init, StatusesInv, StatusInv, Waiting, Writing
<1>2. (Known /\ WorkInv) /\ (Known /\ WorkInv)' /\ StatusesInv /\ [CreationNext]_vars => StatusesInv'
  BY StatusNext
<1>3. StatusesInv => StatusTellsContainer
  BY DEF StatusesInv, StatusInv, StatusTellsContainer
<1> QED BY <1>1, <1>2, <1>3, WorkAlways, PTL DEF CreationSpec
-----------------------------------------------------------------------------
(* The profile pictures (moveProfilePicture, and the cleanup of the request). *)

\* The file is uploaded before the orchestration starts, moved once by its executor, and deleted only
\* by the failing request; once moved it is recorded next, or the creation fails.
PictureInv(o) ==
  LET pc == exec[o].pc  stage == frame[o].stage IN
  /\ req[o] = "none" => file[o] = "none"
  /\ "profilePicture" \in agent[o].set => file[o] = "final"
  /\ o \in WithPicture /\ file[o] = "none" => pc = "idle" /\ req[o] # "uploaded"
  /\ file[o] = "deleted" => req[o] = "failed"
  /\ At(o, "picture") => file[o] = "final"
  /\ file[o] = "final" => \/ "profilePicture" \in agent[o].set
                          \/ At(o, "picture")
                          \/ pc \in {"failing", "catching", "over", "lost"} /\ row[o].status # "COMPLETED"
PicturesInv == \A o \in Orch : PictureInv(o)

LEMMA PictureLocal ==
  ASSUME PicturesInv, NEW o \in Orch, Alone(o), PictureInv(o)'
  PROVE  PicturesInv'
<1>1. ASSUME NEW x \in Orch \ {o} PROVE PictureInv(x)'
  BY DEF Alone, PicturesInv, PictureInv, At
<1> QED BY <1>1 DEF PicturesInv

\* A request uploads before it starts its orchestration, and deletes only what was not moved.
LEMMA PictureRequest ==
  ASSUME Known, PicturesInv, NEW o \in Orch, Request(o)
  PROVE  PicturesInv'
<1>1. Alone(o) /\ UNCHANGED <<frame, agent>> /\ PictureInv(o)
  BY StepAlone DEF Request, Upload, Ask, Answer, Cleanup, PicturesInv
<1>2. /\ row[o].status = "ABSENT" => exec[o].pc = "idle"
      /\ req \in [Orch -> ReqPc] /\ file \in [Orch -> {"none", "temp", "final", "deleted"}]
  BY KnownTypes DEF Known, IInv, OrchInv, AbsentInv
<1>3. PictureInv(o)'
  <2>1. CASE Upload(o)
    BY <1>1, <1>2, <2>1 DEF Upload, PictureInv, At, orchVars
  <2>2. CASE Ask(o)
    <3>1. req'[o] \in {"asked", "cleanup"} /\ file' = file
      BY <1>2, <2>2 DEF Ask
    <3>2. file[o] # "deleted" /\ (o \in WithPicture => file[o] # "none")
      BY <1>1, <2>2 DEF Ask, PictureInv
    <3>3. CASE UNCHANGED orchVars
      BY <1>1, <3>1, <3>2, <3>3 DEF PictureInv, At, orchVars
    <3>4. CASE StartOrchestration(o)
      <4>1. exec[o].pc = "idle" /\ exec'[o].pc \in {"loading", "over"} /\ row'[o].status = "PENDING"
        BY <1>2, <3>4, KnownTypes DEF StartOrchestration, Goto, Exec
      <4> QED BY <1>1, <3>1, <3>2, <4>1 DEF PictureInv, At
    <3> QED BY <2>2, <3>3, <3>4 DEF Ask
  <2>3. CASE Answer(o)
    BY <1>1, <1>2, <2>3 DEF Answer, PictureInv, At, orchVars
  <2>4. CASE Cleanup(o)
    BY <1>1, <1>2, <2>4 DEF Cleanup, PictureInv, At, orchVars
  <2> QED BY <2>1, <2>2, <2>3, <2>4 DEF Request
<1> QED BY <1>1, <1>3, PictureLocal

\* A picture is moved by the executor that then records it, or that fails.
LEMMA PictureExecutor ==
  ASSUME Known, WorkInv, WorkInv', PicturesInv, NEW o \in Orch, Executor(o)
  PROVE  PicturesInv'
<1>1. Alone(o) /\ PictureInv(o) /\ agent \in [Orch -> Agent] /\ req' = req
  BY StepAlone, KnownTypes DEF PicturesInv, Executor, Engine, CreateDbRecord, CreateContainer, RunContainer,
     Validate, Poll, InsertAgent, Rename, SetPicture, PickPort, MakeContainer, RecordContainer, StartContainer,
     WaitForLog, MarkRunning, WaitForAgent, Post, Snapshot, outside
<1>2. /\ \A stage : Enter(o, stage) => GoesOn(o, stage)
      /\ \A stage : Succeed(o, stage) => Ends(o, stage)
      /\ Abort(o) => Stops(o)
  BY Outcomes
<1>3. /\ \A stage : Enter(o, stage) \/ Succeed(o, stage) \/ Retry(o) \/ Abort(o) => row' = row
      /\ exec[o].pc = "running" => row[o].status # "COMPLETED"
  BY RowsKept, CompletedIsOver
<1>4. CASE Engine(o)
  <2>1. UNCHANGED <<frame, agent, file>> /\ EngineMoves(o)
    BY <1>4, EngineMovesOn DEF Engine, outside
  <2>2. ~At(o, "picture")' /\ ~At(o, "picture")
    BY <1>4, <2>1, EngineMovesOn DEF EngineMoves, At, WorkInv, StandingInv
  <2>3. exec[o].pc \in {"failing", "catching", "over", "lost"} /\ row[o].status # "COMPLETED" =>
          exec'[o].pc \in {"catching", "over"} /\ row'[o].status # "COMPLETED"
    BY <2>1 DEF EngineMoves
  <2>4. exec[o].pc # "idle"
    BY <2>1 DEF EngineMoves
  <2>5. PictureInv(o)'
    BY <1>1, <2>1, <2>2, <2>3, <2>4 DEF PictureInv
  <2> QED BY <1>1, <2>5, PictureLocal
<1>5. CASE Rename(o)
  <2>1. agent' = agent /\ exec[o].pc = "running" /\ ~At(o, "picture")
    BY <1>5 DEF Rename, At
  <2>2. CASE file[o] = "temp" /\ file' = [file EXCEPT ![o] = "final"] /\ Enter(o, "picture")
    <3>1. GoesOn(o, "picture") /\ row' = row /\ file'[o] = "final"
      BY <1>2, <1>3, <2>2, KnownTypes
    <3>3. req[o] # "none" /\ "profilePicture" \notin agent[o].set
      BY <1>1, <2>2 DEF PictureInv
    <3>2. At(o, "picture")'
      BY <2>1, <3>1 DEF GoesOn, At
    <3> QED BY <1>1, <2>1, <3>1, <3>2, <3>3, PictureLocal DEF PictureInv
  <2>3. CASE Succeed(o, "pick") /\ UNCHANGED file
    <3>1. Ends(o, "pick") /\ row' = row
      BY <1>2, <1>3, <2>3
    <3>2. ~At(o, "picture")' /\ exec'[o].pc # "idle"
      BY <3>1 DEF Ends, At
    <3> QED BY <1>1, <2>1, <2>3, <3>1, <3>2, PictureLocal DEF PictureInv
  <2> QED BY <1>5, <2>2, <2>3 DEF Rename
<1>6. CASE SetPicture(o)
  <2>1. file' = file /\ file[o] = "final" /\ exec[o].pc = "running"
    BY <1>1, <1>6 DEF SetPicture, outside, PictureInv, At
  <2>2. \/ agent'[o].set = agent[o].set \cup {"profilePicture"}
        \/ (UNCHANGED agent /\ Abort(o))
    BY <1>1, <1>6 DEF SetPicture, Await, Agent
  <2>3. (Ends(o, "pick") \/ Stops(o)) /\ row' = row
    <3>1. Succeed(o, "pick") \/ Abort(o)
      BY <1>6, Zenon DEF SetPicture, Await
    <3> QED BY <1>2, <1>3, <3>1
  <2>4. ~At(o, "picture")'
    BY <2>3 DEF Ends, Stops, At
  <2>5. PictureInv(o)'
    BY <1>1, <1>2, <1>3, <2>1, <2>2, <2>3, <2>4 DEF PictureInv, Stops
  <2> QED BY <1>1, <2>5, PictureLocal
<1>7. CASE ~Engine(o) /\ ~Rename(o) /\ ~SetPicture(o)
  <2>1. file' = file /\ exec[o].pc = "running" /\ ~At(o, "picture")
    BY <1>7 DEF Executor, CreateDbRecord, CreateContainer, RunContainer, Validate, Poll, InsertAgent,
       PickPort, MakeContainer, RecordContainer, StartContainer, WaitForLog, MarkRunning, WaitForAgent, Post,
       Snapshot, outside, At
  <2>2. "profilePicture" \in agent'[o].set <=> "profilePicture" \in agent[o].set
    <3>1. CASE InsertAgent(o)
      BY <1>1, <3>1 DEF InsertAgent, Await, Agent
    <3>2. CASE RecordContainer(o)
      <4> DEFINE set == agent[o].set \cup {"containerId"}
                 r == [agent[o] EXCEPT !.set = set, !.port = frame[o].port]
      <4>1. UNCHANGED agent \/ agent' = [agent EXCEPT ![o] = r]
        <5>1. CASE agent' = Recorded(o)
          BY <5>1, Zenon DEF Recorded
        <5> QED BY <3>2, <5>1 DEF RecordContainer, Await
      <4>2. r.set = agent[o].set \cup {"containerId"}
        BY <1>1 DEF Agent
      <4> HIDE DEF r
      <4> QED BY <1>1, <4>1, <4>2
    <3>3. CASE MarkRunning(o)
      <4> DEFINE set == agent[o].set \cup {"runtimeAgentId"}
                 r == [agent[o] EXCEPT !.status = "RUNNING", !.set = set]
      <4>1. UNCHANGED agent \/ agent' = [agent EXCEPT ![o] = r]
        BY <3>3, Zenon DEF MarkRunning
      <4>2. r.set = agent[o].set \cup {"runtimeAgentId"}
        BY <1>1 DEF Agent
      <4> HIDE DEF r
      <4> QED BY <1>1, <4>1, <4>2
    <3>4. InsertAgent(o) \/ RecordContainer(o) \/ MarkRunning(o) \/ UNCHANGED agent
      BY <1>7 DEF Executor, CreateDbRecord, CreateContainer, RunContainer, Validate, Poll,
         PickPort, MakeContainer, StartContainer, WaitForLog, WaitForAgent, Post, Snapshot
    <3> QED BY <3>1, <3>2, <3>3, <3>4
  <2>3. row' = row /\ exec'[o].pc # "idle"
    <3>1. UNCHANGED orchVars \/ StepSucceeds(o) \/ StepFails(o)
      BY <1>7, WithinStep DEF Executor
    <3> QED BY <2>1, <3>1, KnownTypes DEF orchVars, StepSucceeds, StepFails, Goto, Exec
  <2>4. ASSUME At(o, "picture")' PROVE FALSE
    <3>1. exec'[o].pc = "running" /\ frame'[o].stage = "picture" /\ exec'[o].at = 1
      BY <2>4 DEF At, WorkInv, StandingInv, Boxing, Launching
    <3>2. Validate(o) \/ Poll(o) \/ InsertAgent(o)
      BY <1>7, <3>1, SameStep DEF CreateDbRecord
    <3>3. \/ \E stage \in {"poll", "insert", "rename"} : Enter(o, stage)
          \/ (Retry(o) /\ frame[o].stage = "poll")
          \/ Succeed(o, "pick") \/ Abort(o)
      BY <3>2, Zenon DEF Validate, Poll, InsertAgent, Await, At
    <3> QED BY <3>1, <3>3, Outcomes DEF GoesOn, Ends, Stops
  <2>5. PictureInv(o)'
    BY <1>1, <2>1, <2>2, <2>3, <2>4 DEF PictureInv
  <2> QED BY <1>1, <2>5, PictureLocal
<1> QED BY <1>4, <1>5, <1>6, <1>7

LEMMA PictureNext ==
  ASSUME Known, WorkInv, WorkInv', PicturesInv, [CreationNext]_vars
  PROVE  PicturesInv'
<1>1. CASE UNCHANGED vars \/ \E t \in Tx : Decide(t)
  BY <1>1 DEF vars, orchVars, outside, Decide, PicturesInv, PictureInv, At
<1>2. ASSUME NEW c \in Calls, LifecycleCall(c) PROVE PicturesInv'
  BY <1>2, CallTouches DEF PicturesInv, PictureInv, At, orchVars
<1>3. CASE Crash
  <2>1. ASSUME NEW o \in Orch PROVE PictureInv(o)'
    <3>1. PictureInv(o) /\ UNCHANGED <<row, frame, agent, file>>
      BY <1>3 DEF PicturesInv, Crash, Restart
    <3>2. \/ exec'[o] = exec[o] /\ exec[o].pc \notin Live
          \/ exec'[o].pc = "lost" /\ exec[o].pc \in Live
      BY <1>3, KnownTypes DEF Crash, Restart, Exec
    <3>3. req'[o] = req[o] \/ (req'[o] = "dropped" /\ req[o] \in {"uploaded", "asked", "cleanup"})
      BY <1>3 DEF Crash
    <3>4. exec[o].pc = "running" => row[o].status # "COMPLETED"
      BY CompletedIsOver
    <3>5. ~At(o, "picture")'
      BY <3>2 DEF At, Live
    <3> QED BY <3>1, <3>2, <3>3, <3>4, <3>5 DEF PictureInv, At, Live
  <2> QED BY <2>1 DEF PicturesInv
<1>4. ASSUME NEW o \in Orch, NeverAnswered(o) PROVE PicturesInv'
  <2>1. Alone(o) /\ UNCHANGED <<row, frame, agent, file, req>> /\ PictureInv(o)
    BY <1>4, OthersAlone DEF PicturesInv
  <2>2. exec[o].pc = "running" /\ exec'[o].pc = "hung" /\ ~At(o, "picture")
    BY <1>4, Hanging, KnownTypes DEF NeverAnswered, StepHangs, Goto, Exec, At, Unbounded
  <2>3. PictureInv(o)'
    BY <2>1, <2>2 DEF PictureInv, At
  <2> QED BY <2>1, <2>3, PictureLocal
<1>5. ASSUME NEW o \in Orch, Exit(o) PROVE PicturesInv'
  BY <1>5, Exiting DEF PicturesInv, PictureInv, At, orchVars
<1> QED BY <1>1, <1>2, <1>3, <1>4, <1>5, PictureRequest, PictureExecutor DEF CreationNext

\* A recorded picture exists; a completed creation went without its picture only if the file is still where it
\* was uploaded or its own request, answered 500, deleted it (moveProfilePicture, createAgent's catch block).
THEOREM PictureIsKept == CreationSpec => []PictureLostOnlyByFailure
<1>1. CreationInit => PicturesInv
  <2> SUFFICES ASSUME CreationInit, NEW o \in Orch PROVE PictureInv(o)
    BY DEF PicturesInv
  <2>1. exec[o].pc = "idle" /\ file[o] = "none" /\ req[o] = "none" /\ agent[o].set = {}
    BY DEF CreationInit, Init
  <2> QED BY <2>1 DEF PictureInv, At
<1>2. (Known /\ WorkInv) /\ (Known /\ WorkInv)' /\ PicturesInv /\ [CreationNext]_vars => PicturesInv'
  BY PictureNext
<1>3. ASSUME Known, PicturesInv PROVE PictureLostOnlyByFailure
  <2>1. ASSUME NEW o \in Orch
        PROVE  /\ "profilePicture" \in agent[o].set => file[o] = "final"
               /\ row[o].status = "COMPLETED" /\ o \in WithPicture /\ "profilePicture" \notin agent[o].set =>
                    file[o] = "temp" \/ (file[o] = "deleted" /\ req[o] = "failed")
    BY <1>3, KnownTypes, CompletedIsOver DEF PicturesInv, PictureInv, At
  <2> QED BY <2>1 DEF PictureLostOnlyByFailure
<1> QED BY <1>1, <1>2, <1>3, WorkAlways, PTL DEF CreationSpec
=============================================================================
