---------------------------- MODULE AgentCreation ----------------------------
(***************************************************************************)
(* The creation of agents: the engine of Orchestrator with the three real  *)
(* steps (create-db-record, create-container, start-container), the HTTP   *)
(* request that starts it, and the start and stop calls of the lifecycle   *)
(* service, all interleaved at every await.  Docker, the chain and the     *)
(* file system are modelled as the code uses them.  An orchestration       *)
(* creates at most one agent and one container, so o names all three.      *)
(***************************************************************************)
EXTENDS Orchestrator

CONSTANTS
  Tx,           \* payment transactions
  TxOf,         \* the transaction each request presents
  WithPicture,  \* the requests that upload a profile picture
  Ports,        \* host ports, startPort..maxPort
  MaxTries,     \* bound of a polling loop (60 and 5 in the code)
  Calls         \* the start and stop requests that will ever be made

ASSUME ThreeStepsAssumption == NumSteps = 3
ASSUME TxAssumption == TxOf \in [Orch -> Tx]
ASSUME PictureAssumption == WithPicture \subseteq Orch
ASSUME PortsAssumption == Ports \subseteq Nat \ {0}
ASSUME MaxTriesAssumption == MaxTries \in Nat \ {0}

VARIABLES
  tx,        \* what the chain says of each transaction
  frame,     \* local variables of each executor: its await, port, tries, posts
  agent,     \* the agents table; port 0 stands for null
  box,       \* the Docker containers
  file,      \* the uploaded picture of each request
  req,       \* the creation request of each orchestration
  call,      \* the lifecycle calls
  rivals,    \* history: pairs that chose a port while the other was choosing
  heard,     \* history: whose message reached whose container
  blurred    \* history: agents whose status and container came apart

outside == <<tx, file, req, call>>
history == <<rivals, heard, blurred>>
vars == <<orchVars, outside, frame, agent, box, history>>

Stage == {"validate", "poll", "insert", "rename", "picture",   \* create-db-record
          "pick", "make", "record",                            \* create-container
          "start", "logs", "mark", "ready", "post", "snapshot"}\* start-container
AgentStatus == {"NONE", "STARTING", "RUNNING", "STOPPED"}
ReqPc == {"none", "uploaded", "asked", "cleanup", "ok", "failed", "dropped"}
CallPc == {"idle", "docker", "write", "over"}

Locals == [stage : Stage, port : Ports \cup {0}, tries : 0..MaxTries, posts : 0..3]
Agent == [status : AgentStatus, port : Ports \cup {0},
          set : SUBSET {"containerId", "runtimeAgentId", "profilePicture"}]
Box == [state : {"none", "down", "up", "dead"}, port : Ports \cup {0}]
Call == [pc : CallPc, op : {"start", "stop"}, on : Orch]

CreationInit ==
  /\ Init
  /\ tx = [t \in Tx |-> "pending"]
  /\ frame = [o \in Orch |-> [stage |-> "validate", port |-> 0, tries |-> 0, posts |-> 0]]
  /\ agent = [o \in Orch |-> [status |-> "NONE", port |-> 0, set |-> {}]]
  /\ box = [o \in Orch |-> [state |-> "none", port |-> 0]]
  /\ file = [o \in Orch |-> "none"]
  /\ req = [o \in Orch |-> "none"]
  /\ call \in [Calls -> [pc : {"idle"}, op : {"start", "stop"}, on : Orch]]
  /\ rivals = {} /\ heard = {} /\ blurred = {}
-----------------------------------------------------------------------------
\* The chain decides a transaction once.
Decide(t) ==
  /\ tx[t] = "pending"
  /\ \E v \in {"accepted", "rejected"} : tx' = [tx EXCEPT ![t] = v]
  /\ UNCHANGED <<orchVars, frame, agent, box, file, req, call, history>>

\* createAgent: the upload, the start, then reading the status and writing
\* the mock wallet into the metadata (an error of either goes to cleanup).
Upload(o) ==
  /\ req[o] = "none" /\ o \in WithPicture
  /\ \/ req' = [req EXCEPT ![o] = "uploaded"] /\ file' = [file EXCEPT ![o] = "temp"]
     \/ DbFaults # {} /\ req' = [req EXCEPT ![o] = "failed"] /\ UNCHANGED file
  /\ UNCHANGED <<orchVars, tx, frame, agent, box, call, history>>

Ask(o) ==
  /\ req[o] = IF o \in WithPicture THEN "uploaded" ELSE "none"
  /\ \/ /\ StartOrchestration(o)
        /\ req' = [req EXCEPT ![o] = IF o \in fault' THEN "cleanup" ELSE "asked"]
     \/ /\ "rejected" \in DbFaults
        /\ req' = [req EXCEPT ![o] = "cleanup"]
        /\ UNCHANGED orchVars
  /\ UNCHANGED <<tx, file, call, frame, agent, box, history>>

\* Faulty variant: the temporary file is removed on the success path too.
AnswerAndDelete(o) ==
  /\ req[o] = "asked"
  /\ req' = [req EXCEPT ![o] = "ok"]
  /\ file' = [file EXCEPT ![o] = IF @ = "temp" THEN "deleted" ELSE @]
  /\ UNCHANGED <<orchVars, tx, call, frame, agent, box, history>>

Answer(o) ==
  /\ req[o] = "asked"
  /\ \/ req' = [req EXCEPT ![o] = "ok"]
     \/ DbFaults # {} /\ req' = [req EXCEPT ![o] = "cleanup"]
  /\ UNCHANGED <<orchVars, tx, file, call, frame, agent, box, history>>

\* The catch block: deleteFile swallows its own error, then 500 is answered,
\* though the orchestration may be running.
Cleanup(o) ==
  /\ req[o] = "cleanup"
  /\ req' = [req EXCEPT ![o] = "failed"]
  /\ \/ file' = [file EXCEPT ![o] = IF @ = "temp" THEN "deleted" ELSE @]
     \/ "rejected" \in DbFaults /\ UNCHANGED file
  /\ UNCHANGED <<orchVars, tx, call, frame, agent, box, history>>
-----------------------------------------------------------------------------
At(o, stage) == exec[o].pc = "running" /\ frame[o].stage = stage

Enter(o, stage) ==
  frame' = [frame EXCEPT ![o] = [@ EXCEPT !.stage = stage, !.tries = 0]] /\ UNCHANGED orchVars
Retry(o) == frame' = [frame EXCEPT ![o].tries = @ + 1] /\ UNCHANGED orchVars
Exhausted(o) == frame[o].tries = MaxTries
Succeed(o, next) == StepSucceeds(o) /\ frame' = [frame EXCEPT ![o].stage = next]
Abort(o) == StepFails(o) /\ UNCHANGED frame

\* An awaited call of a step with an effect: the step goes on, or the call
\* throws without (or in spite of) its effect and the step's catch block
\* turns the error into a failure.
Await(o, effect, none, goOn) ==
  \/ effect /\ goOn
  \/ Abort(o) /\ \/ "rejected" \in DbFaults /\ none
                 \/ "ambiguous" \in DbFaults /\ effect

\* create-db-record, up to the payment: a request without a hash, a
\* configuration or an existing agent to fork is refused.
Validate(o) ==
  /\ At(o, "validate")
  /\ Enter(o, "poll") \/ Abort(o)
  /\ UNCHANGED <<outside, agent, box, history>>

\* Faulty variants: exhaustion is taken for confirmation; an error does not
\* cost an attempt.
PollOptimistic(o) ==
  /\ At(o, "poll")
  /\ \/ (Exhausted(o) \/ tx[TxOf[o]] = "accepted") /\ Enter(o, "insert")
     \/ ~Exhausted(o) /\ tx[TxOf[o]] = "rejected" /\ Abort(o)
     \/ ~Exhausted(o) /\ tx[TxOf[o]] = "pending" /\ Retry(o)
  /\ UNCHANGED <<outside, agent, box, history>>

PollForever(o) ==
  /\ At(o, "poll")
  /\ \/ tx[TxOf[o]] = "accepted" /\ Enter(o, "insert")
     \/ tx[TxOf[o]] = "rejected" /\ Abort(o)
  /\ UNCHANGED <<outside, agent, box, history>>

\* pollTransactionStatus: an undecided status and an error both cost one
\* attempt; rejection and exhaustion are the same answer, FALSE.
Poll(o) ==
  /\ At(o, "poll")
  /\ LET status == tx[TxOf[o]] IN
     \/ Exhausted(o) /\ Abort(o)
     \/ ~Exhausted(o) /\ status = "accepted" /\ Enter(o, "insert")
     \/ ~Exhausted(o) /\ status = "rejected" /\ Abort(o)
     \/ ~Exhausted(o) /\ (status = "pending" \/ DbFaults # {}) /\ Retry(o)
  /\ UNCHANGED <<outside, agent, box, history>>

InsertAgent(o) ==
  /\ At(o, "insert")
  /\ Await(o, agent' = [agent EXCEPT ![o].status = "STARTING"], UNCHANGED agent,
           IF o \in WithPicture THEN Enter(o, "rename") ELSE Succeed(o, "pick"))
  /\ UNCHANGED <<outside, box, history>>

\* moveProfilePicture: fs.rename needs the temporary file; its error is
\* swallowed and the agent goes without a picture.
Rename(o) ==
  /\ At(o, "rename")
  /\ \/ /\ file[o] = "temp"
        /\ file' = [file EXCEPT ![o] = "final"]
        /\ Enter(o, "picture")
     \/ /\ file[o] # "temp" \/ "rejected" \in DbFaults
        /\ Succeed(o, "pick")
        /\ UNCHANGED file
  /\ UNCHANGED <<tx, req, call, agent, box, history>>

SetPicture(o) ==
  /\ At(o, "picture")
  /\ Await(o, agent' = [agent EXCEPT ![o].set = @ \cup {"profilePicture"}],
           UNCHANGED agent, Succeed(o, "pick"))
  /\ UNCHANGED <<outside, box, history>>
-----------------------------------------------------------------------------
\* Faulty variant: a stopped agent (status STARTING) does not hold its port.
UsedPortsOfRunning ==
  {agent[x].port : x \in {y \in Orch : agent[y].status = "RUNNING"}} \ {0}

\* findAvailablePort reads the ports of the agents that are not STOPPED.
UsedPorts == {agent[x].port : x \in {y \in Orch : agent[y].status # "STOPPED"}} \ {0}
FreePorts == Ports \ UsedPorts

\* Between the choice and its record nothing reserves the port.
Choosing(o) == exec[o].pc = "running" /\ frame[o].stage \in {"make", "record"}

PickPort(o) ==
  /\ At(o, "pick")
  /\ \/ /\ \E p \in FreePorts :
             /\ \A q \in FreePorts : p <= q
             /\ frame' = [frame EXCEPT ![o] = [@ EXCEPT !.stage = "make", !.port = p]]
        /\ rivals' = rivals \cup {{o, x} : x \in {y \in Orch : Choosing(y)}}
        /\ UNCHANGED orchVars
     \/ /\ FreePorts = {} \/ DbFaults # {}
        /\ Abort(o)
        /\ UNCHANGED rivals
  /\ UNCHANGED <<outside, agent, box, heard, blurred>>

Made(o) == [box EXCEPT ![o] = [state |-> "down", port |-> frame[o].port]]

MakeContainer(o) ==
  /\ At(o, "make")
  /\ Await(o, box' = Made(o), UNCHANGED box, Enter(o, "record"))
  /\ UNCHANGED <<outside, agent, history>>

Recorded(o) == [agent EXCEPT ![o] =
  [@ EXCEPT !.set = agent[o].set \cup {"containerId"}, !.port = frame[o].port]]

\* Faulty variant: an error of the record is swallowed and the creation goes on.
RecordContainerMaybe(o) ==
  /\ At(o, "record")
  /\ agent' = Recorded(o) \/ UNCHANGED agent
  /\ Succeed(o, "start")
  /\ UNCHANGED <<outside, box, history>>

RecordContainer(o) ==
  /\ At(o, "record")
  /\ Await(o, agent' = Recorded(o), UNCHANGED agent, Succeed(o, "start"))
  /\ UNCHANGED <<outside, box, history>>
-----------------------------------------------------------------------------
\* Docker refuses to start a container that is up or whose host port another
\* container holds, and to stop one that is not up. A "dead" one was up and has
\* exited by itself.
Listens(x, port) == box[x].state = "up" /\ box[x].port = port
MayStart(o) ==
  box[o].state \in {"down", "dead"} /\ \A x \in Orch : ~Listens(x, box[o].port)
MayStop(o) == box[o].state = "up"

\* Between a Docker operation on the container of o and the write of the
\* status that goes with it.
Unsettled(o) ==
  \/ exec[o].pc = "running" /\ frame[o].stage \in {"logs", "mark"}
  \/ \E c \in Calls : call[c].pc = "write" /\ call[c].on = o
Blur(o, cond) == blurred' = IF cond THEN blurred \cup {o} ELSE blurred
SetBox(o, state) == box' = [box EXCEPT ![o].state = state]

StartContainer(o) ==
  /\ At(o, "start")
  /\ \/ MayStart(o) /\ SetBox(o, "up") /\ Enter(o, "logs") /\ Blur(o, Unsettled(o))
     \/ /\ ~MayStart(o) \/ "rejected" \in DbFaults
        /\ Abort(o)
        /\ UNCHANGED <<box, blurred>>
     \/ /\ "ambiguous" \in DbFaults /\ MayStart(o)
        /\ SetBox(o, "up")
        /\ Abort(o)
        /\ Blur(o, TRUE)
  /\ UNCHANGED <<outside, agent, rivals, heard>>

\* waitForLog: the log line is found (it survives a stop of the container),
\* or reading the logs fails, or fifteen minutes have passed.
WaitForLog(o) ==
  /\ At(o, "logs")
  /\ \/ Enter(o, "mark") /\ UNCHANGED blurred
     \/ Abort(o) /\ Blur(o, TRUE)
  /\ UNCHANGED <<outside, agent, box, rivals, heard>>

MarkRunning(o) ==
  /\ At(o, "mark")
  /\ LET marked == [agent EXCEPT ![o] =
        [@ EXCEPT !.status = "RUNNING", !.set = agent[o].set \cup {"runtimeAgentId"}]] IN
     \/ agent' = marked /\ Enter(o, "ready") /\ UNCHANGED blurred
     \/ /\ \/ "rejected" \in DbFaults /\ UNCHANGED agent
           \/ "ambiguous" \in DbFaults /\ agent' = marked
        /\ Abort(o)
        /\ Blur(o, TRUE)
  /\ UNCHANGED <<outside, box, rivals, heard>>

\* waitForAgent: the row must be RUNNING with this runtime id and a port;
\* five attempts, then it throws.
Ready(o) ==
  agent[o].status = "RUNNING" /\ "runtimeAgentId" \in agent[o].set /\ agent[o].port # 0

WaitForAgent(o) ==
  /\ At(o, "ready")
  /\ \/ ~Exhausted(o) /\ Ready(o) /\ Enter(o, "post")
     \/ ~Exhausted(o) /\ ~Ready(o) /\ Retry(o)
     \/ (Exhausted(o) \/ DbFaults # {}) /\ Abort(o)
  /\ UNCHANGED <<outside, agent, box, history>>

\* sendMessageToAgent posts to localhost on the agent's port: whichever
\* container listens there gets it; nobody listening or an HTTP error throws.

Hears(o) == \E x \in Orch : Listens(x, agent[o].port) /\ heard' = heard \cup {<<o, x>>}

\* Faulty variant: an HTTP error is logged and not rethrown.
PostUnheard(o) ==
  /\ At(o, "post")
  /\ LET n == frame[o].posts + 1 IN
     \/ /\ Hears(o)
        /\ frame' = [frame EXCEPT ![o] = [@ EXCEPT !.posts = n, !.tries = 0,
                       !.stage = IF n = 1 THEN "snapshot" ELSE "ready"]]
        /\ IF n = 3 THEN StepSucceeds(o) ELSE UNCHANGED orchVars
     \/ StepSucceeds(o) /\ UNCHANGED <<frame, heard>>
  /\ UNCHANGED <<outside, agent, box, rivals, blurred>>

Post(o) ==
  /\ At(o, "post")
  /\ LET n == frame[o].posts + 1 IN
     \/ /\ Hears(o)
        /\ frame' = [frame EXCEPT ![o] = [@ EXCEPT !.posts = n, !.tries = 0,
                       !.stage = IF n = 1 THEN "snapshot" ELSE "ready"]]
        /\ IF n = 3 THEN StepSucceeds(o) ELSE UNCHANGED orchVars
     \/ Abort(o) /\ UNCHANGED heard
  /\ UNCHANGED <<outside, agent, box, rivals, blurred>>

\* The performance snapshot, taken between the first and the second message.
Snapshot(o) ==
  /\ At(o, "snapshot")
  /\ Enter(o, "ready") \/ (DbFaults # {} /\ Abort(o))
  /\ UNCHANGED <<outside, agent, box, history>>

\* The calls without a timeout: the chain's, Docker's, the agent's own server's.
Unbounded == {"poll", "make", "start", "logs", "post"}

\* Such a call is never answered, whether or not it has had its effect. The
\* fifteen minutes of waitForLog are looked at between its calls only.
NeverAnswered(o) ==
  /\ StepHangs(o) /\ frame[o].stage \in Unbounded
  /\ \/ UNCHANGED <<box, heard>> /\ Blur(o, At(o, "logs"))
     \/ At(o, "make") /\ box' = Made(o) /\ UNCHANGED <<heard, blurred>>
     \/ At(o, "start") /\ MayStart(o) /\ SetBox(o, "up") /\ Blur(o, TRUE) /\ UNCHANGED heard
     \/ At(o, "post") /\ Hears(o) /\ UNCHANGED <<box, blurred>>
  /\ UNCHANGED <<outside, frame, agent, rivals>>

\* A container exits by itself. It was made without a restart policy, and no
\* code looks at containers again to correct the status of their agents.
Exit(o) ==
  /\ box[o].state = "up"
  /\ SetBox(o, "dead")
  /\ UNCHANGED <<orchVars, outside, frame, agent, history>>
-----------------------------------------------------------------------------
\* startAgent and stopAgent: read the agent, call Docker, write the status.
\* Without an agent or a container both do nothing and answer 200.
SetPc(c, pc) == call' = [call EXCEPT ![c].pc = pc]

HasContainer(o) == "containerId" \in agent[o].set

ReadAgent(c) ==
  /\ call[c].pc = "idle"
  /\ \/ HasContainer(call[c].on) /\ SetPc(c, "docker")
     \/ (~HasContainer(call[c].on) \/ DbFaults # {}) /\ SetPc(c, "over")
  /\ UNCHANGED <<orchVars, tx, file, req, frame, agent, box, history>>

CallDocker(c) ==
  LET o == call[c].on
      may == IF call[c].op = "start" THEN MayStart(o) ELSE MayStop(o)
  IN /\ call[c].pc = "docker"
     /\ \/ /\ may /\ SetBox(o, IF call[c].op = "start" THEN "up" ELSE "down")
           /\ \/ SetPc(c, "write") /\ Blur(o, Unsettled(o))
              \/ "ambiguous" \in DbFaults /\ SetPc(c, "over") /\ Blur(o, TRUE)
        \/ /\ ~may \/ "rejected" \in DbFaults
           /\ SetPc(c, "over")
           /\ UNCHANGED <<box, blurred>>
     /\ UNCHANGED <<orchVars, tx, file, req, frame, agent, rivals, heard>>

\* Faulty variant: the statuses of the two operations are swapped.
WriteStatusSwapped(c) ==
  /\ call[c].pc = "write"
  /\ agent' = [agent EXCEPT ![call[c].on].status =
                  IF call[c].op = "stop" THEN "RUNNING" ELSE "STARTING"]
  /\ SetPc(c, "over")
  /\ UNCHANGED <<orchVars, tx, file, req, frame, box, history>>

\* stopAgent writes STARTING: there is no code that writes STOPPED.
WriteStatus(c) ==
  LET o == call[c].on
      written == [agent EXCEPT ![o].status =
                     IF call[c].op = "start" THEN "RUNNING" ELSE "STARTING"]
  IN /\ call[c].pc = "write"
     /\ \/ agent' = written /\ UNCHANGED blurred
        \/ /\ \/ "rejected" \in DbFaults /\ UNCHANGED agent
              \/ "ambiguous" \in DbFaults /\ agent' = written
           /\ Blur(o, TRUE)
     /\ SetPc(c, "over")
     /\ UNCHANGED <<orchVars, tx, file, req, frame, box, rivals, heard>>

\* The process dies and is started again: requests and calls are dropped;
\* the tables, the files and the containers stay as they are.
Crash ==
  /\ Restart
  /\ req' = [o \in Orch |-> IF req[o] \in {"uploaded", "asked", "cleanup"}
                            THEN "dropped" ELSE req[o]]
  /\ call' = [c \in Calls |-> IF call[c].pc \in {"docker", "write"}
                              THEN [call[c] EXCEPT !.pc = "over"] ELSE call[c]]
  /\ blurred' = blurred \cup {o \in Orch : Unsettled(o)}
  /\ UNCHANGED <<tx, file, frame, agent, box, rivals, heard>>
-----------------------------------------------------------------------------
CreateDbRecord(o) ==
  Validate(o) \/ Poll(o) \/ InsertAgent(o) \/ Rename(o) \/ SetPicture(o)
CreateContainer(o) == PickPort(o) \/ MakeContainer(o) \/ RecordContainer(o)
RunContainer(o) ==
  \/ StartContainer(o) \/ WaitForLog(o) \/ MarkRunning(o)
  \/ WaitForAgent(o) \/ Post(o) \/ Snapshot(o)
Engine(o) == EngineStep(o) /\ UNCHANGED <<outside, frame, agent, box, history>>
Executor(o) == Engine(o) \/ CreateDbRecord(o) \/ CreateContainer(o) \/ RunContainer(o)
Request(o) == Upload(o) \/ Ask(o) \/ Answer(o) \/ Cleanup(o)
LifecycleCall(c) == ReadAgent(c) \/ CallDocker(c) \/ WriteStatus(c)

CreationNext ==
  \/ \E t \in Tx : Decide(t)
  \/ \E o \in Orch : Request(o) \/ Executor(o) \/ NeverAnswered(o) \/ Exit(o)
  \/ \E c \in Calls : LifecycleCall(c)
  \/ Crash

CreationSpec == CreationInit /\ [][CreationNext]_vars

\* As for the engine: the database and the file system answer or fail, and a
\* call that is not bounded may hang (NeverAnswered) or be answered. Nothing is
\* assumed of the chain's decision, of the requests or of the lifecycle calls.
CreationFairSpec == CreationSpec /\ \A o \in Orch : WF_vars(Executor(o))
-----------------------------------------------------------------------------
\* No agent row, and so no container, exists for a payment the chain has not
\* accepted, whatever was rejected, timed out or failed while polling.
PaidBeforeCreated ==
  \A o \in Orch : agent[o].status # "NONE" \/ box[o].state # "none" => tx[TxOf[o]] = "accepted"

\* A poller that reads COMPLETED finds an agent with its container, port and
\* runtime id recorded and all three first messages delivered, in spite of
\* the start and stop calls made meanwhile.
CompletedMeansOperational ==
  \A o \in Orch : row[o].status = "COMPLETED" =>
    /\ {"containerId", "runtimeAgentId"} \subseteq agent[o].set /\ agent[o].port # 0
    /\ frame[o].posts = 3

\* A recorded port is the one the container was made with, and two agents
\* hold the same port only if their creations chose it at the same time:
\* findAvailablePort reads the table long before the port is written to it.
PortsSharedOnlyByRace ==
  \A o \in Orch : agent[o].port # 0 =>
    /\ box[o].port = agent[o].port
    /\ \A x \in Orch \ {o} : agent[x].port = agent[o].port => {o, x} \in rivals

\* A message for an agent reaches the container of another one only if their
\* creations raced for the port, however containers are stopped and started.
MessagesReachTheirAgent ==
  \A m \in heard : m[1] = m[2] \/ {m[1], m[2]} \in rivals

\* A container that no agent records belongs to a creation that is recording
\* it, that hangs at the call that made it, or that will never complete.
OrphanedOnlyByFailure ==
  \A o \in Orch : box[o].state # "none" /\ ~HasContainer(o) =>
    \/ At(o, "record")
    \/ exec[o].pc \in {"hung", "failing", "catching", "over", "lost"} /\ row[o].status # "COMPLETED"

\* The status tells whether the container was started and not stopped since,
\* unless an operation on it is under way, or two overlapped, or one stopped
\* half way. Between operations a container that exits by itself is the only
\* one whose agent reads RUNNING without its container being up.
StatusTellsContainer ==
  \A o \in Orch : o \notin blurred /\ ~Unsettled(o) =>
    (agent[o].status = "RUNNING") = (box[o].state \in {"up", "dead"})

\* A recorded picture exists, and a completed creation went without its
\* picture only if the move failed or its own request was answered 500.
PictureLostOnlyByFailure ==
  \A o \in Orch :
    /\ "profilePicture" \in agent[o].set => file[o] = "final"
    /\ row[o].status = "COMPLETED" /\ o \in WithPicture /\ "profilePicture" \notin agent[o].set =>
         \/ file[o] = "temp"
         \/ file[o] = "deleted" /\ req[o] = "failed"

\* A started creation is decided within its bounded polls, even if the chain
\* never decides the payment, unless a database call failed, the process died,
\* or a call without a timeout was never answered.
EveryCreationEnds ==
  \A o \in Orch : row[o].status = "PENDING" ~>
    row[o].status \in Terminal \/ o \in fault \/ exec[o].pc \in {"lost", "hung"}
=============================================================================
