----------------------------- MODULE AgentMessages -----------------------------
(***************************************************************************)
(* What agents are sent: the rounds of the clock (tasks.service.ts), which *)
(* ask one agent after the other, and the pair of requests made by hand    *)
(* (message.service.ts). Whether a container answers does not depend on    *)
(* what its row says at the moment.                                        *)
(***************************************************************************)
EXTENDS AgentTable

CONSTANT MaxAttempts   \* 5: how often a row is looked up before an agent is not ready
ASSUME AttemptsAssumption == MaxAttempts \in Nat \ {0}

VARIABLES
  round,   \* the round of each run
  inbox    \* what each agent has been sent

messageVars == <<round, inbox>>

\* list: whom to ask, at: which one is being asked; failed rounds stay at the
\* one that failed.
NoRound == [kind |-> "none", list |-> <<>>, at |-> 1, tries |-> 0, stage |-> "idle"]

MessagesInit == round = [r \in Run |-> NoRound] /\ inbox = [a \in Agent |-> <<>>]

Text(kind, i) == IF kind = "pair" THEN IF i = 1 THEN "decision" ELSE "allocation" ELSE kind
-----------------------------------------------------------------------------
\* sendTradeSimulation and sendPortfolioBalanceUpdate list the agents once.
BeginRound(r, kind) ==
  /\ round[r].kind = "none"
  /\ \/ \E list \in Listings(Running) :
          round' = [round EXCEPT ![r] =
            [NoRound EXCEPT !.kind = kind, !.list = list, !.stage = IF list = <<>> THEN "done" ELSE "wait"]]
     \/ round' = [round EXCEPT ![r] = [NoRound EXCEPT !.kind = kind, !.stage = "failed"]]
  /\ UNCHANGED inbox

\* sendTradeAndPortfolioRequests: one agent is asked twice.
BeginPair(r, a) ==
  /\ round[r].kind = "none"
  /\ round' = [round EXCEPT ![r] = [NoRound EXCEPT !.kind = "pair", !.list = <<a, a>>, !.stage = "wait"]]
  /\ UNCHANGED inbox

GiveUp(r) == [round[r] EXCEPT !.stage = "failed"]

\* waitForAgent: the row is looked up; the fifth miss ends the round, as does an error.
Asked(r) == round[r].list[round[r].at]
LookUp(r) ==
  /\ round[r].stage = "wait"
  /\ \/ Asked(r) \in Running /\ round' = [round EXCEPT ![r].stage = "post"]
     \/ Asked(r) \notin Running /\ round[r].tries + 1 < MaxAttempts /\ round' = [round EXCEPT ![r].tries = @ + 1]
     \/ round' = [round EXCEPT ![r] = GiveUp(r)]
  /\ UNCHANGED inbox

Outcomes == {"answered", "refused", "unheard"}  \* unheard: received, but the answer is an error
Deliver(r, a, outcome) ==
  inbox' = IF outcome = "refused" THEN inbox
           ELSE [inbox EXCEPT ![a] = Append(@, [text |-> Text(round[r].kind, round[r].at), run |-> r])]

NextAgent(r) ==
  [round[r] EXCEPT !.at = round[r].at + 1, !.tries = 0,
     !.stage = IF round[r].at = Len(round[r].list) THEN "done" ELSE "wait"]

\* Faulty variant: the loop has a try of its own.
PostAnyway(r) ==
  /\ round[r].stage = "post"
  /\ \E outcome \in Outcomes :
       Deliver(r, Asked(r), outcome) /\ round' = [round EXCEPT ![r] = NextAgent(r)]

\* The request is made once; an error ends the round.
Post(r) ==
  /\ round[r].stage = "post"
  /\ \E outcome \in Outcomes :
       /\ Deliver(r, Asked(r), outcome)
       /\ round' = [round EXCEPT ![r] =
            IF outcome = "answered" THEN NextAgent(r) ELSE GiveUp(r)]

MessageStep(r) == LookUp(r) \/ Post(r)
-----------------------------------------------------------------------------
Sent(r, i) ==
  \E k \in DOMAIN inbox[round[r].list[i]] :
    inbox[round[r].list[i]][k] = [text |-> Text(round[r].kind, i), run |-> r]

SentInOrder ==
  \A r \in Run : \A i \in DOMAIN round[r].list :
    (i < round[r].at => Sent(r, i)) /\ (i > round[r].at => ~Sent(r, i))
SentAtMostOnce ==
  \A a \in Agent : \A j, k \in DOMAIN inbox[a] : inbox[a][j] = inbox[a][k] => j = k

\* A round passes no agent over: those before the one it is at, or failed at,
\* have been sent its message and those after it have not, so a missing message
\* means that the round failed, at that agent or at an earlier one, and the
\* allocation request comes only after the decision was asked for and answered.
\* And though rows are looked up again and again, no agent is told twice by one
\* round to trade.
RoundsStopAtFailure == SentInOrder /\ SentAtMostOnce
=============================================================================
