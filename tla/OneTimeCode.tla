----------------------------- MODULE OneTimeCode -----------------------------
(***************************************************************************)
(* AccessCodeService.generateCodes and verifyCode: one-time codes that     *)
(* concurrent requests of several client addresses try, under a limit on   *)
(* failed attempts in a sliding window.  A request is interleaved with     *)
(* the others at every database call it awaits.  A process that dies in a  *)
(* request looks like a failing call of each request in flight, so a       *)
(* crash needs no action of its own.                                       *)
(***************************************************************************)
EXTENDS Integers, FiniteSets

CONSTANTS
  Request,    \* the verify requests that will ever be made
  Code,       \* codes a client may try, generated or not
  Ip,         \* client addresses, "unknown" for all without a header
  RateLimit,  \* failed attempts allowed in a window
  DbFaults    \* "rejected": fails without, "ambiguous": with its effect

ASSUME RateLimitAssumption == RateLimit \in Nat \ {0}
ASSUME OtpFaultsAssumption == DbFaults \subseteq {"rejected", "ambiguous"}
ASSUME RequestsAssumption == IsFiniteSet(Request)

VARIABLES
  otp,       \* the OTP table
  attempts,  \* rows of FailedAttempt of each address in the window
  req,       \* the requests: where each one is and what it has seen
  crowd,     \* history: most requests of an address ever in flight at once
  raced      \* history: pairs that both found a code fresh before either took it

vars == <<otp, attempts, req, crowd, raced>>

Pc == {"idle", "find", "create", "update", "clear", "over"}
Reply == {"none", "ok", "invalid", "used", "limited", "error"}
Verify == [pc : Pc, code : Code, ip : Ip, left : 0..RateLimit, reply : Reply]

Init ==
  /\ otp = [c \in Code |-> "none"]
  /\ attempts = [i \in Ip |-> 0]
  /\ req \in [Request -> [pc : {"idle"}, code : Code, ip : Ip, left : {0}, reply : {"none"}]]
  /\ crowd = [i \in Ip |-> 0]
  /\ raced = {}
-----------------------------------------------------------------------------
Inside(r) == req[r].pc \notin {"idle", "over"}
InFlight(i) == {r \in Request : req[r].ip = i /\ Inside(r)}
Larger(m, n) == IF m < n THEN n ELSE m
Go(r, pc) == req' = [req EXCEPT ![r].pc = pc]
Over(r, reply) == req' = [req EXCEPT ![r] = [@ EXCEPT !.pc = "over", !.reply = reply]]

\* An awaited call with an effect on the tables, and the error (500) it ends in.
Await(r, effect, none, goOn) ==
  \/ effect /\ goOn
  \/ Over(r, "error") /\ \/ "rejected" \in DbFaults /\ none
                         \/ "ambiguous" \in DbFaults /\ effect
ReadFails(r) == DbFaults # {} /\ Over(r, "error")

\* generateCodes inserts a batch with one createMany: all of it or, when a
\* code exists already (code is unique) or the call fails, nothing.
Generate(batch) ==
  /\ \A c \in batch : otp[c] = "none"
  /\ otp' = [c \in Code |-> IF c \in batch THEN "fresh" ELSE otp[c]]
  /\ UNCHANGED <<attempts, req, crowd, raced>>

\* A row leaves the window.
Age(i) ==
  /\ attempts[i] > 0
  /\ attempts' = [attempts EXCEPT ![i] = @ - 1]
  /\ UNCHANGED <<otp, req, crowd, raced>>

\* Faulty variant: one attempt too many is let through.
CountOneMore(r) ==
  /\ req[r].pc = "idle"
  /\ LET i == req[r].ip
         n == attempts[i]
     IN \/ /\ n <= RateLimit
           /\ req' = [req EXCEPT ![r] = [@ EXCEPT !.pc = "find", !.left = Larger(0, RateLimit - n)]]
           /\ crowd' = [crowd EXCEPT ![i] = Larger(@, Cardinality(InFlight(i)) + 1)]
        \/ n > RateLimit /\ Over(r, "limited") /\ UNCHANGED crowd
        \/ ReadFails(r) /\ UNCHANGED crowd
  /\ UNCHANGED <<otp, attempts, raced>>

\* The failed attempts of the address in the window; RateLimit of them refuse
\* the request.  What is read here is what the reply counts down from.
CountAttempts(r) ==
  /\ req[r].pc = "idle"
  /\ LET i == req[r].ip
         n == attempts[i]
     IN \/ /\ n < RateLimit
           /\ req' = [req EXCEPT ![r] = [@ EXCEPT !.pc = "find", !.left = RateLimit - n]]
           /\ crowd' = [crowd EXCEPT ![i] = Larger(@, Cardinality(InFlight(i)) + 1)]
        \/ n >= RateLimit /\ Over(r, "limited") /\ UNCHANGED crowd
        \/ ReadFails(r) /\ UNCHANGED crowd
  /\ UNCHANGED <<otp, attempts, raced>>

\* The two failing cases write the same row and differ in the reply, which is
\* decided here; the code is not read again.
FindCode(r) ==
  /\ req[r].pc = "find"
  /\ LET state == otp[req[r].code] IN
     \/ /\ state = "fresh"
        /\ Go(r, "update")
        /\ raced' = raced \cup
             {{r, s} : s \in {x \in Request : req[x].pc = "update" /\ req[x].code = req[r].code}}
     \/ /\ state # "fresh"
        /\ req' = [req EXCEPT ![r] =
             [@ EXCEPT !.pc = "create", !.left = req[r].left - 1,
                       !.reply = IF state = "used" THEN "used" ELSE "invalid"]]
        /\ UNCHANGED raced
     \/ ReadFails(r) /\ UNCHANGED raced
  /\ UNCHANGED <<otp, attempts, crowd>>

\* The row is written first and the client answered after it: an error of the
\* write replaces the answer.
RecordFailure(r) ==
  /\ req[r].pc = "create"
  /\ Await(r, attempts' = [attempts EXCEPT ![req[r].ip] = @ + 1], UNCHANGED attempts,
           Over(r, req[r].reply))
  /\ UNCHANGED <<otp, crowd, raced>>

\* Faulty variant: the code is not marked.
TakeWithoutMark(r) ==
  /\ req[r].pc = "update"
  /\ Go(r, "clear")
  /\ UNCHANGED <<otp, attempts, crowd, raced>>

\* The update is by id alone: it succeeds on a code another request has taken.
TakeCode(r) ==
  /\ req[r].pc = "update"
  /\ Await(r, otp' = [otp EXCEPT ![req[r].code] = "used"], UNCHANGED otp, Go(r, "clear"))
  /\ UNCHANGED <<attempts, crowd, raced>>

\* A success forgives the address.
ForgiveIp(r) ==
  /\ req[r].pc = "clear"
  /\ Await(r, attempts' = [attempts EXCEPT ![req[r].ip] = 0], UNCHANGED attempts, Over(r, "ok"))
  /\ UNCHANGED <<otp, crowd, raced>>
-----------------------------------------------------------------------------
VerifyCode(r) ==
  \/ CountAttempts(r) \/ FindCode(r) \/ RecordFailure(r) \/ TakeCode(r) \/ ForgiveIp(r)

Next ==
  \/ \E r \in Request : VerifyCode(r)
  \/ \E batch \in SUBSET Code : batch # {} /\ Generate(batch)
  \/ \E i \in Ip : Age(i)

Spec == Init /\ [][Next]_vars
-----------------------------------------------------------------------------
\* The rate limit of verifyCode counts first and records later, so it can be
\* overshot, but by no more than the requests of that address that were ever
\* in flight together: sequential clients get RateLimit guesses in a window.
GuessesAreLimited ==
  \A i \in Ip : attempts[i] + Cardinality(InFlight(i)) <= RateLimit - 1 + crowd[i]

\* r has taken its code: verifyCode is past the update, or has answered so.
Took(r) == req[r].pc = "clear" \/ req[r].reply = "ok"

\* A one-time code is good for two requests only if both had read it as
\* unused before either had marked it (findFirst and update do not exclude).
OneTime ==
  \A r, s \in Request : r # s /\ Took(r) /\ Took(s) /\ req[r].code = req[s].code => {r, s} \in raced

=============================================================================
